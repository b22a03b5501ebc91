---------------------------- MODULE Agent_proofs ----------------------------
(***************************************************************************)
(* The agent and its loop, for every number of messages, calls, turns, runs *)
(* and resets: type correctness, the exactness of pendingToolCalls, the     *)
(* context of a run against the transcript of the host, the order in which  *)
(* messages are delivered and that none is lost silently, and that the      *)
(* results of tool calls follow the responses that asked for them.          *)
(* The event stream it iterates hands out every event once and in order,    *)
(* loses no wake-up, and its completing event is its last.                  *)
(***************************************************************************)
EXTENDS Agent, EventStream, SequenceTheorems, TLAPS

(* Where the loop stands and what its locals hold.                          *)
BatchOK ==
    /\ InBatch => turns # <<>> /\ next <= turns[turn].calls
    /\ emitted <= next
    /\ activeRun = 0 <=> pc = "idle"

(* The calls of a batch that have started and not ended.                    *)
Open == {"started", "prepared", "running"}
InProgress == {i \in 1 .. MaxCalls : call[i] \in Open}

(* What the location of the loop says of the calls of its batch.            *)
CallsAt ==
    /\ pc \in {"toolStart", "toolNext", "toolResult"} =>
          \A i \in 1 .. MaxCalls : call[i] \notin {"started", "running"}
    /\ pc = "toolPrepare" =>
          /\ call[next] = "started"
          /\ \A i \in 1 .. MaxCalls :
                i # next => call[i] \notin {"started", "running"}
    /\ pc = "toolWait" =>
          \A i \in 1 .. MaxCalls : call[i] \notin {"started", "prepared"}
    /\ pc = "toolResult" => \A i \in 1 .. MaxCalls : call[i] # "prepared"
    /\ InBatch /\ toolMode = "sequential" =>
          \A i \in 1 .. MaxCalls :
             /\ call[i] # "prepared"
             /\ i # next => call[i] \notin Open

(* A call that outlived its run belongs to an earlier turn than the batch.  *)
OrphansPast ==
    \A o \in orphans : o[2] <= turn /\ (InBatch => o[2] < turn)

(* Whatever reset() took out of it, pendingToolCalls names no other call.   *)
PendingInProgress == InBatch => pendingToolCalls \subseteq {turn} \X InProgress

IInv == TypeOK /\ BatchOK /\ CallsAt /\ OrphansPast /\ PendingInProgress
               /\ PendingCallsExact

-----------------------------------------------------------------------------
(* Sequences.                                                               *)

LEMMA AppendType ==
    ASSUME NEW S, NEW s \in Seq(S), NEW e \in S
    PROVE  Append(s, e) \in Seq(S)
  OBVIOUS

LEMMA ShortSeqType ==
    ASSUME NEW S PROVE <<>> \in Seq(S) /\ \A e \in S : <<e>> \in Seq(S)
  OBVIOUS

LEMMA ConcatType ==
    ASSUME NEW S, NEW s \in Seq(S), NEW t \in Seq(S)
    PROVE  s \o t \in Seq(S)
  OBVIOUS

LEMMA SubSeqType ==
    ASSUME NEW S, NEW s \in Seq(S), NEW i \in 1 .. Len(s) + 1,
           NEW j \in 0 .. Len(s)
    PROVE  SubSeq(s, i, j) \in Seq(S)
  OBVIOUS

LEMMA HeadTailType ==
    ASSUME NEW S, NEW s \in Seq(S), s # <<>>
    PROVE  Head(s) \in S /\ Tail(s) \in Seq(S)
  OBVIOUS

LEMMA ElementType ==
    ASSUME NEW S, NEW s \in Seq(S), NEW i \in 1 .. Len(s)
    PROVE  s[i] \in S
  OBVIOUS

(* The i results at the end of the first p entries, and what they follow.   *)
LEMMA Within ==
    ASSUME NEW n \in Nat, NEW p \in Nat, NEW i \in Nat \ {0}, p <= n, i < p
    PROVE  p - i \in 1 .. n /\ \A j \in 1 .. i : p - i + j \in 1 .. n
  <1>1. p - i \in Nat /\ p - i >= 1 /\ p - i <= n
    OBVIOUS
  <1>2. ASSUME NEW j \in 1 .. i PROVE p - i + j \in 1 .. n
    <2>1. j \in Nat /\ j >= 1 /\ j <= i
      OBVIOUS
    <2>. QED  BY <2>1
  <1>. QED  BY <1>1, <1>2

(* drain() splits its queue into two parts of the queue's type.             *)
LEMMA DrainType ==
    ASSUME NEW S, NEW q \in Seq(S), NEW m
    PROVE  Drained(q, m) \in Seq(S) /\ Left(q, m) \in Seq(S)
<1>1. Drained(q, m) \in Seq(S) /\ Len(Drained(q, m)) \in 0 .. Len(q)
  <2>1. CASE m = "all"
    BY <2>1 DEF Drained
  <2>2. CASE m # "all" /\ q = <<>>
    BY <2>2, SubSeqType DEF Drained
  <2>3. CASE m # "all" /\ q # <<>>
    <3>1. Len(q) \in Nat /\ Len(q) >= 1
      BY <2>3
    <3>2. Drained(q, m) = SubSeq(q, 1, 1)
      BY <2>3 DEF Drained
    <3>. QED  BY <3>1, <3>2
  <2>. QED  BY <2>1, <2>2, <2>3
<1>2. Len(Drained(q, m)) + 1 \in 1 .. Len(q) + 1 /\ Len(q) \in 0 .. Len(q)
  BY <1>1
<1>3. Left(q, m) \in Seq(S)
  BY <1>2, SubSeqType DEF Left
<1>. QED  BY <1>1, <1>3

(* Transcript entries.                                                      *)
LEMMA UserEntry == ASSUME NEW m \in 1 .. MaxMsgs PROVE <<"user", m>> \in Entry
  BY DEF Entry

LEMMA AssistantEntry ==
    ASSUME NEW t \in Nat \ {0} PROVE <<"assistant", t>> \in Entry
  BY DEF Entry

LEMMA ResultEntry ==
    ASSUME NEW t \in Nat \ {0}, NEW i \in 1 .. MaxCalls
    PROVE  <<"result", t, i>> \in Entry
  BY DEF Entry

LEMMA FailureEntry ==
    ASSUME NEW r \in 1 .. MaxRuns PROVE <<"failure", r>> \in Entry
  BY DEF Entry

LEMMA UsersType ==
    ASSUME NEW s \in Seq(1 .. MaxMsgs) PROVE Users(s) \in Seq(Entry)
<1>1. \A i \in 1 .. Len(s) : s[i] \in 1 .. MaxMsgs
  BY ElementType
<1>2. \A m \in 1 .. MaxMsgs : <<"user", m>> \in Entry
  BY UserEntry
<1>. QED  BY <1>1, <1>2 DEF Users

-----------------------------------------------------------------------------
LEMMA InitType == Init => TypeOK /\ BatchOK
<1> SUFFICES ASSUME Init PROVE TypeOK /\ BatchOK
  OBVIOUS
<1>1. TranscriptType
  BY DEF Init, TranscriptType
<1>2. QueueType
  BY Bounds DEF Init, QueueType
<1>3. RunType
  BY Bounds DEF Init, RunType
<1>4. BatchType
  BY Bounds DEF Init, BatchType, NoCalls, Calls
<1>5. BatchOK
  BY DEF Init, BatchOK, InBatch
<1>. QED  BY <1>1, <1>2, <1>3, <1>4, <1>5 DEF TypeOK

(* The turn a batch belongs to, and what Mark does to it.                   *)
LEMMA TurnInBatch ==
    ASSUME TypeOK, BatchOK, InBatch
    PROVE  /\ turn \in 1 .. Len(turns) /\ turn \in Nat \ {0}
           /\ turns[turn].calls \in 0 .. MaxCalls
           /\ next <= turns[turn].calls
           /\ turns[turn].fate \in {"whole", "stopped", "forgotten"}
<1>1. turns \in Seq([calls : 0 .. MaxCalls,
                    fate : {"whole", "stopped", "forgotten"}])
  BY DEF TypeOK, BatchType
<1>2. turns # <<>> /\ next <= turns[turn].calls
  BY DEF BatchOK
<1>3. turn \in 1 .. Len(turns) /\ turn \in Nat \ {0}
  BY <1>1, <1>2 DEF turn
<1>4. turns[turn] \in [calls : 0 .. MaxCalls,
                      fate : {"whole", "stopped", "forgotten"}]
  BY <1>1, <1>3, ElementType
<1>. QED  BY <1>2, <1>3, <1>4

LEMMA MarkTurns ==
    ASSUME TypeOK, BatchOK, NEW f \in {"stopped", "forgotten"}, Mark(f)
    PROVE  /\ turns' \in Seq([calls : 0 .. MaxCalls,
                              fate : {"whole", "stopped", "forgotten"}])
           /\ Len(turns') = Len(turns)
           /\ \A t \in 1 .. Len(turns) : turns'[t].calls = turns[t].calls
           /\ InBatch => turns'[turn].fate \in {f, turns[turn].fate}
           /\ InBatch /\ turns[turn].fate = "forgotten" =>
                 turns'[turn].fate = "forgotten"
           /\ InBatch /\ f = "forgotten" => turns'[turn].fate = "forgotten"
<1> DEFINE T == [calls : 0 .. MaxCalls, fate : {"whole", "stopped", "forgotten"}]
<1>0. turns \in Seq(T)
  BY DEF TypeOK, BatchType
<1>1. CASE InBatch /\ turns[turn].fate # "forgotten"
  <2>1. turns' = [turns EXCEPT ![turn].fate = f]
    BY <1>1 DEF Mark
  <2>2. turn \in 1 .. Len(turns)
    BY <1>1, TurnInBatch
  <2>3. turns[turn] \in T
    BY <1>0, <2>2, ElementType
  <2>4. [turns[turn] EXCEPT !.fate = f] \in T
    BY <2>3
  <2>5. turns' = [turns EXCEPT ![turn] = [turns[turn] EXCEPT !.fate = f]]
    BY <2>1
  <2>6. turns' \in Seq(T) /\ Len(turns') = Len(turns)
    BY <1>0, <2>2, <2>4, <2>5
  <2>7. /\ \A t \in 1 .. Len(turns) : t # turn => turns'[t] = turns[t]
        /\ turns'[turn] = [turns[turn] EXCEPT !.fate = f]
    BY <1>0, <2>2, <2>5
  <2>8. turns'[turn].calls = turns[turn].calls /\ turns'[turn].fate = f
    BY <2>3, <2>7
  <2>. QED  BY <1>1, <2>6, <2>7, <2>8
<1>2. CASE ~(InBatch /\ turns[turn].fate # "forgotten")
  <2>1. turns' = turns
    BY <1>2 DEF Mark
  <2>. QED  BY <1>0, <1>2, <2>1
<1>. QED  BY <1>1, <1>2

-----------------------------------------------------------------------------
(* Each part of TypeOK is preserved by every step.                          *)

LEMMA TranscriptStep ==
    ASSUME TypeOK, BatchOK, Next PROVE TranscriptType'
<1>0. /\ messages \in Seq(Entry) /\ context \in Seq(Entry)
      /\ pending \in Seq(1 .. MaxMsgs)
      /\ steering \in Seq(1 .. MaxMsgs) /\ followUp \in Seq(1 .. MaxMsgs)
  BY DEF TypeOK, TranscriptType, QueueType
<1>1. ASSUME NEW s \in Seq(1 .. MaxMsgs), NEW skip, StartRun(s, skip)
      PROVE  TranscriptType'
  <2>1. messages' = messages /\ context' = messages \o Users(s)
    BY <1>1 DEF StartRun
  <2>2. Users(s) \in Seq(Entry)
    BY UsersType
  <2>. QED  BY <1>0, <2>1, <2>2, ConcatType DEF TranscriptType
<1>2. ASSUME NEW e \in Entry, messages' = Append(messages, e),
             context' \in {context, Append(context, e)}
      PROVE  TranscriptType'
  BY <1>0, <1>2, AppendType DEF TranscriptType
<1>3. ASSUME messages' = messages, context' \in {context, <<>>}
      PROVE  TranscriptType'
  BY <1>0, <1>3, ShortSeqType DEF TranscriptType
<1>4. ASSUME pending # <<>> PROVE <<"user", Head(pending)>> \in Entry
  BY <1>0, <1>4, HeadTailType, UserEntry
<1>5. ASSUME EndBatch, InBatch, messages' = messages PROVE TranscriptType'
  <2>1. next \in 1 .. MaxCalls /\ \A i \in 1 .. next : Result(i) \in Entry
    BY <1>5, TurnInBatch, ResultEntry, Bounds DEF TypeOK, BatchType, Result
  <2>2. [i \in 1 .. next |-> Result(i)] \in Seq(Entry)
    BY <2>1, Bounds
  <2>3. context' = context \o [i \in 1 .. next |-> Result(i)]
    BY <1>5 DEF EndBatch
  <2>. QED  BY <1>0, <1>5, <2>2, <2>3, ConcatType DEF TranscriptType
<1>6. turn + 1 \in Nat \ {0}
  BY DEF TypeOK, BatchType, turn
<1>7. CASE Prompt
  <2>1. Len(via) + 1 \in 1 .. MaxMsgs /\ StartRun(<<Len(via) + 1>>, "no")
    BY <1>7, Bounds DEF Prompt, Send, TypeOK, QueueType
  <2>2. <<Len(via) + 1>> \in Seq(1 .. MaxMsgs)
    BY <2>1, ShortSeqType
  <2>. QED  BY <1>1, <2>1, <2>2
<1>8. CASE ContinueFromSteering \/ ContinueFromFollowUp \/ ContinueTranscript
  <2>1. /\ Drained(steering, mode["steering"]) \in Seq(1 .. MaxMsgs)
        /\ Drained(followUp, mode["followUp"]) \in Seq(1 .. MaxMsgs)
        /\ <<>> \in Seq(1 .. MaxMsgs)
    BY <1>0, DrainType
  <2>. QED  BY <1>1, <1>8, <2>1
            DEF ContinueFromSteering, ContinueFromFollowUp, ContinueTranscript
<1>9. CASE EmitPrompt \/ Inject
  BY <1>2, <1>4, <1>9 DEF EmitPrompt, Inject
<1>10. CASE RespondError \/ \E n \in 0 .. MaxCalls : Respond(n)
  BY <1>2, <1>6, <1>10, AssistantEntry DEF RespondError, Respond
<1>11. CASE EmitResult
  <2>1. Result(next) \in Entry
    BY <1>11, TurnInBatch, ResultEntry
       DEF EmitResult, InBatch, Result, TypeOK, BatchType
  <2>. QED  BY <1>2, <1>11, <2>1 DEF EmitResult, loopVars
<1>12. CASE EmitResults
  <2>1. emitted + 1 \in 1 .. MaxCalls
    BY <1>12, Bounds DEF EmitResults, TypeOK, BatchType
  <2>2. Result(emitted + 1) \in Entry
    BY <1>12, <2>1, TurnInBatch, ResultEntry DEF EmitResults, InBatch, Result
  <2>. QED  BY <1>2, <1>12, <2>2 DEF EmitResults, loopVars
<1>13. CASE EndSequential \/ EndParallel
  BY <1>5, <1>13 DEF EndSequential, EndParallel, InBatch, agentVars
<1>14. CASE FailureMessage
  <2>1. activeRun \in 1 .. MaxRuns
    BY <1>14, Bounds DEF FailureMessage, BatchOK, TypeOK, RunType
  <2>. QED  BY <1>2, <1>14, <2>1, FailureEntry DEF FailureMessage, loopVars
<1>15. CASE Reset
  BY <1>0, <1>15 DEF Reset, loopVars, TranscriptType
<1>16. CASE \/ Steer \/ FollowUp \/ Abort \/ CallModel \/ EmitAgentEnd
            \/ \E q \in {"steering", "followUp"} :
                  ClearQueue(q) \/ \E m \in {"all", "one-at-a-time"} : SetMode(q, m)
            \/ EndTurn \/ StopAfterTurn \/ ToolPrepared \/ NextCall \/ LaunchAll
            \/ Throw
  BY <1>3, <1>16 DEF Steer, FollowUp, Abort, CallModel, EmitAgentEnd, EndTurn,
     ClearQueue, SetMode, StopAfterTurn, ToolPrepared, NextCall, LaunchAll,
     Throw, agentVars, loopVars
<1>17. CASE \/ PollSteering \/ PollFollowUp \/ ToolStart \/ ToolImmediate
            \/ \E i \in 1 .. MaxCalls, status \in Finalized : ToolEnds(i, status)
            \/ \E i \in 1 .. MaxCalls : ThrowInTool(i)
            \/ \E o \in orphans : OrphanEnds(o)
  BY <1>3, <1>17 DEF PollSteering, PollFollowUp, ToolStart, ToolImmediate,
     ToolEnds, ThrowInTool, OrphanEnds, agentVars, loopVars
<1>18. CASE Settle \/ FailureThrows
  BY <1>3, <1>18 DEF Settle, FailureThrows, FinishRun
<1>. QED
  BY <1>7, <1>8, <1>9, <1>10, <1>11, <1>12, <1>13, <1>14, <1>15, <1>16, <1>17,
     <1>18 DEF Next, Host, Loop

LEMMA QueueStep ==
    ASSUME TypeOK, Next PROVE QueueType'
<1>0. /\ steering \in Seq(1 .. MaxMsgs) /\ followUp \in Seq(1 .. MaxMsgs)
      /\ pending \in Seq(1 .. MaxMsgs) /\ <<>> \in Seq(1 .. MaxMsgs)
      /\ mode \in [{"steering", "followUp"} -> {"all", "one-at-a-time"}]
      /\ via \in Seq({"prompt", "steering", "followUp"}) /\ Len(via) <= MaxMsgs
  BY ShortSeqType DEF TypeOK, QueueType
<1>1. ASSUME NEW how \in {"prompt", "steering", "followUp"}, Send(how)
      PROVE  /\ via' \in Seq({"prompt", "steering", "followUp"})
             /\ Len(via') <= MaxMsgs
             /\ Len(via) + 1 \in 1 .. MaxMsgs
  <2>1. Len(via) < MaxMsgs /\ via' = Append(via, how)
    BY <1>1 DEF Send
  <2>. QED  BY <1>0, <2>1, Bounds
<1>2. ASSUME NEW s \in Seq(1 .. MaxMsgs), NEW t \in Seq(1 .. MaxMsgs),
             steering' \in {steering, <<>>, s},
             followUp' \in {followUp, <<>>, t},
             pending' \in {pending, <<>>, s, t},
             UNCHANGED <<mode, via>>
      PROVE  QueueType'
  BY <1>0, <1>2 DEF QueueType
<1>3. \A m : /\ Drained(steering, m) \in Seq(1 .. MaxMsgs)
             /\ Left(steering, m) \in Seq(1 .. MaxMsgs)
             /\ Drained(followUp, m) \in Seq(1 .. MaxMsgs)
             /\ Left(followUp, m) \in Seq(1 .. MaxMsgs)
  BY <1>0, DrainType
<1>4. CASE Steer
  BY <1>0, <1>1, <1>4, AppendType DEF Steer, loopVars, QueueType
<1>5. CASE FollowUp
  BY <1>0, <1>1, <1>5, AppendType DEF FollowUp, loopVars, QueueType
<1>6. CASE Prompt
  <2>1. Send("prompt") /\ StartRun(<<Len(via) + 1>>, "no")
        /\ UNCHANGED <<steering, followUp>>
    BY <1>6 DEF Prompt
  <2>2. <<Len(via) + 1>> \in Seq(1 .. MaxMsgs)
    BY <1>1, <2>1, ShortSeqType
  <2>. QED  BY <1>0, <1>1, <2>1, <2>2 DEF StartRun, QueueType
<1>7. CASE \E q \in {"steering", "followUp"} :
              ClearQueue(q) \/ \E m \in {"all", "one-at-a-time"} : SetMode(q, m)
  <2>1. ASSUME NEW q \in {"steering", "followUp"}, ClearQueue(q)
        PROVE  QueueType'
    BY <1>0, <2>1 DEF ClearQueue, loopVars, QueueType
  <2>2. ASSUME NEW q \in {"steering", "followUp"},
               NEW m \in {"all", "one-at-a-time"}, SetMode(q, m)
        PROVE  QueueType'
    BY <1>0, <2>2 DEF SetMode, loopVars, QueueType
  <2>. QED  BY <1>7, <2>1, <2>2
<1>8. CASE Reset
  BY <1>0, <1>8 DEF Reset, loopVars, QueueType
<1>9. CASE ContinueFromSteering
  BY <1>0, <1>3, <1>9 DEF ContinueFromSteering, StartRun, QueueType
<1>10. CASE ContinueFromFollowUp
  BY <1>0, <1>3, <1>10 DEF ContinueFromFollowUp, StartRun, QueueType
<1>11. CASE ContinueTranscript
  BY <1>0, <1>11 DEF ContinueTranscript, StartRun, QueueType
<1>12. CASE EmitPrompt \/ Inject
  <2>1. Tail(pending) \in Seq(1 .. MaxMsgs)
    BY <1>0, <1>12, HeadTailType DEF EmitPrompt, Inject
  <2>. QED  BY <1>0, <1>12, <2>1 DEF EmitPrompt, Inject, queueVars, QueueType
<1>13. CASE PollSteering
  BY <1>0, <1>3, <1>13 DEF PollSteering, QueueType
<1>14. CASE PollFollowUp
  BY <1>0, <1>3, <1>14 DEF PollFollowUp, QueueType
<1>15. CASE Settle \/ FailureThrows
  BY <1>0, <1>15 DEF Settle, FailureThrows, FinishRun, queueVars, QueueType
<1>16. CASE \/ Abort \/ CallModel \/ RespondError \/ EmitAgentEnd \/ EndTurn
            \/ \E n \in 0 .. MaxCalls : Respond(n)
            \/ StopAfterTurn \/ ToolStart \/ ToolImmediate \/ ToolPrepared
  BY <1>0, <1>16 DEF Abort, CallModel, Respond, RespondError, EmitAgentEnd,
     EndTurn, StopAfterTurn, ToolStart, ToolImmediate, ToolPrepared,
     queueVars, loopVars, QueueType
<1>17. CASE \/ NextCall \/ LaunchAll \/ EmitResult \/ EmitResults \/ Throw
            \/ \E i \in 1 .. MaxCalls, status \in Finalized : ToolEnds(i, status)
            \/ \E i \in 1 .. MaxCalls : ThrowInTool(i)
            \/ FailureMessage \/ \E o \in orphans : OrphanEnds(o)
  BY <1>0, <1>17 DEF NextCall, LaunchAll, EmitResult, EmitResults, Throw,
     ToolEnds, ThrowInTool, FailureMessage, OrphanEnds, queueVars, loopVars,
     QueueType
<1>18. CASE EndSequential \/ EndParallel
  BY <1>0, <1>18 DEF EndSequential, EndParallel, EndBatch, queueVars, QueueType
<1>. QED
  BY <1>4, <1>5, <1>6, <1>7, <1>8, <1>9, <1>10, <1>11, <1>12, <1>13, <1>14,
     <1>15, <1>16, <1>17, <1>18 DEF Next, Host, Loop

LEMMA RunStep ==
    ASSUME TypeOK, Next PROVE RunType'
<1>1. ASSUME NEW s, NEW skip \in {"yes", "no"}, StartRun(s, skip)
      PROVE  RunType'
  BY <1>1, Bounds DEF StartRun, TypeOK, RunType
<1>2. CASE \/ Prompt \/ ContinueFromSteering \/ ContinueFromFollowUp
           \/ ContinueTranscript
  BY <1>1, <1>2 DEF Prompt, ContinueFromSteering, ContinueFromFollowUp,
     ContinueTranscript
<1>3. CASE Abort \/ Reset \/ Throw \/ \E i \in 1 .. MaxCalls : ThrowInTool(i)
  BY <1>3, Bounds DEF Abort, Reset, Throw, ThrowInTool, agentVars, loopVars,
     countVars, TypeOK, RunType
<1>4. CASE \/ Steer \/ FollowUp \/ \E o \in orphans : OrphanEnds(o)
           \/ \E q \in {"steering", "followUp"} :
                 ClearQueue(q) \/ \E m \in {"all", "one-at-a-time"} : SetMode(q, m)
  BY <1>4 DEF Steer, FollowUp, OrphanEnds, ClearQueue, SetMode, agentVars,
     loopVars, countVars, TypeOK, RunType
<1>5. CASE Settle \/ FailureThrows
  BY <1>5, Bounds DEF Settle, FailureThrows, FinishRun, countVars, TypeOK, RunType
<1>6. CASE EmitPrompt \/ Inject \/ PollSteering \/ PollFollowUp
  BY <1>6 DEF EmitPrompt, Inject, PollSteering, PollFollowUp, agentVars,
     countVars, TypeOK, RunType
<1>7. CASE \/ CallModel \/ RespondError \/ EmitAgentEnd \/ EndTurn
           \/ StopAfterTurn \/ \E n \in 0 .. MaxCalls : Respond(n)
  BY <1>7 DEF CallModel, RespondError, EmitAgentEnd, EndTurn, StopAfterTurn,
     Respond, agentVars, loopVars, countVars, TypeOK, RunType
<1>8. CASE \/ ToolStart \/ ToolImmediate \/ ToolPrepared \/ NextCall \/ LaunchAll
           \/ \E i \in 1 .. MaxCalls, status \in Finalized : ToolEnds(i, status)
  BY <1>8 DEF ToolStart, ToolImmediate, ToolPrepared, NextCall, LaunchAll,
     ToolEnds, agentVars, loopVars, countVars, TypeOK, RunType
<1>9. CASE EmitResult \/ EmitResults \/ FailureMessage
  BY <1>9 DEF EmitResult, EmitResults, FailureMessage, loopVars, countVars,
     TypeOK, RunType
<1>10. CASE EndSequential \/ EndParallel
  BY <1>10 DEF EndSequential, EndParallel, EndBatch, agentVars, countVars,
     TypeOK, RunType
<1>. QED
  BY <1>2, <1>3, <1>4, <1>5, <1>6, <1>7, <1>8, <1>9, <1>10 DEF Next, Host, Loop

LEMMA BatchTypeStep ==
    ASSUME TypeOK, BatchOK, Next PROVE BatchType'
<1> DEFINE T == [calls : 0 .. MaxCalls, fate : {"whole", "stopped", "forgotten"}]
<1>0. /\ turns \in Seq(T) /\ MaxCalls \in Nat \ {0}
      /\ pendingToolCalls \subseteq (Nat \X (1 .. MaxCalls))
      /\ orphans \subseteq ((1 .. MaxRuns) \X (Nat \ {0}) \X (1 .. MaxCalls))
  BY Bounds DEF TypeOK, BatchType
<1>1. CASE Abort
  <2>1. turns' \in Seq(T)
    BY <1>1, MarkTurns DEF Abort
  <2>. QED  BY <1>1, <2>1 DEF Abort, batchVars, TypeOK, BatchType
<1>2. CASE Reset
  <2>1. turns' \in Seq(T)
    BY <1>2, MarkTurns DEF Reset
  <2>. QED  BY <1>2, <2>1 DEF Reset, batchVars, TypeOK, BatchType
<1>3. CASE Throw
  <2>1. turns' \in Seq(T)
    BY <1>3, MarkTurns DEF Throw
  <2>. QED  BY <1>3, <2>1 DEF Throw, batchVars, agentVars, TypeOK, BatchType
<1>4. ASSUME NEW i \in 1 .. MaxCalls, ThrowInTool(i) PROVE BatchType'
  <2>1. turns' \in Seq(T)
    BY <1>4, MarkTurns DEF ThrowInTool
  <2>2. turn \in Nat \ {0}
    BY <1>4, TurnInBatch DEF ThrowInTool, InBatch
  <2>3. activeRun \in 1 .. MaxRuns
    BY <1>4, Bounds DEF ThrowInTool, BatchOK, TypeOK, RunType
  <2>4. \A j \in 1 .. MaxCalls : <<activeRun, turn, j>> \in
           (1 .. MaxRuns) \X (Nat \ {0}) \X (1 .. MaxCalls)
    BY <2>2, <2>3
  <2>5. orphans' \subseteq ((1 .. MaxRuns) \X (Nat \ {0}) \X (1 .. MaxCalls))
    BY <1>0, <1>4, <2>4 DEF ThrowInTool
  <2>6. pendingToolCalls' \subseteq (Nat \X (1 .. MaxCalls))
    BY <1>0, <1>4 DEF ThrowInTool
  <2>. QED  BY <1>4, <2>1, <2>5, <2>6 DEF ThrowInTool, batchVars, TypeOK, BatchType
<1>5. ASSUME NEW n \in 0 .. MaxCalls, Respond(n) PROVE BatchType'
  <2>1. [calls |-> n, fate |-> IF signal = "live" THEN "whole" ELSE "stopped"]
           \in T
    OBVIOUS
  <2>2. turns' \in Seq(T)
    BY <1>0, <1>5, <2>1, AppendType DEF Respond
  <2>. QED
    BY <1>0, <1>5, <2>2 DEF Respond, NoCalls, Calls, TypeOK, BatchType
<1>6. CASE RespondError
  <2>1. [calls |-> 0, fate |-> "stopped"] \in T
    BY <1>0
  <2>2. turns' \in Seq(T)
    BY <1>0, <1>6, <2>1, AppendType DEF RespondError
  <2>. QED  BY <1>6, <2>2 DEF RespondError, batchVars, TypeOK, BatchType
<1>7. CASE ToolStart
  <2>1. current \in Nat \X (1 .. MaxCalls)
    BY <1>7, TurnInBatch DEF ToolStart, InBatch, current, TypeOK, BatchType
  <2>. QED  BY <1>7, <2>1 DEF ToolStart, TypeOK, BatchType, Calls
<1>8. CASE ToolImmediate \/ ToolPrepared
  BY <1>8 DEF ToolImmediate, ToolPrepared, agentVars, TypeOK, BatchType, Calls
<1>9. CASE \E i \in 1 .. MaxCalls, status \in Finalized : ToolEnds(i, status)
  BY <1>9 DEF ToolEnds, Finalized, TypeOK, BatchType, Calls
<1>10. CASE NextCall
  <2>1. next + 1 \in 1 .. MaxCalls
    BY <1>0, <1>10, TurnInBatch
       DEF NextCall, lastCall, InBatch, TypeOK, BatchType
  <2>. QED  BY <1>10, <2>1 DEF NextCall, agentVars, TypeOK, BatchType
<1>11. CASE LaunchAll
  BY <1>11 DEF LaunchAll, agentVars, TypeOK, BatchType, Calls
<1>12. CASE EmitResults
  BY <1>0, <1>12 DEF EmitResults, TypeOK, BatchType
<1>13. CASE EndSequential \/ EndParallel \/ Settle \/ FailureThrows
  BY <1>0, <1>13 DEF EndSequential, EndParallel, EndBatch, Settle,
     FailureThrows, FinishRun, ClearBatch, NoCalls, agentVars, TypeOK,
     BatchType, Calls
<1>14. CASE \E o \in orphans : OrphanEnds(o)
  BY <1>14 DEF OrphanEnds, batchVars, TypeOK, BatchType
<1>15. CASE \/ Prompt \/ ContinueFromSteering \/ ContinueFromFollowUp
            \/ ContinueTranscript
  BY <1>15 DEF Prompt, ContinueFromSteering, ContinueFromFollowUp,
     ContinueTranscript, StartRun, batchVars, TypeOK, BatchType
<1>16. CASE \/ Steer \/ FollowUp
            \/ \E q \in {"steering", "followUp"} :
                  ClearQueue(q) \/ \E m \in {"all", "one-at-a-time"} : SetMode(q, m)
            \/ PollSteering \/ PollFollowUp \/ CallModel
  BY <1>16 DEF Steer, FollowUp, ClearQueue, SetMode, PollSteering,
     PollFollowUp, CallModel, agentVars, batchVars, TypeOK, BatchType
<1>17. CASE \/ EmitPrompt \/ Inject \/ EmitAgentEnd \/ EndTurn \/ StopAfterTurn
            \/ EmitResult \/ FailureMessage
  BY <1>17 DEF EmitPrompt, Inject, EmitAgentEnd, EndTurn, StopAfterTurn,
     EmitResult, FailureMessage, agentVars, batchVars, TypeOK, BatchType
<1>. QED
  BY <1>1, <1>2, <1>3, <1>4, <1>5, <1>6, <1>7, <1>8, <1>9, <1>10, <1>11, <1>12,
     <1>13, <1>14, <1>15, <1>16, <1>17 DEF Next, Host, Loop

LEMMA BatchOKStep ==
    ASSUME TypeOK, BatchOK, Next PROVE BatchOK'
<1>0. /\ next \in 1 .. MaxCalls /\ emitted \in 0 .. MaxCalls
      /\ activeRun \in 0 .. MaxRuns /\ runs \in 0 .. MaxRuns
      /\ turns \in Seq([calls : 0 .. MaxCalls,
                        fate : {"whole", "stopped", "forgotten"}])
  BY DEF TypeOK, BatchType, RunType
<1>1. ASSUME NEW f \in {"stopped", "forgotten"}, Mark(f),
             UNCHANGED <<batchVars, activeRun>>,
             pc' = pc \/ (pc' = "failing" /\ pc # "idle")
      PROVE  BatchOK'
  <2>1. emitted' <= next' /\ (activeRun' = 0 <=> pc' = "idle")
    BY <1>1 DEF BatchOK, batchVars
  <2>2. ASSUME InBatch' PROVE turns' # <<>> /\ next' <= turns'[turn'].calls
    <3>1. InBatch /\ turns # <<>> /\ next <= turns[turn].calls
      BY <1>1, <2>2 DEF InBatch, BatchOK
    <3>2. /\ Len(turns') = Len(turns) /\ turn \in 1 .. Len(turns)
          /\ turns'[turn].calls = turns[turn].calls
          /\ turns' \in Seq([calls : 0 .. MaxCalls,
                             fate : {"whole", "stopped", "forgotten"}])
      BY <1>1, <3>1, MarkTurns, TurnInBatch
    <3>. QED  BY <1>1, <3>1, <3>2 DEF turn, batchVars
  <2>. QED  BY <2>1, <2>2 DEF BatchOK
<1>2. CASE Abort \/ Reset
  <2>1. CASE Abort
    <3>1. Mark("stopped") /\ UNCHANGED <<batchVars, activeRun>> /\ pc' = pc
      BY <2>1 DEF Abort
    <3>. QED  BY <1>1, <3>1
  <2>2. CASE Reset
    <3>1. Mark("forgotten") /\ UNCHANGED <<batchVars, activeRun>> /\ pc' = pc
      BY <2>2 DEF Reset
    <3>. QED  BY <1>1, <3>1
  <2>. QED  BY <1>2, <2>1, <2>2
<1>3. CASE Throw \/ \E i \in 1 .. MaxCalls : ThrowInTool(i)
  <2>1. CASE Throw
    <3>1. pc # "idle"
      BY <2>1 DEF Throw, MayThrow
    <3>. QED  BY <1>1, <2>1, <3>1 DEF Throw, agentVars
  <2>2. ASSUME NEW i \in 1 .. MaxCalls, ThrowInTool(i) PROVE BatchOK'
    BY <1>1, <2>2 DEF ThrowInTool
  <2>. QED  BY <1>3, <2>1, <2>2
<1>4. ASSUME NEW n \in 0 .. MaxCalls, Respond(n) PROVE BatchOK'
  BY SMTT(30), <1>0, <1>4 DEF Respond, InBatch, turn, BatchOK
<1>5. CASE NextCall
  BY <1>0, <1>5, TurnInBatch
     DEF NextCall, lastCall, InBatch, turn, BatchOK, agentVars
<1>6. CASE \/ ToolStart \/ ToolImmediate \/ ToolPrepared \/ LaunchAll
           \/ \E i \in 1 .. MaxCalls, status \in Finalized : ToolEnds(i, status)
  BY <1>6 DEF ToolStart, ToolImmediate, ToolPrepared, LaunchAll, ToolEnds,
     InBatch, turn, BatchOK, agentVars
<1>7. CASE EmitResult \/ EmitResults
  BY <1>0, <1>7 DEF EmitResult, EmitResults, InBatch, turn, BatchOK, batchVars
<1>8. CASE EndSequential \/ EndParallel \/ Settle \/ FailureThrows
  BY <1>0, <1>8 DEF EndSequential, EndParallel, EndBatch, Settle,
     FailureThrows, FinishRun, ClearBatch, InBatch, BatchOK, agentVars
<1>9. CASE \/ Prompt \/ ContinueFromSteering \/ ContinueFromFollowUp
           \/ ContinueTranscript
  BY SMTT(30), <1>0, <1>9 DEF Prompt, ContinueFromSteering, ContinueFromFollowUp,
     ContinueTranscript, StartRun, InBatch, BatchOK, batchVars
<1>10. CASE \/ Steer \/ FollowUp \/ \E o \in orphans : OrphanEnds(o)
            \/ \E q \in {"steering", "followUp"} :
                  ClearQueue(q) \/ \E m \in {"all", "one-at-a-time"} : SetMode(q, m)
  BY <1>10 DEF Steer, FollowUp, ClearQueue, SetMode, OrphanEnds, InBatch, turn,
     BatchOK, agentVars, batchVars
<1>11. CASE \/ PollSteering \/ PollFollowUp \/ CallModel \/ RespondError
            \/ EmitPrompt \/ Inject \/ EmitAgentEnd \/ EndTurn \/ StopAfterTurn
            \/ FailureMessage
  BY <1>11 DEF PollSteering, PollFollowUp, CallModel, RespondError, EmitPrompt,
     Inject, EmitAgentEnd, EndTurn, StopAfterTurn, FailureMessage, InBatch,
     BatchOK, agentVars, batchVars
<1>. QED
  BY <1>2, <1>3, <1>4, <1>5, <1>6, <1>7, <1>8, <1>9, <1>10, <1>11
     DEF Next, Host, Loop

LEMMA TypeStep == TypeOK /\ BatchOK /\ [Next]_vars => TypeOK' /\ BatchOK'
<1> SUFFICES ASSUME TypeOK, BatchOK, [Next]_vars PROVE TypeOK' /\ BatchOK'
  OBVIOUS
<1>1. CASE Next
  BY <1>1, TranscriptStep, QueueStep, RunStep, BatchTypeStep, BatchOKStep
     DEF TypeOK
<1>2. CASE UNCHANGED vars
  BY <1>2 DEF vars, queueVars, agentVars, batchVars, loopVars, countVars,
     TypeOK, TranscriptType, QueueType, RunType, BatchType, BatchOK, InBatch,
     turn
<1>. QED  BY <1>1, <1>2

(* Every variable keeps its type: entries, queued messages and tool calls   *)
(* name messages, turns and calls that exist, and the index of the call in  *)
(* hand never runs past its batch.                                          *)
THEOREM TypeCorrect == Spec => []TypeOK
<1>1. Init => TypeOK /\ BatchOK
  BY InitType
<1>2. TypeOK /\ BatchOK /\ [Next]_vars => (TypeOK /\ BatchOK)'
  BY TypeStep
<1>. QED  BY <1>1, <1>2, PTL DEF Spec

-----------------------------------------------------------------------------
(* pendingToolCalls.                                                        *)

(* A step that leaves the locals of the batch and its location alone.       *)
LEMMA CallsAtFrame ==
    ASSUME CallsAt, UNCHANGED batchVars,
           pc' = pc \/ pc' \notin {"toolStart", "toolPrepare", "toolWait",
                                   "toolResult", "toolNext"}
    PROVE  CallsAt'
  BY DEF CallsAt, InBatch, Open, batchVars

LEMMA CallsAtStep ==
    ASSUME TypeOK, BatchOK, CallsAt, Next PROVE CallsAt'
<1>0. /\ next \in 1 .. MaxCalls /\ toolMode \in {"sequential", "parallel"}
      /\ call \in [1 .. MaxCalls -> Calls]
  BY DEF TypeOK, BatchType
<1>1. CASE \/ Steer \/ FollowUp \/ Prompt \/ Abort \/ Reset
           \/ \E q \in {"steering", "followUp"} :
                 ClearQueue(q) \/ \E m \in {"all", "one-at-a-time"} : SetMode(q, m)
           \/ ContinueFromSteering \/ ContinueFromFollowUp \/ ContinueTranscript
           \/ \E o \in orphans : OrphanEnds(o)
  <2>1. UNCHANGED batchVars /\ (pc' = pc \/ pc' = "prompts")
    BY <1>1 DEF Steer, FollowUp, Prompt, Abort, Reset, ClearQueue, SetMode,
       ContinueFromSteering, ContinueFromFollowUp, ContinueTranscript, StartRun,
       OrphanEnds
  <2>. QED  BY <2>1, CallsAtFrame
<1>2. CASE \/ EmitPrompt \/ PollSteering \/ PollFollowUp \/ Inject \/ CallModel
           \/ RespondError \/ EmitAgentEnd \/ EndTurn \/ StopAfterTurn
           \/ Throw \/ FailureMessage \/ \E i \in 1 .. MaxCalls : ThrowInTool(i)
  <2>1. /\ UNCHANGED batchVars
        /\ \/ pc' = pc
           \/ pc' \in {"inject", "pollFollowUp", "settling", "responding",
                       "agentEnd", "poll", "failing", "failed"}
    BY <1>2 DEF EmitPrompt, PollSteering, PollFollowUp, Inject, CallModel,
       RespondError, EmitAgentEnd, EndTurn, StopAfterTurn, Throw,
       FailureMessage, ThrowInTool
  <2>. QED  BY <2>1, CallsAtFrame
<1>3. ASSUME ClearBatch, pc' \notin {"toolPrepare", "toolWait", "toolNext"}
      PROVE  CallsAt'
  BY <1>3 DEF ClearBatch, NoCalls, CallsAt, Open
<1>4. CASE EndSequential \/ EndParallel \/ Settle \/ FailureThrows
  BY <1>3, <1>4 DEF EndSequential, EndParallel, EndBatch, Settle,
     FailureThrows, FinishRun
<1>5. ASSUME NEW n \in 0 .. MaxCalls, Respond(n) PROVE CallsAt'
  BY <1>5 DEF Respond, NoCalls, CallsAt, Open
<1>6. CASE ToolStart
  BY <1>0, <1>6 DEF ToolStart, CallsAt, InBatch, Open
<1>7. CASE ToolImmediate
  BY <1>0, <1>7 DEF ToolImmediate, CallsAt, InBatch, Open
<1>8. CASE ToolPrepared
  BY <1>0, <1>8 DEF ToolPrepared, CallsAt, InBatch, Open
<1>9. ASSUME NEW i \in 1 .. MaxCalls, NEW status \in Finalized,
             ToolEnds(i, status)
      PROVE  CallsAt'
  BY <1>0, <1>9 DEF ToolEnds, Finalized, CallsAt, InBatch, Open
<1>10. CASE NextCall
  BY <1>0, <1>10 DEF NextCall, CallsAt, InBatch, Open
<1>11. CASE LaunchAll
  BY <1>0, <1>11 DEF LaunchAll, CallsAt, InBatch, Open
<1>12. CASE EmitResult \/ EmitResults
  BY <1>0, <1>12 DEF EmitResult, EmitResults, CallsAt, InBatch, Open, batchVars
<1>. QED
  BY <1>1, <1>2, <1>4, <1>5, <1>6, <1>7, <1>8, <1>9, <1>10, <1>11, <1>12
     DEF Next, Host, Loop

LEMMA OrphansPastStep ==
    ASSUME TypeOK, BatchOK, OrphansPast, Next PROVE OrphansPast'
<1>0. /\ orphans \subseteq ((1 .. MaxRuns) \X (Nat \ {0}) \X (1 .. MaxCalls))
      /\ turn \in Nat
  BY DEF TypeOK, BatchType, turn
<1>1. ASSUME orphans' \subseteq orphans, turn' = turn, InBatch' => InBatch
      PROVE  OrphansPast'
  BY <1>1 DEF OrphansPast
<1>2. ASSUME orphans' = orphans, turn' = turn + 1 PROVE OrphansPast'
  <2>1. \A o \in orphans : o[2] \in Nat /\ o[2] <= turn
    BY <1>0 DEF OrphansPast
  <2>2. \A o \in orphans : o[2] < turn + 1 /\ o[2] <= turn + 1
    BY <1>0, <2>1
  <2>. QED  BY <1>2, <2>2 DEF OrphansPast
<1>3. ASSUME NEW f \in {"stopped", "forgotten"}, Mark(f) PROVE turn' = turn
  BY <1>3, MarkTurns DEF turn
<1>4. CASE Abort \/ Reset \/ Throw
  <2>1. turn' = turn
    BY <1>3, <1>4 DEF Abort, Reset, Throw
  <2>. QED  BY <1>1, <1>4, <2>1 DEF Abort, Reset, Throw, InBatch
<1>5. ASSUME NEW i \in 1 .. MaxCalls, ThrowInTool(i) PROVE OrphansPast'
  <2>1. turn' = turn /\ ~InBatch'
    BY <1>3, <1>5 DEF ThrowInTool, InBatch
  <2>2. \A o \in orphans' : o \in orphans \/ o[2] = turn
    BY <1>5 DEF ThrowInTool
  <2>. QED  BY <1>0, <2>1, <2>2 DEF OrphansPast
<1>6. CASE RespondError \/ \E n \in 0 .. MaxCalls : Respond(n)
  <2>1. PICK e : orphans' = orphans /\ turns' = Append(turns, e)
    BY <1>6 DEF RespondError, Respond
  <2>2. turns \in Seq([calls : 0 .. MaxCalls,
                      fate : {"whole", "stopped", "forgotten"}])
    BY DEF TypeOK, BatchType
  <2>3. turn' = turn + 1
    BY <2>1, <2>2 DEF turn
  <2>. QED  BY <1>2, <2>1, <2>3
<1>7. CASE \/ Steer \/ FollowUp \/ Prompt
           \/ \E q \in {"steering", "followUp"} :
                 ClearQueue(q) \/ \E m \in {"all", "one-at-a-time"} : SetMode(q, m)
           \/ ContinueFromSteering \/ ContinueFromFollowUp \/ ContinueTranscript
           \/ \E o \in orphans : OrphanEnds(o)
  BY <1>1, <1>7 DEF Steer, FollowUp, Prompt, ClearQueue, SetMode,
     ContinueFromSteering, ContinueFromFollowUp, ContinueTranscript, StartRun,
     OrphanEnds, InBatch, turn
<1>8. CASE \/ EmitPrompt \/ PollSteering \/ PollFollowUp \/ Inject \/ CallModel
           \/ EmitAgentEnd \/ EndTurn \/ StopAfterTurn \/ FailureMessage
           \/ EndSequential \/ EndParallel \/ Settle \/ FailureThrows
  BY <1>1, <1>8 DEF EmitPrompt, PollSteering, PollFollowUp, Inject, CallModel,
     EmitAgentEnd, EndTurn, StopAfterTurn, FailureMessage, EndSequential,
     EndParallel, EndBatch, Settle, FailureThrows, FinishRun, InBatch, turn
<1>9. CASE \/ ToolStart \/ ToolImmediate \/ ToolPrepared \/ NextCall \/ LaunchAll
           \/ \E i \in 1 .. MaxCalls, status \in Finalized : ToolEnds(i, status)
           \/ EmitResult \/ EmitResults
  BY <1>1, <1>9 DEF ToolStart, ToolImmediate, ToolPrepared, NextCall,
     LaunchAll, ToolEnds, EmitResult, EmitResults, InBatch, turn
<1>. QED
  BY <1>4, <1>5, <1>6, <1>7, <1>8, <1>9 DEF Next, Host, Loop

(* The exactness of pendingToolCalls while a batch is run ...               *)
BatchPending ==
    InBatch => /\ pendingToolCalls \subseteq {turn} \X InProgress
               /\ turns[turn].fate # "forgotten" =>
                     pendingToolCalls = {turn} \X InProgress

(* ... and outside one.                                                     *)
NoPending ==
    /\ ~InBatch /\ pc \notin {"failing", "failed"} => pendingToolCalls = {}
    /\ activeRun = 0 => isStreaming = "no"

LEMMA PendingParts ==
    ASSUME BatchOK
    PROVE  PendingInProgress /\ PendingCallsExact <=> BatchPending /\ NoPending
  BY DEF BatchOK, PendingInProgress, PendingCallsExact, BatchPending, NoPending,
     InProgress, Open, InBatch

LEMMA PendingStep ==
    ASSUME TypeOK, BatchOK, CallsAt, OrphansPast, BatchPending, NoPending, Next
    PROVE  BatchPending' /\ NoPending'
<1>0. /\ next \in 1 .. MaxCalls /\ turn \in Nat
      /\ call \in [1 .. MaxCalls -> Calls]
      /\ activeRun \in 0 .. MaxRuns /\ runs \in Nat
  BY DEF TypeOK, BatchType, RunType, turn
(* Frames: a step outside a batch; a step inside one that leaves its calls. *)
<1>1. ASSUME ~InBatch', pc \in {"failing", "failed"} =>
                           pc' \in {"failing", "failed"},
             InBatch => pc' \in {"failing", "failed"},
             pendingToolCalls' = pendingToolCalls \/ pc' \in {"failing", "failed"},
             activeRun' = 0 => activeRun = 0 /\ isStreaming' = isStreaming
      PROVE  BatchPending' /\ NoPending'
  BY <1>1 DEF BatchPending, NoPending, InBatch
<1>2. ASSUME pendingToolCalls' = {}, isStreaming' = "no", ~InBatch'
      PROVE  BatchPending' /\ NoPending'
  BY <1>2 DEF BatchPending, NoPending
<1>3. ASSUME InBatch, InBatch', turns' = turns, activeRun' = activeRun,
             InProgress' = InProgress, pendingToolCalls' = pendingToolCalls
      PROVE  BatchPending' /\ NoPending'
  BY <1>3 DEF BatchPending, NoPending, BatchOK, InBatch, turn
<1>4. CASE \/ Steer \/ FollowUp
           \/ \E q \in {"steering", "followUp"} :
                 ClearQueue(q) \/ \E m \in {"all", "one-at-a-time"} : SetMode(q, m)
  BY <1>4 DEF Steer, FollowUp, ClearQueue, SetMode, agentVars, batchVars,
     BatchPending, NoPending, InProgress, InBatch, turn
<1>5. CASE \/ Prompt \/ ContinueFromSteering \/ ContinueFromFollowUp
           \/ ContinueTranscript
  <2>1. /\ activeRun = 0 /\ activeRun' = runs + 1 /\ pc' = "prompts"
        /\ pendingToolCalls' = pendingToolCalls
    BY <1>5 DEF Prompt, ContinueFromSteering, ContinueFromFollowUp,
       ContinueTranscript, StartRun
  <2>2. pc = "idle"
    BY <2>1 DEF BatchOK
  <2>. QED  BY <1>0, <1>1, <2>1, <2>2 DEF InBatch
<1>6. CASE Abort
  <2>1. Mark("stopped") /\ turn' = turn
    BY <1>6, MarkTurns DEF Abort, turn
  <2>2. InBatch /\ turns'[turn].fate # "forgotten" => turns[turn].fate # "forgotten"
    BY <2>1, MarkTurns
  <2>. QED
    BY <1>6, <2>1, <2>2 DEF Abort, batchVars, BatchPending, NoPending,
       InProgress, InBatch
<1>7. CASE Reset
  <2>1. Mark("forgotten") /\ turn' = turn
    BY <1>7, MarkTurns DEF Reset, turn
  <2>2. InBatch => turns'[turn].fate = "forgotten"
    BY <2>1, MarkTurns
  <2>. QED
    BY <1>7, <2>1, <2>2 DEF Reset, BatchPending, NoPending, InBatch
<1>8. CASE \/ EmitPrompt \/ PollSteering \/ PollFollowUp \/ Inject \/ CallModel
           \/ RespondError \/ EmitAgentEnd \/ EndTurn \/ StopAfterTurn
           \/ Throw \/ FailureMessage
  <2>1. /\ ~InBatch'
        /\ pc \in {"failing", "failed"} => pc' \in {"failing", "failed"}
        /\ InBatch => pc' \in {"failing", "failed"}
    BY <1>8 DEF EmitPrompt, PollSteering, PollFollowUp, Inject, CallModel,
       RespondError, EmitAgentEnd, EndTurn, StopAfterTurn, Throw, MayThrow,
       FailureMessage, InBatch
  <2>2. UNCHANGED <<pendingToolCalls, activeRun, isStreaming>>
    BY <1>8 DEF EmitPrompt, PollSteering, PollFollowUp, Inject, CallModel,
       RespondError, EmitAgentEnd, EndTurn, StopAfterTurn, Throw,
       FailureMessage, agentVars
  <2>. QED  BY <1>1, <2>1, <2>2
<1>9. ASSUME NEW i \in 1 .. MaxCalls, ThrowInTool(i)
      PROVE  BatchPending' /\ NoPending'
  BY <1>1, <1>9 DEF ThrowInTool, InBatch
<1>10. CASE Settle \/ FailureThrows
  BY <1>2, <1>10 DEF Settle, FailureThrows, FinishRun, InBatch
<1>11. ASSUME NEW n \in 0 .. MaxCalls, Respond(n)
       PROVE  BatchPending' /\ NoPending'
  <2>1. /\ pendingToolCalls' = pendingToolCalls /\ activeRun' = activeRun
        /\ isStreaming' = isStreaming /\ call' = NoCalls /\ pc = "responding"
    BY <1>11 DEF Respond
  <2>2. pendingToolCalls' = {} /\ InProgress' = {}
    BY <2>1 DEF NoPending, InBatch, NoCalls, InProgress, Open
  <2>. QED  BY <2>1, <2>2 DEF BatchPending, NoPending
<1>12. CASE ToolStart
  <2>1. InProgress' = InProgress \cup {next}
    BY <1>0, <1>12 DEF ToolStart, InProgress, Open
  <2>2. {turn} \X InProgress' = ({turn} \X InProgress) \cup {current}
    BY <2>1 DEF current
  <2>3. /\ pendingToolCalls' = pendingToolCalls \cup {current}
        /\ turns' = turns /\ turn' = turn /\ InBatch
        /\ activeRun' = activeRun /\ isStreaming' = isStreaming
    BY <1>12 DEF ToolStart, turn, InBatch
  <2>4. InBatch'
    BY <1>12 DEF ToolStart, InBatch
  <2>. QED  BY <2>2, <2>3, <2>4 DEF BatchPending, NoPending
<1>13. ASSUME NEW i \in 1 .. MaxCalls, InBatch, InBatch', turns' = turns,
              activeRun' = activeRun, isStreaming' = isStreaming,
              InProgress' = InProgress \ {i},
              pendingToolCalls' = pendingToolCalls \ {<<turn, i>>}
       PROVE  BatchPending' /\ NoPending'
  <2>1. {turn} \X InProgress' = ({turn} \X InProgress) \ {<<turn, i>>}
    BY <1>13
  <2>2. turn' = turn
    BY <1>13 DEF turn
  <2>. QED  BY <1>13, <2>1, <2>2 DEF BatchPending, NoPending
<1>14. CASE ToolImmediate
  <2>1. InProgress' = InProgress \ {next}
    BY <1>0, <1>14 DEF ToolImmediate, InProgress, Open
  <2>2. InBatch /\ InBatch'
    BY <1>14 DEF ToolImmediate, InBatch
  <2>. QED  BY <1>0, <1>13, <1>14, <2>1, <2>2 DEF ToolImmediate, current
<1>15. ASSUME NEW i \in 1 .. MaxCalls, NEW status \in Finalized,
              ToolEnds(i, status)
       PROVE  BatchPending' /\ NoPending'
  <2>1. InProgress' = InProgress \ {i}
    BY <1>0, <1>15 DEF ToolEnds, InProgress, Open, Finalized
  <2>2. InBatch /\ InBatch'
    BY <1>15 DEF ToolEnds, InBatch
  <2>. QED  BY <1>13, <1>15, <2>1, <2>2 DEF ToolEnds
<1>16. CASE ToolPrepared
  <2>1. call[next] = "started"
    BY <1>16 DEF ToolPrepared, CallsAt
  <2>2. InProgress' = InProgress
    BY <1>0, <1>16, <2>1 DEF ToolPrepared, InProgress, Open
  <2>. QED  BY <1>3, <1>16, <2>2 DEF ToolPrepared, InBatch, agentVars
<1>17. CASE LaunchAll
  <2>1. InProgress' = InProgress
    BY <1>0, <1>17 DEF LaunchAll, InProgress, Open
  <2>. QED  BY <1>3, <1>17, <2>1 DEF LaunchAll, InBatch, agentVars
<1>18. CASE NextCall \/ EmitResult \/ EmitResults
  <2>1. /\ InBatch /\ InBatch' /\ turns' = turns /\ activeRun' = activeRun
        /\ call' = call /\ pendingToolCalls' = pendingToolCalls
    BY <1>18 DEF NextCall, EmitResult, EmitResults, InBatch, agentVars, batchVars
  <2>. QED  BY <1>3, <2>1 DEF InProgress
<1>19. CASE EndSequential \/ EndParallel
  <2>1. InProgress = {}
    BY <1>19 DEF EndSequential, EndParallel, CallsAt, InBatch, InProgress, Open
  <2>2. /\ InBatch /\ pc' = "turnEnd" /\ UNCHANGED agentVars
    BY <1>19 DEF EndSequential, EndParallel, EndBatch, InBatch
  <2>3. pendingToolCalls = {}
    BY <2>1, <2>2 DEF BatchPending
  <2>. QED  BY <2>2, <2>3 DEF BatchPending, NoPending, InBatch, agentVars
<1>20. ASSUME NEW o \in orphans, OrphanEnds(o)
       PROVE  BatchPending' /\ NoPending'
  <2>1. /\ UNCHANGED <<isStreaming, activeRun, batchVars, pc, turns>>
        /\ pendingToolCalls' = pendingToolCalls \ {<<o[2], o[3]>>}
    BY <1>20 DEF OrphanEnds
  <2>2. InBatch => o[2] # turn
    BY <1>0 DEF OrphansPast, BatchOK, TypeOK, BatchType
  <2>3. InBatch => <<o[2], o[3]>> \notin {turn} \X InProgress
    BY <2>2
  <2>. QED
    BY <2>1, <2>3 DEF BatchPending, NoPending, InProgress, InBatch, turn,
       batchVars
<1>. QED
  BY <1>4, <1>5, <1>6, <1>7, <1>8, <1>9, <1>10, <1>11, <1>12, <1>14, <1>15,
     <1>16, <1>17, <1>18, <1>19, <1>20 DEF Next, Host, Loop

(* The runtime state the UI shows is exact: pendingToolCalls holds the      *)
(* calls of the current batch that have started and not ended, and nothing  *)
(* between batches or after a run, whatever the order in which tools end,   *)
(* runs fail and calls of a failed run come back late.                      *)
THEOREM PendingCorrect == Spec => []PendingCallsExact
<1>1. Init => IInv
  <2> SUFFICES ASSUME Init PROVE IInv
    OBVIOUS
  <2>1. TypeOK /\ BatchOK
    BY InitType
  <2>2. CallsAt /\ OrphansPast /\ PendingInProgress /\ PendingCallsExact
    BY DEF Init, CallsAt, OrphansPast, PendingInProgress, PendingCallsExact,
       InBatch
  <2>. QED  BY <2>1, <2>2 DEF IInv
<1>2. IInv /\ [Next]_vars => IInv'
  <2> SUFFICES ASSUME IInv, [Next]_vars PROVE IInv'
    OBVIOUS
  <2>1. TypeOK /\ BatchOK /\ TypeOK' /\ BatchOK'
    BY TypeStep DEF IInv
  <2>2. CASE Next
    <3>1. BatchPending /\ NoPending
      BY <2>1, PendingParts DEF IInv
    <3>2. CallsAt' /\ OrphansPast'
      BY <2>1, <2>2, CallsAtStep, OrphansPastStep DEF IInv
    <3>3. BatchPending' /\ NoPending'
      BY <2>1, <2>2, <3>1, PendingStep DEF IInv
    <3>4. PendingInProgress' /\ PendingCallsExact'
      BY <2>1, <3>3
         DEF BatchOK, PendingInProgress, PendingCallsExact, BatchPending,
             NoPending, InProgress, Open, InBatch
    <3>. QED  BY <2>1, <3>2, <3>4 DEF IInv
  <2>3. CASE UNCHANGED vars
    <3>1. CallsAt' /\ OrphansPast' /\ PendingInProgress' /\ PendingCallsExact'
      BY <2>3 DEF IInv, vars, agentVars, batchVars, CallsAt, OrphansPast,
         PendingInProgress, PendingCallsExact, InBatch, InProgress, Open, turn
    <3>. QED  BY <2>1, <3>1 DEF IInv
  <2>. QED  BY <2>2, <2>3
<1>3. IInv => PendingCallsExact
  BY DEF IInv
<1>. QED  BY <1>1, <1>2, <1>3, PTL DEF Spec

-----------------------------------------------------------------------------
(* The context and the transcript.                                          *)

ResultsTo(k) == [i \in 1 .. k |-> Result(i)]

(* How many results of the batch in progress the transcript holds.          *)
Written == IF toolMode = "parallel" THEN emitted
           ELSE IF pc = "toolNext" THEN next ELSE next - 1

(* The transcript lags the context by the prompts not yet emitted, and is   *)
(* ahead of it by the results emitted in the batch; elsewhere in a run the  *)
(* two are the same.                                                       *)
Mirror ==
    isStreaming = "yes" =>
       /\ pc = "prompts" => context = messages \o Users(pending)
       /\ pc \in {"poll", "pollFollowUp", "inject", "responding", "turnEnd"} =>
             context = messages
       /\ InBatch => messages = context \o ResultsTo(Written)

LEMMA AppendIs ==
    ASSUME NEW S, NEW s \in Seq(S), NEW e \in S
    PROVE  /\ Append(s, e) \in Seq(S) /\ Len(Append(s, e)) = Len(s) + 1
           /\ \A i \in 1 .. Len(s) : Append(s, e)[i] = s[i]
           /\ Append(s, e)[Len(s) + 1] = e
           /\ Len(s) \in Nat
  OBVIOUS

LEMMA TailIs ==
    ASSUME NEW S, NEW s \in Seq(S), s # <<>>
    PROVE  /\ Head(s) \in S /\ Head(s) = s[1] /\ Tail(s) \in Seq(S)
           /\ Len(s) \in Nat \ {0} /\ Len(Tail(s)) = Len(s) - 1
           /\ \A i \in 1 .. Len(s) - 1 : Tail(s)[i] = s[i + 1]
  OBVIOUS

(* Moving an element across a concatenation, one way ...                    *)
LEMMA MoveHead ==
    ASSUME NEW S, NEW s \in Seq(S), NEW t \in Seq(S), NEW u \in Seq(S),
           Len(t) = Len(u) + 1, \A i \in 1 .. Len(u) : u[i] = t[i + 1]
    PROVE  Append(s, t[1]) \o u = s \o t
<1>0. Len(s) \in Nat /\ Len(u) \in Nat /\ t[1] \in S
  OBVIOUS
<1> DEFINE r == Append(s, t[1])
           a == r \o u
           b == s \o t
<1>1. /\ r \in Seq(S) /\ Len(r) = Len(s) + 1
      /\ \A i \in 1 .. Len(s) : r[i] = s[i]
      /\ r[Len(s) + 1] = t[1]
  BY <1>0
<1>. HIDE DEF r
<1>2. /\ a \in Seq(S) /\ Len(a) = Len(r) + Len(u)
      /\ \A i \in 1 .. Len(r) + Len(u) :
            a[i] = IF i <= Len(r) THEN r[i] ELSE u[i - Len(r)]
  BY <1>1, ConcatProperties
<1>3. /\ b \in Seq(S) /\ Len(b) = Len(s) + Len(t)
      /\ \A i \in 1 .. Len(s) + Len(t) :
            b[i] = IF i <= Len(s) THEN s[i] ELSE t[i - Len(s)]
  BY ConcatProperties
<1>. HIDE DEF a, b
<1>4. Len(a) = Len(b)
  BY <1>0, <1>1, <1>2, <1>3
<1>5. ASSUME NEW i \in 1 .. Len(a) PROVE a[i] = b[i]
  <2>0. i \in 1 .. Len(s) + Len(t) /\ i \in 1 .. Len(r) + Len(u)
    BY <1>2, <1>3, <1>4
  <2>1. CASE i <= Len(s)
    <3>1. i <= Len(r) /\ i \in 1 .. Len(s)
      BY <1>0, <1>1, <2>0, <2>1
    <3>2. a[i] = r[i] /\ b[i] = s[i]
      BY <1>2, <1>3, <2>0, <2>1, <3>1
    <3>. QED  BY <1>1, <3>1, <3>2
  <2>3. CASE i = Len(s) + 1
    <3>1. a[i] = t[1]
      BY <1>0, <1>1, <1>2, <2>0, <2>3
    <3>2. b[i] = t[i - Len(s)] /\ i - Len(s) = 1
      BY <1>0, <1>3, <2>0, <2>3
    <3>. QED  BY <3>1, <3>2
  <2>2. CASE i > Len(s) + 1
    <3>1. a[i] = u[i - (Len(s) + 1)] /\ b[i] = t[i - Len(s)]
      BY <1>0, <1>1, <1>2, <1>3, <2>0, <2>2
    <3>2. i - (Len(s) + 1) \in 1 .. Len(u)
      BY <1>0, <1>1, <2>0, <2>2
    <3>3. (i - (Len(s) + 1)) + 1 = i - Len(s)
      BY <1>0, <3>2
    <3>. QED  BY <3>1, <3>2, <3>3
  <2>. QED  BY <1>0, <2>0, <2>1, <2>2, <2>3
<1>6. a = b
  BY <1>2, <1>3, <1>4, <1>5, SeqEqual
<1>. QED  BY <1>6 DEF a, b, r

(* ... and the other.                                                       *)
LEMMA MoveLast ==
    ASSUME NEW S, NEW s \in Seq(S), NEW t \in Seq(S), NEW u \in Seq(S),
           Len(u) = Len(t) + 1, \A i \in 1 .. Len(t) : u[i] = t[i]
    PROVE  Append(s \o t, u[Len(u)]) = s \o u
<1>0. Len(s) \in Nat /\ Len(t) \in Nat /\ u[Len(u)] \in S
  OBVIOUS
<1> DEFINE m == s \o t
           a == Append(m, u[Len(u)])
           b == s \o u
<1>1. /\ m \in Seq(S) /\ Len(m) = Len(s) + Len(t)
      /\ \A i \in 1 .. Len(s) + Len(t) :
            m[i] = IF i <= Len(s) THEN s[i] ELSE t[i - Len(s)]
  BY ConcatProperties
<1>2. /\ b \in Seq(S) /\ Len(b) = Len(s) + Len(u)
      /\ \A i \in 1 .. Len(s) + Len(u) :
            b[i] = IF i <= Len(s) THEN s[i] ELSE u[i - Len(s)]
  BY ConcatProperties
<1>. HIDE DEF m, b
<1>3. /\ a \in Seq(S) /\ Len(a) = Len(m) + 1
      /\ \A i \in 1 .. Len(m) : a[i] = m[i]
      /\ a[Len(m) + 1] = u[Len(u)]
  BY <1>0, <1>1
<1>. HIDE DEF a
<1>4. Len(a) = Len(b)
  BY <1>0, <1>1, <1>2, <1>3
<1>5. ASSUME NEW i \in 1 .. Len(a) PROVE a[i] = b[i]
  <2>0. i \in 1 .. Len(s) + Len(t) + 1 /\ i \in 1 .. Len(s) + Len(u)
    BY <1>0, <1>1, <1>2, <1>3
  <2>1. CASE i <= Len(s)
    <3>1. i \in 1 .. Len(m) /\ i \in 1 .. Len(s) + Len(t)
      BY <1>0, <1>1, <2>0, <2>1
    <3>2. a[i] = s[i]
      BY <1>1, <1>3, <2>1, <3>1
    <3>. QED  BY <1>2, <2>0, <2>1, <3>2
  <2>2. CASE i > Len(s) /\ i <= Len(s) + Len(t)
    <3>1. i - Len(s) \in 1 .. Len(t) /\ ~(i <= Len(s))
      BY <1>0, <2>0, <2>2
    <3>2. i \in 1 .. Len(m) /\ i \in 1 .. Len(s) + Len(t)
      BY <1>0, <1>1, <2>0, <2>2
    <3>3. a[i] = t[i - Len(s)]
      BY <1>1, <1>3, <3>1, <3>2
    <3>4. b[i] = u[i - Len(s)]
      BY <1>2, <2>0, <3>1
    <3>. QED  BY <3>1, <3>3, <3>4
  <2>3. CASE i > Len(s) + Len(t)
    <3>0. i = Len(s) + Len(t) + 1
      BY <1>0, <2>0, <2>3
    <3>1. i = Len(m) + 1 /\ i - Len(s) = Len(u) /\ ~(i <= Len(s))
      BY <1>0, <1>1, <3>0
    <3>2. b[i] = u[Len(u)]
      BY <1>2, <2>0, <3>1
    <3>. QED  BY <1>3, <3>1, <3>2
  <2>. QED  BY <1>0, <2>0, <2>1, <2>2, <2>3
<1>6. a = b
  BY <1>2, <1>3, <1>4, <1>5, SeqEqual
<1>. QED  BY <1>6 DEF a, b, m

LEMMA NoUsers ==
    ASSUME NEW S, NEW s \in Seq(S)
    PROVE  Users(<<>>) = <<>> /\ s \o Users(<<>>) = s
<1>1. Users(<<>>) = <<>>
  BY DEF Users
<1>. QED  BY <1>1, ConcatEmptySeq

(* Emitting a prompt moves it from one side of the concatenation to the     *)
(* other.                                                                  *)
LEMMA EmitHead ==
    ASSUME NEW s \in Seq(Entry), NEW q \in Seq(1 .. MaxMsgs), q # <<>>
    PROVE  Append(s, <<"user", Head(q)>>) \o Users(Tail(q)) = s \o Users(q)
<1>1. /\ Head(q) = q[1] /\ Tail(q) \in Seq(1 .. MaxMsgs)
      /\ Len(q) \in Nat \ {0} /\ Len(Tail(q)) = Len(q) - 1
      /\ \A i \in 1 .. Len(q) - 1 : Tail(q)[i] = q[i + 1]
  <2>. HIDE DEF Entry
  <2>. QED  BY TailIs
<1>2. Users(q) \in Seq(Entry) /\ Users(Tail(q)) \in Seq(Entry)
  BY <1>1, UsersType
<1>3. /\ Len(Users(q)) = Len(q) /\ Len(Users(Tail(q))) = Len(q) - 1
      /\ \A i \in 1 .. Len(q) : Users(q)[i] = <<"user", q[i]>>
      /\ \A i \in 1 .. Len(q) - 1 : Users(Tail(q))[i] = <<"user", q[i + 1]>>
  BY <1>1 DEF Users
<1>4. Len(Users(q)) = Len(Users(Tail(q))) + 1 /\ Users(q)[1] = <<"user", Head(q)>>
  <2>1. 1 \in 1 .. Len(q) /\ Len(q) = (Len(q) - 1) + 1
    BY <1>1
  <2>2. Users(q)[1] = <<"user", q[1]>>
    BY <1>3, <2>1, Zenon
  <2>. QED  BY <1>1, <1>3, <2>1, <2>2
<1>5. ASSUME NEW i \in 1 .. Len(Users(Tail(q)))
      PROVE  Users(Tail(q))[i] = Users(q)[i + 1]
  <2>1. i \in 1 .. Len(q) - 1 /\ i + 1 \in 1 .. Len(q)
    BY <1>1, <1>3
  <2>. QED  BY <1>3, <2>1
<1>6. Append(s, Users(q)[1]) \o Users(Tail(q)) = s \o Users(q)
  BY <1>2, <1>4, <1>5, MoveHead
<1>. QED  BY <1>4, <1>6

(* The results of a batch, one by one.                                      *)
LEMMA ResultsType ==
    ASSUME turn \in Nat \ {0}, NEW k \in 0 .. MaxCalls
    PROVE  /\ ResultsTo(k) \in Seq(Entry) /\ Len(ResultsTo(k)) = k
           /\ \A i \in 1 .. k : ResultsTo(k)[i] = Result(i)
<1>1. \A i \in 1 .. k : Result(i) \in Entry
  BY ResultEntry, Bounds DEF Result
<1>2. ResultsTo(k) \in [1 .. k -> Entry]
  BY <1>1 DEF ResultsTo
<1>3. \A i \in 1 .. k : ResultsTo(k)[i] = Result(i)
  BY DEF ResultsTo
<1>4. k \in Nat
  BY Bounds
<1>. HIDE DEF ResultsTo
<1>. QED  BY <1>2, <1>3, <1>4

LEMMA NextResult ==
    ASSUME turn \in Nat \ {0}, NEW s \in Seq(Entry), NEW k \in Nat,
           k + 1 \in 1 .. MaxCalls
    PROVE  Append(s \o ResultsTo(k), Result(k + 1)) = s \o ResultsTo(k + 1)
<1>1. k \in 0 .. MaxCalls /\ k + 1 \in 0 .. MaxCalls
  BY Bounds
<1>2. /\ ResultsTo(k) \in Seq(Entry) /\ Len(ResultsTo(k)) = k
      /\ ResultsTo(k + 1) \in Seq(Entry) /\ Len(ResultsTo(k + 1)) = k + 1
      /\ \A i \in 1 .. k : ResultsTo(k)[i] = Result(i)
      /\ \A i \in 1 .. k + 1 : ResultsTo(k + 1)[i] = Result(i)
  BY <1>1, ResultsType
<1>3. /\ \A i \in 1 .. Len(ResultsTo(k)) : ResultsTo(k + 1)[i] = ResultsTo(k)[i]
      /\ ResultsTo(k + 1)[k + 1] = Result(k + 1)
      /\ Len(ResultsTo(k + 1)) = Len(ResultsTo(k)) + 1
  BY <1>2
<1>4. Append(s \o ResultsTo(k), ResultsTo(k + 1)[Len(ResultsTo(k + 1))])
         = s \o ResultsTo(k + 1)
  BY <1>2, <1>3, MoveLast
<1>. QED  BY <1>2, <1>3, <1>4

LEMMA MirrorFrame ==
    ASSUME Mirror, UNCHANGED <<messages, context, pending, turns>>,
           isStreaming' \in {isStreaming, "no"},
           pc' = pc \/ (InBatch /\ InBatch'),
           InBatch' => toolMode' = toolMode /\ Written' = Written
    PROVE  Mirror'
<1>1. Written' = Written => ResultsTo(Written)' = ResultsTo(Written)
  BY DEF ResultsTo, Result, turn
<1>2. CASE pc' = pc
  <2>1. InBatch' = InBatch
    BY <1>2 DEF InBatch
  <2>. QED  BY <1>1, <1>2, <2>1 DEF Mirror
<1>3. CASE InBatch /\ InBatch'
  BY <1>1, <1>3 DEF Mirror, InBatch
<1>. QED  BY <1>2, <1>3

LEMMA MirrorStep ==
    ASSUME TypeOK, BatchOK, Mirror, Next PROVE Mirror'
<1>0. /\ messages \in Seq(Entry) /\ context \in Seq(Entry)
      /\ pending \in Seq(1 .. MaxMsgs)
      /\ steering \in Seq(1 .. MaxMsgs) /\ followUp \in Seq(1 .. MaxMsgs)
      /\ next \in 1 .. MaxCalls /\ emitted \in 0 .. MaxCalls
      /\ toolMode \in {"sequential", "parallel"} /\ MaxCalls \in Nat \ {0}
      /\ isStreaming \in {"yes", "no"}
  BY Bounds DEF TypeOK, TranscriptType, QueueType, BatchType, RunType
(* Where the two are equal.                                                 *)
<1>1. ASSUME pc' \in {"poll", "pollFollowUp", "inject", "responding", "turnEnd",
                      "agentEnd", "settling", "failing", "failed", "idle"},
             \/ isStreaming' # "yes"
             \/ context' = messages'
             \/ pc' \notin {"poll", "pollFollowUp", "inject", "responding", "turnEnd"}
      PROVE  Mirror'
  BY <1>1 DEF Mirror, InBatch
<1>2. CASE \/ Steer \/ FollowUp
           \/ \E q \in {"steering", "followUp"} :
                 ClearQueue(q) \/ \E m \in {"all", "one-at-a-time"} : SetMode(q, m)
           \/ \E o \in orphans : OrphanEnds(o)
  <2>1. /\ UNCHANGED <<messages, context, pending, turns, isStreaming>>
        /\ UNCHANGED <<pc, toolMode, emitted, next>>
    BY <1>2 DEF Steer, FollowUp, ClearQueue, SetMode, OrphanEnds, agentVars,
       loopVars, batchVars
  <2>2. Written' = Written
    BY <2>1 DEF Written
  <2>. QED  BY <2>1, <2>2, MirrorFrame
<1>3. CASE Abort
  <2>1. /\ UNCHANGED <<messages, context, pending, isStreaming>>
        /\ UNCHANGED <<pc, toolMode, emitted, next>> /\ turn' = turn
    BY <1>3, MarkTurns DEF Abort, loopVars, batchVars, turn
  <2>2. Written' = Written /\ InBatch' = InBatch
    BY <2>1 DEF Written, InBatch
  <2>3. ResultsTo(Written)' = ResultsTo(Written)
    BY <2>1, <2>2 DEF ResultsTo, Result
  <2>. QED  BY <2>1, <2>2, <2>3 DEF Mirror
<1>4. CASE Reset
  BY <1>4 DEF Reset, Mirror
<1>5. ASSUME NEW s \in Seq(1 .. MaxMsgs), NEW skip, StartRun(s, skip)
      PROVE  Mirror'
  <2>1. /\ context' = messages' \o Users(pending') /\ pc' = "prompts"
    BY <1>5 DEF StartRun, Users
  <2>. QED  BY <2>1 DEF Mirror, InBatch
<1>6. CASE Prompt
  <2>1. Len(via) + 1 \in 1 .. MaxMsgs /\ StartRun(<<Len(via) + 1>>, "no")
    BY <1>6, Bounds DEF Prompt, Send, TypeOK, QueueType
  <2>2. <<Len(via) + 1>> \in Seq(1 .. MaxMsgs)
    BY <2>1, ShortSeqType
  <2>. QED  BY <1>5, <2>1, <2>2
<1>7. CASE ContinueFromSteering \/ ContinueFromFollowUp \/ ContinueTranscript
  <2>1. /\ Drained(steering, mode["steering"]) \in Seq(1 .. MaxMsgs)
        /\ Drained(followUp, mode["followUp"]) \in Seq(1 .. MaxMsgs)
        /\ <<>> \in Seq(1 .. MaxMsgs)
    BY <1>0, DrainType
  <2>. QED  BY <1>5, <1>7, <2>1
            DEF ContinueFromSteering, ContinueFromFollowUp, ContinueTranscript
<1>8. CASE EmitPrompt
  <2>1. /\ pc = "prompts" /\ pc' = pc /\ pending # <<>>
        /\ messages' = Append(messages, <<"user", Head(pending)>>)
        /\ pending' = Tail(pending)
        /\ context' = context /\ isStreaming' = isStreaming
    BY <1>8 DEF EmitPrompt
  <2>2. \A s \in Seq(Entry) :
           Append(s, <<"user", Head(pending)>>) \o Users(Tail(pending))
              = s \o Users(pending)
    BY <1>0, <2>1, EmitHead
  <2>3. messages' \o Users(pending)' = messages \o Users(pending)
    BY <1>0, <2>1, <2>2 DEF Users
  <2>. QED  BY <2>1, <2>3 DEF Mirror, InBatch
<1>9. CASE PollSteering \/ PollFollowUp
  <2>1. /\ UNCHANGED <<messages, context, isStreaming>>
        /\ pc' \in {"inject", "pollFollowUp", "settling"}
    BY <1>9 DEF PollSteering, PollFollowUp, agentVars
  <2>2. ASSUME isStreaming = "yes" PROVE context = messages
    <3>1. CASE pc = "prompts" /\ pending = <<>>
      <4>1. context = messages \o Users(<<>>)
        BY <2>2, <3>1 DEF Mirror
      <4>. QED  BY <1>0, <4>1, NoUsers
    <3>2. CASE pc \in {"poll", "pollFollowUp"}
      BY <2>2, <3>2 DEF Mirror
    <3>. QED  BY <1>9, <3>1, <3>2 DEF PollSteering, PollFollowUp
  <2>. QED  BY <1>1, <2>1, <2>2
<1>10. CASE Inject
  <2>1. isStreaming = "yes" => context' = messages'
    BY <1>10 DEF Inject, Mirror
  <2>. QED  BY <1>1, <1>10, <2>1 DEF Inject
<1>11. CASE CallModel \/ EmitAgentEnd \/ EndTurn \/ StopAfterTurn
  <2>1. /\ UNCHANGED <<messages, context, isStreaming>>
        /\ \/ pc = "inject" /\ pc' = "responding"
           \/ pc = "turnEnd" /\ pc' = "poll"
           \/ pc' \in {"settling", "agentEnd"}
    BY <1>11 DEF CallModel, EmitAgentEnd, EndTurn, StopAfterTurn, agentVars,
       loopVars
  <2>. QED  BY <1>1, <2>1 DEF Mirror
<1>12. CASE RespondError
  BY <1>1, <1>12 DEF RespondError
<1>13. ASSUME NEW n \in 0 .. MaxCalls, Respond(n) PROVE Mirror'
  <2>1. /\ pc = "responding" /\ isStreaming' = isStreaming
        /\ isStreaming = "yes" => context' = messages'
        /\ pc' = IF n > 0 THEN "toolStart" ELSE "turnEnd"
        /\ next' = 1 /\ emitted' = 0
    BY <1>13 DEF Respond, Mirror
  <2>2. CASE n = 0
    BY <1>1, <2>1, <2>2
  <2>3. CASE n > 0
    <3>1. Written' = 0
      BY <2>1, <2>3 DEF Written
    <3>2. messages' \in Seq(Entry)
      <4>1. turn + 1 \in Nat \ {0}
        BY DEF TypeOK, BatchType, turn
      <4>2. <<"assistant", turn + 1>> \in Entry
        BY <4>1, AssistantEntry
      <4>. QED  BY <1>0, <1>13, <4>2, AppendType DEF Respond
    <3>3. messages' \o ResultsTo(0)' = messages'
      <4>1. ResultsTo(0)' = <<>>
        BY DEF ResultsTo
      <4>. QED  BY <3>2, <4>1, ConcatEmptySeq
    <3>4. ResultsTo(Written)' = ResultsTo(0)'
      BY <3>1 DEF ResultsTo
    <3>. QED  BY <2>1, <2>3, <3>3, <3>4 DEF Mirror
  <2>. QED  BY <2>2, <2>3
<1>14. CASE \/ ToolStart \/ ToolImmediate \/ ToolPrepared \/ LaunchAll
            \/ NextCall
            \/ \E i \in 1 .. MaxCalls, status \in Finalized : ToolEnds(i, status)
  <2>1. /\ UNCHANGED <<messages, context, pending, turns, isStreaming>>
        /\ InBatch /\ InBatch' /\ UNCHANGED <<toolMode, emitted>>
    BY <1>14 DEF ToolStart, ToolImmediate, ToolPrepared, LaunchAll, NextCall,
       ToolEnds, InBatch, agentVars, loopVars
  <2>2. toolMode = "sequential" =>
           \/ next' = next /\ pc # "toolNext" /\ pc' # "toolNext"
           \/ next' = next + 1 /\ pc = "toolNext" /\ pc' # "toolNext"
    BY <1>0, <1>14 DEF ToolStart, ToolImmediate, ToolPrepared, LaunchAll,
       NextCall, ToolEnds
  <2>3. Written' = Written
    BY <1>0, <2>1, <2>2 DEF Written
  <2>. QED  BY <2>1, <2>3, MirrorFrame
<1>15. CASE EmitResult \/ EmitResults
  <2>1. \E k \in Nat :
           /\ k = Written /\ Written' = k + 1 /\ k + 1 \in 1 .. MaxCalls
           /\ messages' = Append(messages, Result(k + 1))
    <3>1. CASE EmitResult
      <4>1. Written = next - 1 /\ Written' = next
        BY <3>1 DEF EmitResult, Written, batchVars
      <4>2. next - 1 \in Nat /\ (next - 1) + 1 = next
        BY <1>0
      <4>3. messages' = Append(messages, Result(next))
        BY <3>1 DEF EmitResult
      <4>. QED  BY <1>0, <4>1, <4>2, <4>3
    <3>2. CASE EmitResults
      <4>1. Written = emitted /\ Written' = emitted + 1
        BY <3>2 DEF EmitResults, Written
      <4>2. emitted + 1 \in 1 .. MaxCalls /\ emitted \in Nat
        BY <1>0, <3>2 DEF EmitResults
      <4>. QED  BY <3>2, <4>1, <4>2 DEF EmitResults
    <3>. QED  BY <1>15, <3>1, <3>2
  <2>2. PICK k \in Nat :
           /\ k = Written /\ Written' = k + 1 /\ k + 1 \in 1 .. MaxCalls
           /\ messages' = Append(messages, Result(k + 1))
    BY <2>1
  <2>3. /\ UNCHANGED <<context, isStreaming, turns>> /\ InBatch /\ InBatch'
    BY <1>15 DEF EmitResult, EmitResults, InBatch, loopVars
  <2>4. turn \in Nat \ {0}
    BY <2>3, TurnInBatch
  <2>5. \A s \in Seq(Entry) :
           Append(s \o ResultsTo(k), Result(k + 1)) = s \o ResultsTo(k + 1)
    BY <2>2, <2>4, NextResult
  <2>6. isStreaming = "yes" => messages = context \o ResultsTo(k)
    BY <2>2, <2>3 DEF Mirror
  <2>7. isStreaming = "yes" => messages' = context \o ResultsTo(k + 1)
    BY <1>0, <2>2, <2>5, <2>6
  <2>8. ResultsTo(Written)' = ResultsTo(k + 1)
    BY <2>2, <2>3 DEF ResultsTo, Result, turn
  <2>. QED  BY <2>3, <2>7, <2>8 DEF Mirror, InBatch
<1>16. CASE EndSequential \/ EndParallel
  <2>1. /\ context' = context \o ResultsTo(next) /\ pc' = "turnEnd"
        /\ UNCHANGED <<messages, isStreaming>>
    BY <1>16 DEF EndSequential, EndParallel, EndBatch, ResultsTo, agentVars
  <2>2. Written = next /\ InBatch
    BY <1>16 DEF EndSequential, EndParallel, Written, InBatch
  <2>3. isStreaming = "yes" => context' = messages'
    BY <2>1, <2>2 DEF Mirror
  <2>. QED  BY <1>1, <2>1, <2>3
<1>17. CASE \/ Settle \/ FailureThrows \/ FailureMessage \/ Throw
            \/ \E i \in 1 .. MaxCalls : ThrowInTool(i)
  <2>1. pc' \in {"failing", "failed", "idle"}
    BY <1>17 DEF Settle, FailureThrows, FailureMessage, Throw, ThrowInTool,
       FinishRun
  <2>. QED  BY <1>1, <2>1
<1>. QED
  BY <1>2, <1>3, <1>4, <1>6, <1>7, <1>8, <1>9, <1>10, <1>11, <1>12, <1>13,
     <1>14, <1>15, <1>16, <1>17 DEF Next, Host, Loop

(* What the model is sent is the transcript: at each request the context    *)
(* the loop has built on its own equals the list the events built, however  *)
(* many prompts, injected messages and tool results went into both, in      *)
(* either tool mode, aborted or not; only a reset() in the run parts them.  *)
THEOREM ContextCorrect == Spec => []ContextIsTranscript
<1>1. Init => TypeOK /\ BatchOK /\ Mirror
  <2>1. Init => Mirror
    BY DEF Init, Mirror, InBatch
  <2>. QED  BY <2>1, InitType
<1>2. TypeOK /\ BatchOK /\ Mirror /\ [Next]_vars
         => (TypeOK /\ BatchOK /\ Mirror)'
  <2> SUFFICES ASSUME TypeOK, BatchOK, Mirror, [Next]_vars PROVE Mirror'
    BY TypeStep
  <2>1. CASE UNCHANGED vars
    <3>1. /\ UNCHANGED <<messages, context, pending, turns, isStreaming>>
          /\ UNCHANGED <<pc, toolMode, emitted, next>>
      BY <2>1 DEF vars, agentVars, loopVars, batchVars
    <3>2. Written' = Written
      BY <3>1 DEF Written
    <3>. QED  BY <3>1, <3>2, MirrorFrame
  <2>. QED  BY <2>1, MirrorStep
<1>3. Mirror => ContextIsTranscript
  BY DEF Mirror, ContextIsTranscript
<1>. QED  BY <1>1, <1>2, <1>3, PTL DEF Spec

-----------------------------------------------------------------------------
(* The messages on their way: where they are and in which order.            *)

Elements(s) == {s[i] : i \in 1 .. Len(s)}
UsersIn(s) == {s[p][2] : p \in {q \in 1 .. Len(s) : s[q][1] = "user"}}

LEMMA NoElements == Elements(<<>>) = {} /\ UsersIn(<<>>) = {} /\ Increasing(<<>>)
  BY DEF Elements, UsersIn, Increasing

LEMMA ElementsOfAppend ==
    ASSUME NEW S, NEW s \in Seq(S), NEW e \in S
    PROVE  Elements(Append(s, e)) = Elements(s) \cup {e}
<1> DEFINE t == Append(s, e)
<1>1. /\ Len(t) = Len(s) + 1 /\ Len(s) \in Nat
      /\ \A i \in 1 .. Len(s) : t[i] = s[i]
      /\ t[Len(s) + 1] = e
  BY AppendIs
<1>. HIDE DEF t
<1>2. Elements(t) = Elements(s) \cup {e}
  <2>1. ASSUME NEW x \in Elements(t) PROVE x \in Elements(s) \cup {e}
    <3>1. PICK i \in 1 .. Len(t) : x = t[i]
      BY DEF Elements
    <3>2. i \in 1 .. Len(s) \/ i = Len(s) + 1
      BY <1>1
    <3>. QED  BY <1>1, <3>1, <3>2 DEF Elements
  <2>2. ASSUME NEW x \in Elements(s) PROVE x \in Elements(t)
    <3>1. PICK i \in 1 .. Len(s) : x = s[i]
      BY DEF Elements
    <3>2. i \in 1 .. Len(t) /\ x = t[i]
      BY <1>1, <3>1
    <3>. QED  BY <3>2 DEF Elements
  <2>3. e \in Elements(t)
    <3>1. Len(s) + 1 \in 1 .. Len(t)
      BY <1>1
    <3>. QED  BY <1>1, <3>1 DEF Elements
  <2>. QED  BY <2>1, <2>2, <2>3
<1>. QED  BY <1>2 DEF t

LEMMA ElementsOfTail ==
    ASSUME NEW S, NEW s \in Seq(S), s # <<>>
    PROVE  Elements(s) = {Head(s)} \cup Elements(Tail(s))
<1> DEFINE t == Tail(s)
<1>1. /\ Head(s) = s[1] /\ Len(s) \in Nat \ {0} /\ Len(t) = Len(s) - 1
      /\ \A i \in 1 .. Len(s) - 1 : t[i] = s[i + 1]
  BY TailIs
<1>. HIDE DEF t
<1>2. ASSUME NEW x \in Elements(s) PROVE x \in {Head(s)} \cup Elements(t)
  <2>1. PICK i \in 1 .. Len(s) : x = s[i]
    BY DEF Elements
  <2>2. CASE i = 1
    BY <1>1, <2>1, <2>2
  <2>3. CASE i # 1
    <3>1. i - 1 \in 1 .. Len(t) /\ (i - 1) + 1 = i
      BY <1>1, <2>3
    <3>2. t[i - 1] = s[(i - 1) + 1]
      BY <1>1, <3>1
    <3>. QED  BY <2>1, <3>1, <3>2 DEF Elements
  <2>. QED  BY <2>2, <2>3
<1>3. ASSUME NEW x \in Elements(t) PROVE x \in Elements(s)
  <2>1. PICK i \in 1 .. Len(t) : x = t[i]
    BY DEF Elements
  <2>2. i + 1 \in 1 .. Len(s) /\ x = s[i + 1]
    BY <1>1, <2>1
  <2>. QED  BY <2>2 DEF Elements
<1>4. Head(s) \in Elements(s)
  BY <1>1 DEF Elements
<1>. QED  BY <1>2, <1>3, <1>4 DEF t

(* drain() takes the first messages of its queue, all of them or one.       *)
LEMMA DrainSplits ==
    ASSUME NEW S, NEW q \in Seq(S), NEW m
    PROVE  \E k \in 0 .. Len(q) :
              /\ Len(Drained(q, m)) = k /\ Len(Left(q, m)) = Len(q) - k
              /\ \A i \in 1 .. k : Drained(q, m)[i] = q[i]
              /\ \A i \in 1 .. Len(q) - k : Left(q, m)[i] = q[k + i]
<1> DEFINE d == Drained(q, m)
           k == Len(d)
<1>0. Len(q) \in Nat /\ (q # <<>> => Len(q) >= 1)
  OBVIOUS
<1>1. k \in 0 .. Len(q) /\ \A i \in 1 .. k : d[i] = q[i]
  <2>1. CASE m = "all"
    BY <1>0, <2>1 DEF Drained
  <2>2. CASE m # "all" /\ q = <<>>
    <3>1. d = SubSeq(q, 1, 0)
      BY <2>2 DEF Drained
    <3>. QED  BY <1>0, <3>1
  <2>3. CASE m # "all" /\ q # <<>>
    <3>1. d = SubSeq(q, 1, 1)
      BY <2>3 DEF Drained
    <3>. QED  BY <1>0, <2>3, <3>1
  <2>. QED  BY <2>1, <2>2, <2>3
<1>2. Left(q, m) = SubSeq(q, k + 1, Len(q))
  BY DEF Left
<1>. HIDE DEF d, k
<1>3. /\ Len(Left(q, m)) = Len(q) - k
      /\ \A i \in 1 .. Len(q) - k : Left(q, m)[i] = q[k + i]
  <2>1. \A i \in k + 1 .. Len(q) : q[i] \in S
    BY <1>0, <1>1, ElementType
  <2>2. /\ Len(Left(q, m)) = IF k + 1 <= Len(q) THEN Len(q) - (k + 1) + 1 ELSE 0
        /\ \A i \in 1 .. Len(q) - (k + 1) + 1 :
              Left(q, m)[i] = q[(k + 1) + i - 1]
    <3>1. k + 1 \in Int /\ Len(q) \in Int
      BY <1>0, <1>1
    <3>. QED  BY <1>2, <2>1, <3>1, SubSeqProperties
  <2>3. Len(q) - (k + 1) + 1 = Len(q) - k
    BY <1>0, <1>1
  <2>4. Len(Left(q, m)) = Len(q) - k
    <3>1. CASE k + 1 <= Len(q)
      BY <2>2, <2>3, <3>1
    <3>2. CASE ~(k + 1 <= Len(q))
      <4>1. Len(q) - k = 0
        BY <1>0, <1>1, <3>2
      <4>. QED  BY <2>2, <3>2, <4>1
    <3>. QED  BY <3>1, <3>2
  <2>5. ASSUME NEW i \in 1 .. Len(q) - k PROVE Left(q, m)[i] = q[k + i]
    <3>1. (k + 1) + i - 1 = k + i
      BY <1>0, <1>1
    <3>2. Left(q, m)[i] = q[(k + 1) + i - 1]
      BY <2>2, <2>3
    <3>. QED  BY <3>1, <3>2
  <2>. QED  BY <2>4, <2>5
<1>. QED  BY <1>1, <1>3 DEF k, d

LEMMA DrainElements ==
    ASSUME NEW S, NEW q \in Seq(S), NEW m
    PROVE  Elements(q) = Elements(Drained(q, m)) \cup Elements(Left(q, m))
<1> DEFINE d == Drained(q, m)
           r == Left(q, m)
<1>1. PICK k \in 0 .. Len(q) :
         /\ Len(d) = k /\ Len(r) = Len(q) - k
         /\ \A i \in 1 .. k : d[i] = q[i]
         /\ \A i \in 1 .. Len(q) - k : r[i] = q[k + i]
  BY DrainSplits
<1>2. Len(q) \in Nat
  OBVIOUS
<1>. HIDE DEF d, r
<1>3. ASSUME NEW x \in Elements(q) PROVE x \in Elements(d) \cup Elements(r)
  <2>1. PICK i \in 1 .. Len(q) : x = q[i]
    BY DEF Elements
  <2>2. CASE i <= k
    <3>1. i \in 1 .. Len(d) /\ x = d[i]
      BY <1>1, <2>1, <2>2
    <3>. QED  BY <3>1 DEF Elements
  <2>3. CASE i > k
    <3>1. i - k \in 1 .. Len(q) - k /\ k + (i - k) = i
      BY <1>1, <1>2, <2>3
    <3>2. i - k \in 1 .. Len(r) /\ x = r[i - k]
      BY <1>1, <2>1, <3>1
    <3>. QED  BY <3>2 DEF Elements
  <2>. QED  BY <2>2, <2>3
<1>4. Elements(d) \subseteq Elements(q)
  BY <1>1, <1>2 DEF Elements
<1>5. Elements(r) \subseteq Elements(q)
  <2> SUFFICES ASSUME NEW i \in 1 .. Len(r) PROVE r[i] \in Elements(q)
    BY DEF Elements
  <2>1. k + i \in 1 .. Len(q) /\ r[i] = q[k + i]
    BY <1>1, <1>2
  <2>. QED  BY <2>1 DEF Elements
<1>. QED  BY <1>3, <1>4, <1>5 DEF d, r

LEMMA DrainOrder ==
    ASSUME NEW q \in Seq(1 .. MaxMsgs), NEW m, Increasing(q)
    PROVE  /\ Increasing(Drained(q, m)) /\ Increasing(Left(q, m))
           /\ \A a \in Elements(Drained(q, m)), b \in Elements(Left(q, m)) : a < b
<1> DEFINE d == Drained(q, m)
           r == Left(q, m)
<1>1. PICK k \in 0 .. Len(q) :
         /\ Len(d) = k /\ Len(r) = Len(q) - k
         /\ \A i \in 1 .. k : d[i] = q[i]
         /\ \A i \in 1 .. Len(q) - k : r[i] = q[k + i]
  BY DrainSplits
<1>2. Len(q) \in Nat
  OBVIOUS
<1>. HIDE DEF d, r
<1>3. Increasing(d)
  BY <1>1, <1>2 DEF Increasing
<1>4. Increasing(r)
  <2> SUFFICES ASSUME NEW i \in 1 .. Len(r), NEW j \in 1 .. Len(r), i < j
               PROVE  r[i] < r[j]
    BY DEF Increasing
  <2>1. /\ k + i \in 1 .. Len(q) /\ k + j \in 1 .. Len(q) /\ k + i < k + j
        /\ r[i] = q[k + i] /\ r[j] = q[k + j]
    BY <1>1, <1>2
  <2>. QED  BY <2>1 DEF Increasing
<1>5. ASSUME NEW a \in Elements(d), NEW b \in Elements(r) PROVE a < b
  <2>1. PICK i \in 1 .. Len(d) : a = d[i]
    BY DEF Elements
  <2>2. PICK j \in 1 .. Len(r) : b = r[j]
    BY DEF Elements
  <2>3. /\ i \in 1 .. Len(q) /\ k + j \in 1 .. Len(q) /\ i < k + j
        /\ a = q[i] /\ b = q[k + j]
    BY <1>1, <1>2, <2>1, <2>2
  <2>. QED  BY <2>3 DEF Increasing
<1>. QED  BY <1>3, <1>4, <1>5 DEF d, r

LEMMA TailOrder ==
    ASSUME NEW q \in Seq(1 .. MaxMsgs), q # <<>>, Increasing(q)
    PROVE  Increasing(Tail(q)) /\ \A b \in Elements(Tail(q)) : Head(q) < b
<1> DEFINE t == Tail(q)
<1>1. /\ Head(q) = q[1] /\ Len(q) \in Nat \ {0} /\ Len(t) = Len(q) - 1
      /\ \A i \in 1 .. Len(q) - 1 : t[i] = q[i + 1]
  BY TailIs
<1>. HIDE DEF t
<1>2. ASSUME NEW i \in 1 .. Len(t), NEW j \in 1 .. Len(t), i < j PROVE t[i] < t[j]
  <2>1. /\ i + 1 \in 1 .. Len(q) /\ j + 1 \in 1 .. Len(q) /\ i + 1 < j + 1
        /\ t[i] = q[i + 1] /\ t[j] = q[j + 1]
    BY <1>1, <1>2
  <2>. QED  BY <2>1 DEF Increasing
<1>3. ASSUME NEW j \in 1 .. Len(t) PROVE Head(q) < t[j]
  <2>1. 1 \in 1 .. Len(q) /\ j + 1 \in 1 .. Len(q) /\ 1 < j + 1 /\ t[j] = q[j + 1]
    BY <1>1
  <2>. QED  BY <1>1, <2>1 DEF Increasing
<1>. QED  BY <1>2, <1>3 DEF Increasing, Elements, t

LEMMA AppendOrder ==
    ASSUME NEW q \in Seq(1 .. MaxMsgs), NEW n \in 1 .. MaxMsgs, Increasing(q),
           \A a \in Elements(q) : a < n
    PROVE  Increasing(Append(q, n))
<1> DEFINE t == Append(q, n)
<1>1. /\ Len(t) = Len(q) + 1 /\ Len(q) \in Nat
      /\ \A i \in 1 .. Len(q) : t[i] = q[i]
      /\ t[Len(q) + 1] = n
  BY AppendIs
<1>. HIDE DEF t
<1>2. ASSUME NEW i \in 1 .. Len(t), NEW j \in 1 .. Len(t), i < j PROVE t[i] < t[j]
  <2>1. CASE j \in 1 .. Len(q)
    <3>1. i \in 1 .. Len(q) /\ t[i] = q[i] /\ t[j] = q[j]
      BY <1>1, <1>2, <2>1
    <3>. QED  BY <1>2, <2>1, <3>1 DEF Increasing
  <2>2. CASE j = Len(q) + 1
    <3>1. i \in 1 .. Len(q) /\ t[i] = q[i] /\ t[j] = n
      BY <1>1, <1>2, <2>2
    <3>. QED  BY <3>1 DEF Elements
  <2>. QED  BY <1>1, <2>1, <2>2
<1>. QED  BY <1>2 DEF Increasing, t

LEMMA UsersOfAppend ==
    ASSUME NEW s \in Seq(Entry), NEW e \in Entry
    PROVE  UsersIn(Append(s, e)) =
              UsersIn(s) \cup IF e[1] = "user" THEN {e[2]} ELSE {}
<1> DEFINE t == Append(s, e)
<1>1. /\ Len(t) = Len(s) + 1 /\ Len(s) \in Nat
      /\ \A i \in 1 .. Len(s) : t[i] = s[i]
      /\ t[Len(s) + 1] = e
  <2>. HIDE DEF Entry
  <2>. QED  BY AppendIs
<1>. HIDE DEF t
<1>2. ASSUME NEW x \in UsersIn(t)
      PROVE  x \in UsersIn(s) \/ (e[1] = "user" /\ x = e[2])
  <2>1. PICK i \in 1 .. Len(t) : t[i][1] = "user" /\ x = t[i][2]
    BY DEF UsersIn
  <2>2. i \in 1 .. Len(s) \/ i = Len(s) + 1
    BY <1>1
  <2>. QED  BY <1>1, <2>1, <2>2 DEF UsersIn
<1>3. UsersIn(s) \subseteq UsersIn(t)
  <2> SUFFICES ASSUME NEW i \in 1 .. Len(s), s[i][1] = "user"
               PROVE  s[i][2] \in UsersIn(t)
    BY DEF UsersIn
  <2>1. i \in 1 .. Len(t) /\ t[i] = s[i]
    BY <1>1
  <2>. QED  BY <2>1 DEF UsersIn
<1>4. e[1] = "user" => e[2] \in UsersIn(t)
  <2>1. Len(s) + 1 \in 1 .. Len(t)
    BY <1>1
  <2>. QED  BY <1>1, <2>1 DEF UsersIn
<1>. QED  BY <1>2, <1>3, <1>4 DEF t

(* A message of A was sent before every message of B of the same kind.      *)
Before(A, B) == \A a \in A, b \in B : via[a] = via[b] => a < b

Injected == UsersIn(messages)

(* Every message somewhere was sent, the queues hold their own kind, and    *)
(* the transcript, the messages being injected and the queues follow one    *)
(* another in the order of sending.                                        *)
Numbered ==
    Injected \cup Elements(pending) \cup Elements(steering) \cup Elements(followUp)
       \subseteq 1 .. Len(via)

Queued ==
    /\ Increasing(steering) /\ Increasing(followUp)
    /\ \A m \in Elements(steering) : via[m] = "steering"
    /\ \A m \in Elements(followUp) : via[m] = "followUp"

InOrder ==
    /\ Increasing(pending)
    /\ Before(Elements(pending), Elements(steering))
    /\ Before(Elements(pending), Elements(followUp))
    /\ Before(Injected, Elements(pending))
    /\ Before(Injected, Elements(steering))
    /\ Before(Injected, Elements(followUp))

Listed(s) ==
    \A p, q \in 1 .. Len(s) :
       /\ p < q /\ s[p][1] = "user" /\ s[q][1] = "user"
       /\ via[s[p][2]] = via[s[q][2]]
       => s[p][2] < s[q][2]

Delivery == Numbered /\ Queued /\ InOrder /\ Listed(messages)

LEMMA ListedAppend ==
    ASSUME NEW s \in Seq(Entry), NEW e \in Entry, Listed(s),
           e[1] = "user" => Before(UsersIn(s), {e[2]})
    PROVE  Listed(Append(s, e))
<1> DEFINE t == Append(s, e)
<1>1. /\ Len(t) = Len(s) + 1 /\ Len(s) \in Nat
      /\ \A i \in 1 .. Len(s) : t[i] = s[i]
      /\ t[Len(s) + 1] = e
  <2>. HIDE DEF Entry
  <2>. QED  BY AppendIs
<1>. HIDE DEF t
<1>2. ASSUME NEW p \in 1 .. Len(t), NEW q \in 1 .. Len(t), p < q,
             t[p][1] = "user", t[q][1] = "user",
             via[t[p][2]] = via[t[q][2]]
      PROVE  t[p][2] < t[q][2]
  <2>1. p \in 1 .. Len(s) /\ t[p] = s[p]
    BY <1>1, <1>2
  <2>2. CASE q \in 1 .. Len(s)
    BY <1>1, <1>2, <2>1, <2>2 DEF Listed
  <2>3. CASE q = Len(s) + 1
    <3>1. t[q] = e /\ s[p][2] \in UsersIn(s)
      BY <1>1, <1>2, <2>1, <2>3 DEF UsersIn
    <3>. QED  BY <1>2, <2>1, <3>1 DEF Before
  <2>. QED  BY <1>1, <2>2, <2>3
<1>3. Listed(t)
  BY <1>2 DEF Listed
<1>. QED  BY <1>3 DEF t

LEMMA DeliveryGives == ASSUME TypeOK, Delivery PROVE OrderedDelivery
<1>1. /\ \A i \in 1 .. Len(steering) : steering[i] \in Elements(steering)
      /\ \A i \in 1 .. Len(followUp) : followUp[i] \in Elements(followUp)
      /\ \A i \in 1 .. Len(pending) : pending[i] \in Elements(pending)
      /\ \A p \in 1 .. Len(messages) : IsUser(p) => messages[p][2] \in Injected
  BY DEF Elements, UsersIn, Injected, IsUser
<1>2. Len(messages) \in Nat
  BY DEF TypeOK, TranscriptType
<1>3. /\ Increasing(steering) /\ Increasing(followUp) /\ Increasing(pending)
      /\ \A i \in 1 .. Len(steering) : via[steering[i]] = "steering"
      /\ \A i \in 1 .. Len(followUp) : via[followUp[i]] = "followUp"
  BY <1>1 DEF Delivery, Queued, InOrder
<1>4. \A i \in 1 .. Len(pending) :
         /\ \A j \in 1 .. Len(steering) :
               via[pending[i]] = "steering" => pending[i] < steering[j]
         /\ \A j \in 1 .. Len(followUp) :
               via[pending[i]] = "followUp" => pending[i] < followUp[j]
  BY <1>1, <1>3 DEF Delivery, InOrder, Before
<1>5. ASSUME NEW p \in 1 .. Len(messages), IsUser(p)
      PROVE  LET m == messages[p][2] IN
             /\ \A q \in p + 1 .. Len(messages) :
                   IsUser(q) /\ via[messages[q][2]] = via[m]
                      => m < messages[q][2]
             /\ \A i \in 1 .. Len(pending) :
                   via[pending[i]] = via[m] => m < pending[i]
             /\ \A j \in 1 .. Len(steering) :
                   via[m] = "steering" => m < steering[j]
             /\ \A j \in 1 .. Len(followUp) :
                   via[m] = "followUp" => m < followUp[j]
  <2>1. ASSUME NEW q \in p + 1 .. Len(messages), IsUser(q),
               via[messages[q][2]] = via[messages[p][2]]
        PROVE  messages[p][2] < messages[q][2]
    <3>1. q \in 1 .. Len(messages) /\ p < q
      BY <1>2
    <3>. QED  BY <1>5, <2>1, <3>1 DEF Delivery, Listed, IsUser
  <2>2. /\ \A i \in 1 .. Len(pending) :
              via[pending[i]] = via[messages[p][2]] => messages[p][2] < pending[i]
        /\ \A j \in 1 .. Len(steering) :
              via[messages[p][2]] = "steering" => messages[p][2] < steering[j]
        /\ \A j \in 1 .. Len(followUp) :
              via[messages[p][2]] = "followUp" => messages[p][2] < followUp[j]
    BY <1>1, <1>3, <1>5 DEF Delivery, InOrder, Before
  <2>. QED  BY <2>1, <2>2
<1>. QED  BY <1>3, <1>4, <1>5 DEF OrderedDelivery

(* A step in which messages may only leave.                                 *)
LEMMA DeliveryShrink ==
    ASSUME Delivery, via' = via, Listed(messages)',
           Injected' \subseteq Injected,
           Elements(pending)' \subseteq Elements(pending),
           Elements(steering)' \subseteq Elements(steering),
           Elements(followUp)' \subseteq Elements(followUp),
           Increasing(pending)', Increasing(steering)', Increasing(followUp)'
    PROVE  Delivery'
<1>1. Numbered'
  BY DEF Delivery, Numbered
<1>2. Queued'
  BY DEF Delivery, Queued
<1>3. InOrder'
  BY DEF Delivery, InOrder, Before
<1>. QED  BY <1>1, <1>2, <1>3 DEF Delivery

LEMMA DeliveryQuiet ==
    ASSUME TypeOK, Delivery, via' = via,
           pending' \in {pending, <<>>}, steering' \in {steering, <<>>},
           followUp' \in {followUp, <<>>},
           \/ messages' \in {messages, <<>>}
           \/ \E e \in Entry : e[1] # "user" /\ messages' = Append(messages, e)
    PROVE  Delivery'
<1>0. messages \in Seq(Entry)
  BY DEF TypeOK, TranscriptType
<1>1. /\ Elements(pending)' \subseteq Elements(pending) /\ Increasing(pending)'
      /\ Elements(steering)' \subseteq Elements(steering) /\ Increasing(steering)'
      /\ Elements(followUp)' \subseteq Elements(followUp) /\ Increasing(followUp)'
  BY NoElements DEF Delivery, Queued, InOrder, Elements, Increasing
<1>2. Injected' \subseteq Injected /\ Listed(messages)'
  <2>1. CASE messages' = messages
    BY <2>1 DEF Delivery, Injected, UsersIn, Listed
  <2>2. CASE messages' = <<>>
    BY <2>2 DEF Injected, UsersIn, Listed
  <2>3. CASE \E e \in Entry : e[1] # "user" /\ messages' = Append(messages, e)
    <3>1. PICK e \in Entry : e[1] # "user" /\ messages' = Append(messages, e)
      BY <2>3
    <3>2. UsersIn(messages') = UsersIn(messages)
      BY <1>0, <3>1, UsersOfAppend
    <3>3. \A s \in Seq(Entry) : Listed(s) => Listed(Append(s, e))
      BY <3>1, ListedAppend
    <3>4. Listed(messages')
      BY <1>0, <3>1, <3>3 DEF Delivery
    <3>. QED  BY <3>2, <3>4 DEF Injected, UsersIn, Listed
  <2>. QED  BY <2>1, <2>2, <2>3
<1>. QED  BY <1>1, <1>2, DeliveryShrink

LEMMA DeliveryDrain ==
    ASSUME TypeOK, Delivery, UNCHANGED <<messages, via>>,
           NEW m,
           \/ /\ pending' = Drained(steering, m) /\ steering' = Left(steering, m)
              /\ followUp' = followUp
           \/ /\ pending' = Drained(followUp, m) /\ followUp' = Left(followUp, m)
              /\ steering' = steering
    PROVE  Delivery'
<1>0. steering \in Seq(1 .. MaxMsgs) /\ followUp \in Seq(1 .. MaxMsgs)
  BY DEF TypeOK, QueueType
<1>1. Injected' = Injected /\ Listed(messages)'
  BY DEF Delivery, Injected, UsersIn, Listed
<1>2. /\ Numbered /\ Queued /\ InOrder
  BY DEF Delivery
<1>3. CASE /\ pending' = Drained(steering, m) /\ steering' = Left(steering, m)
           /\ followUp' = followUp
  <2>1. /\ Elements(steering) = Elements(Drained(steering, m))
                                   \cup Elements(Left(steering, m))
        /\ Increasing(Drained(steering, m)) /\ Increasing(Left(steering, m))
        /\ \A a \in Elements(Drained(steering, m)),
              b \in Elements(Left(steering, m)) : a < b
    BY <1>0, <1>2, DrainElements, DrainOrder DEF Queued
  <2>2. /\ Elements(pending)' = Elements(Drained(steering, m))
        /\ Elements(steering)' = Elements(Left(steering, m))
        /\ Elements(followUp)' = Elements(followUp)
    BY <1>3 DEF Elements
  <2>6. Increasing(pending)' /\ Increasing(steering)' /\ Increasing(followUp)'
    <3>1. Increasing(pending') /\ Increasing(steering') /\ Increasing(followUp')
      BY <1>2, <1>3, <2>1 DEF Queued
    <3>. QED  BY <3>1 DEF Increasing
  <2>3. Numbered'
    BY <1>1, <1>2, <2>1, <2>2, <2>6 DEF Numbered
  <2>4. Queued'
    BY <1>2, <2>1, <2>2, <2>6 DEF Queued
  <2>5. InOrder'
    BY <1>1, <1>2, <2>1, <2>2, <2>6 DEF InOrder, Before, Queued
  <2>. QED  BY <1>1, <2>3, <2>4, <2>5 DEF Delivery
<1>4. CASE /\ pending' = Drained(followUp, m) /\ followUp' = Left(followUp, m)
           /\ steering' = steering
  <2>1. /\ Elements(followUp) = Elements(Drained(followUp, m))
                                   \cup Elements(Left(followUp, m))
        /\ Increasing(Drained(followUp, m)) /\ Increasing(Left(followUp, m))
        /\ \A a \in Elements(Drained(followUp, m)),
              b \in Elements(Left(followUp, m)) : a < b
    BY <1>0, <1>2, DrainElements, DrainOrder DEF Queued
  <2>2. /\ Elements(pending)' = Elements(Drained(followUp, m))
        /\ Elements(followUp)' = Elements(Left(followUp, m))
        /\ Elements(steering)' = Elements(steering)
    BY <1>4 DEF Elements
  <2>6. Increasing(pending)' /\ Increasing(followUp)' /\ Increasing(steering)'
    <3>1. Increasing(pending') /\ Increasing(followUp') /\ Increasing(steering')
      BY <1>2, <1>4, <2>1 DEF Queued
    <3>. QED  BY <3>1 DEF Increasing
  <2>3. Numbered'
    BY <1>1, <1>2, <2>1, <2>2, <2>6 DEF Numbered
  <2>4. Queued'
    BY <1>2, <2>1, <2>2, <2>6 DEF Queued
  <2>5. InOrder'
    BY <1>1, <1>2, <2>1, <2>2, <2>6 DEF InOrder, Before, Queued
  <2>. QED  BY <1>1, <2>3, <2>4, <2>5 DEF Delivery
<1>. QED  BY <1>3, <1>4

LEMMA DeliveryEmit ==
    ASSUME TypeOK, Delivery, pending # <<>>,
           messages' = Append(messages, <<"user", Head(pending)>>),
           pending' = Tail(pending), UNCHANGED <<steering, followUp, via>>
    PROVE  Delivery'
<1> DEFINE h == Head(pending)
           e == <<"user", h>>
<1>0. messages \in Seq(Entry) /\ pending \in Seq(1 .. MaxMsgs)
  BY DEF TypeOK, TranscriptType, QueueType
<1>1. /\ h \in 1 .. MaxMsgs
      /\ Elements(pending) = {h} \cup Elements(Tail(pending))
      /\ Increasing(Tail(pending)) /\ \A b \in Elements(Tail(pending)) : h < b
  BY <1>0, HeadTailType, ElementsOfTail, TailOrder DEF Delivery, InOrder
<1>2. e \in Entry /\ e[1] = "user" /\ e[2] = h
  BY <1>1, UserEntry
<1>3. messages' = Append(messages, e) /\ pending' = Tail(pending)
  OBVIOUS
<1>. HIDE DEF h, e
<1>4. UsersIn(messages') = Injected \cup {h}
  BY <1>0, <1>2, <1>3, UsersOfAppend DEF Injected
<1>5. Before(Injected, {h})
  BY <1>1 DEF Delivery, InOrder, Before
<1>6. Listed(messages')
  <2>1. \A s \in Seq(Entry) :
           Listed(s) /\ Before(UsersIn(s), {h}) => Listed(Append(s, e))
    BY <1>2, ListedAppend
  <2>. QED  BY <1>0, <1>3, <1>5, <2>1 DEF Delivery, Injected
<1>7. Listed(messages)'
  BY <1>6 DEF Listed
<1>8. Injected' = Injected \cup {h}
  BY <1>4 DEF Injected, UsersIn
<1>9. /\ Elements(pending) = {h} \cup Elements(pending)' /\ Increasing(pending)'
      /\ \A b \in Elements(pending)' : h < b
      /\ Elements(steering)' = Elements(steering)
      /\ Elements(followUp)' = Elements(followUp)
  BY <1>1, <1>3 DEF Elements, Increasing
<1>10. Numbered'
  BY <1>8, <1>9 DEF Delivery, Numbered
<1>11. Queued'
  BY <1>9 DEF Delivery, Queued, Increasing
<1>12. InOrder'
  BY <1>8, <1>9 DEF Delivery, InOrder, Before
<1>. QED  BY <1>7, <1>10, <1>11, <1>12 DEF Delivery

LEMMA QueuedElements ==
    ASSUME NEW q \in Seq(1 .. MaxMsgs), NEW m \in 1 .. MaxMsgs
    PROVE  Elements(Append(q, m)) = Elements(q) \cup {m}
<1>1. \A S : \A r \in Seq(S) : \A e \in S :
         Elements(Append(r, e)) = Elements(r) \cup {e}
  BY ElementsOfAppend
<1>2. \A r \in Seq(1 .. MaxMsgs) : \A e \in 1 .. MaxMsgs :
         Elements(Append(r, e)) = Elements(r) \cup {e}
  BY <1>1
<1>. QED  BY <1>2

(* A message just sent comes after all the others.                          *)
LEMMA DeliverySend ==
    ASSUME TypeOK, Delivery, NEW how, Send(how), messages' = messages,
           how \in {"prompt", "steering", "followUp"},
           \/ /\ how = "steering" /\ steering' = Append(steering, Len(via) + 1)
              /\ UNCHANGED <<followUp, pending>>
           \/ /\ how = "followUp" /\ followUp' = Append(followUp, Len(via) + 1)
              /\ UNCHANGED <<steering, pending>>
           \/ /\ pending' = <<Len(via) + 1>> /\ UNCHANGED <<steering, followUp>>
              /\ how = "prompt"
    PROVE  Delivery'
<1> DEFINE n == Len(via) + 1
<1>0. /\ via \in Seq({"prompt", "steering", "followUp"}) /\ Len(via) \in Nat
      /\ steering \in Seq(1 .. MaxMsgs) /\ followUp \in Seq(1 .. MaxMsgs)
  BY DEF TypeOK, QueueType
<1>1. /\ Len(via) < MaxMsgs /\ via' = Append(via, how)
  BY DEF Send
<1>2. /\ n \in 1 .. MaxMsgs /\ n \in Nat /\ \A m \in 1 .. Len(via) : m < n
  BY <1>0, <1>1, Bounds
<1>3. /\ Len(via') = n /\ via'[n] = how
      /\ \A m \in 1 .. Len(via) : via'[m] = via[m]
      /\ 1 .. Len(via') = (1 .. Len(via)) \cup {n}
  BY <1>0, <1>1
<1>4. Numbered /\ Queued /\ InOrder /\ Listed(messages)
  BY DEF Delivery
<1>5. Injected' = Injected
  BY DEF Injected, UsersIn
<1>6. Listed(messages)'
  <2>1. \A p \in 1 .. Len(messages) : messages[p][1] = "user" =>
           via'[messages[p][2]] = via[messages[p][2]]
    BY <1>3, <1>4 DEF Numbered, Injected, UsersIn
  <2>. QED  BY <1>4, <2>1 DEF Listed
<1>7. CASE /\ how = "steering" /\ steering' = Append(steering, n)
           /\ UNCHANGED <<followUp, pending>>
  <2>. HIDE DEF n
  <2>1. Elements(steering') = Elements(steering) \cup {n}
    BY <1>0, <1>2, <1>7, QueuedElements
  <2>2. \A a \in Elements(steering) : a < n
    BY <1>2, <1>4 DEF Numbered
  <2>3. Increasing(Append(steering, n))
    BY <1>0, <1>2, <1>4, <2>2, AppendOrder DEF Queued
  <2>4. /\ Elements(steering)' = Elements(steering) \cup {n} /\ Increasing(steering)'
        /\ Elements(followUp)' = Elements(followUp) /\ Increasing(followUp)'
        /\ Elements(pending)' = Elements(pending) /\ Increasing(pending)'
    BY <1>4, <1>7, <2>1, <2>3 DEF Elements, Increasing, Queued, InOrder
  <2>5. Numbered'
    BY <1>3, <1>4, <1>5, <2>4 DEF Numbered
  <2>6. Queued'
    BY <1>3, <1>4, <1>7, <2>4 DEF Queued, Numbered
  <2>7. InOrder'
    BY SMTT(30), <1>2, <1>3, <1>4, <1>5, <2>4 DEF InOrder, Before, Numbered
  <2>. QED  BY <1>6, <2>5, <2>6, <2>7 DEF Delivery
<1>8. CASE /\ how = "followUp" /\ followUp' = Append(followUp, n)
           /\ UNCHANGED <<steering, pending>>
  <2>. HIDE DEF n
  <2>1. Elements(followUp') = Elements(followUp) \cup {n}
    BY <1>0, <1>2, <1>8, QueuedElements
  <2>2. \A a \in Elements(followUp) : a < n
    BY <1>2, <1>4 DEF Numbered
  <2>3. Increasing(Append(followUp, n))
    BY <1>0, <1>2, <1>4, <2>2, AppendOrder DEF Queued
  <2>4. /\ Elements(followUp)' = Elements(followUp) \cup {n} /\ Increasing(followUp)'
        /\ Elements(steering)' = Elements(steering) /\ Increasing(steering)'
        /\ Elements(pending)' = Elements(pending) /\ Increasing(pending)'
    BY <1>4, <1>8, <2>1, <2>3 DEF Elements, Increasing, Queued, InOrder
  <2>5. Numbered'
    BY <1>3, <1>4, <1>5, <2>4 DEF Numbered
  <2>6. Queued'
    BY <1>3, <1>4, <1>8, <2>4 DEF Queued, Numbered
  <2>7. InOrder'
    BY SMTT(30), <1>2, <1>3, <1>4, <1>5, <2>4 DEF InOrder, Before, Numbered
  <2>. QED  BY <1>6, <2>5, <2>6, <2>7 DEF Delivery
<1>9. CASE /\ pending' = <<n>> /\ UNCHANGED <<steering, followUp>>
           /\ how = "prompt"
  <2>. HIDE DEF n
  <2>1. /\ Elements(pending)' = {n} /\ Increasing(pending)'
        /\ Elements(steering)' = Elements(steering) /\ Increasing(steering)'
        /\ Elements(followUp)' = Elements(followUp) /\ Increasing(followUp)'
    BY SMTT(30), <1>2, <1>4, <1>9 DEF Elements, Increasing, Queued
  <2>2. Numbered'
    BY <1>3, <1>4, <1>5, <2>1 DEF Numbered
  <2>3. Queued'
    BY <1>3, <1>4, <2>1 DEF Queued, Numbered
  <2>4. InOrder'
    BY <1>2, <1>3, <1>4, <1>5, <1>9, <2>1 DEF InOrder, Before, Numbered, Queued
  <2>. QED  BY <1>6, <2>2, <2>3, <2>4 DEF Delivery
<1>. QED  BY <1>7, <1>8, <1>9

(* Most steps move no message of the host.                                  *)
Quiet ==
    /\ UNCHANGED <<steering, followUp, pending, via>>
    /\ \/ messages' = messages
       \/ \E e \in Entry : e[1] # "user" /\ messages' = Append(messages, e)

QuietNext ==
    \/ \E q \in {"steering", "followUp"}, m \in {"all", "one-at-a-time"} :
          SetMode(q, m)
    \/ Abort \/ CallModel \/ \E n \in 0 .. MaxCalls : Respond(n)
    \/ RespondError \/ EmitAgentEnd \/ EndTurn \/ StopAfterTurn
    \/ ToolStart \/ ToolImmediate \/ ToolPrepared
    \/ \E i \in 1 .. MaxCalls, status \in Finalized : ToolEnds(i, status)
    \/ NextCall \/ LaunchAll \/ EmitResult \/ EndSequential
    \/ EmitResults \/ EndParallel
    \/ Throw \/ \E i \in 1 .. MaxCalls : ThrowInTool(i)
    \/ FailureMessage \/ \E o \in orphans : OrphanEnds(o)

LEMMA QuietSteps == ASSUME TypeOK, BatchOK, QuietNext PROVE Quiet
<1>1. CASE \/ \E q \in {"steering", "followUp"}, m \in {"all", "one-at-a-time"} :
                 SetMode(q, m)
           \/ Abort \/ CallModel \/ EmitAgentEnd \/ EndTurn \/ StopAfterTurn
           \/ ToolStart \/ ToolImmediate \/ ToolPrepared \/ NextCall \/ LaunchAll
  BY <1>1 DEF SetMode, Abort, CallModel, EmitAgentEnd, EndTurn, StopAfterTurn,
     ToolStart, ToolImmediate, ToolPrepared, NextCall, LaunchAll, queueVars,
     agentVars, loopVars, Quiet
<1>2. CASE \/ \E i \in 1 .. MaxCalls, status \in Finalized : ToolEnds(i, status)
           \/ EndSequential \/ EndParallel \/ Throw
           \/ \E i \in 1 .. MaxCalls : ThrowInTool(i)
           \/ \E o \in orphans : OrphanEnds(o)
  BY <1>2 DEF ToolEnds, EndSequential, EndParallel, Throw, ThrowInTool,
     OrphanEnds, queueVars, agentVars, loopVars, Quiet
<1>3. CASE RespondError \/ \E n \in 0 .. MaxCalls : Respond(n)
  <2>1. turn + 1 \in Nat \ {0}
    BY DEF TypeOK, BatchType, turn
  <2>2. <<"assistant", turn + 1>> \in Entry
    BY <2>1, AssistantEntry
  <2>3. /\ UNCHANGED <<steering, followUp, pending, via>>
        /\ messages' = Append(messages, <<"assistant", turn + 1>>)
    BY <1>3 DEF Respond, RespondError, queueVars
  <2>. QED  BY <2>2, <2>3 DEF Quiet
<1>4. ASSUME NEW i \in 1 .. MaxCalls, InBatch,
             messages' = Append(messages, Result(i)),
             UNCHANGED <<steering, followUp, pending, via>>
      PROVE  Quiet
  <2>1. Result(i) \in Entry /\ Result(i)[1] # "user"
    BY <1>4, TurnInBatch, ResultEntry DEF Result
  <2>. QED  BY <1>4, <2>1 DEF Quiet
<1>5. CASE EmitResult
  <2>1. next \in 1 .. MaxCalls /\ InBatch
    BY <1>5 DEF EmitResult, InBatch, TypeOK, BatchType
  <2>. QED  BY <1>4, <1>5, <2>1 DEF EmitResult, queueVars, loopVars
<1>6. CASE EmitResults
  <2>1. emitted + 1 \in 1 .. MaxCalls /\ InBatch
    BY <1>6, Bounds DEF EmitResults, InBatch, TypeOK, BatchType
  <2>. QED  BY <1>4, <1>6, <2>1 DEF EmitResults, queueVars, loopVars
<1>7. CASE FailureMessage
  <2>1. activeRun \in 1 .. MaxRuns
    BY <1>7, Bounds DEF FailureMessage, BatchOK, TypeOK, RunType
  <2>2. <<"failure", activeRun>> \in Entry
    BY <2>1, FailureEntry
  <2>3. /\ UNCHANGED <<steering, followUp, pending, via>>
        /\ messages' = Append(messages, <<"failure", activeRun>>)
    BY <1>7 DEF FailureMessage, queueVars, loopVars
  <2>. QED  BY <2>2, <2>3 DEF Quiet
<1>. QED  BY <1>1, <1>2, <1>3, <1>5, <1>6, <1>7 DEF QuietNext

(* The others.                                                              *)
LEMMA NextSplit ==
    Next <=> \/ QuietNext
             \/ Steer \/ FollowUp \/ Prompt \/ Reset
             \/ \E q \in {"steering", "followUp"} : ClearQueue(q)
             \/ ContinueFromSteering \/ ContinueFromFollowUp \/ ContinueTranscript
             \/ EmitPrompt \/ Inject \/ PollSteering \/ PollFollowUp
             \/ Settle \/ FailureThrows
  BY DEF Next, Host, Loop, QuietNext

(* How the others change the queues and what is to be injected.             *)
LEMMA Drains ==
    /\ ContinueFromSteering =>
          /\ pending' = Drained(steering, mode["steering"])
          /\ steering' = Left(steering, mode["steering"])
          /\ UNCHANGED <<messages, followUp, via>>
    /\ ContinueFromFollowUp \/ PollFollowUp =>
          /\ pending' = Drained(followUp, mode["followUp"])
          /\ followUp' = Left(followUp, mode["followUp"])
          /\ UNCHANGED <<messages, steering, via>>
    /\ PollSteering =>
          /\ \/ pending' = <<>> /\ UNCHANGED steering
             \/ /\ pending' = Drained(steering, mode["steering"])
                /\ steering' = Left(steering, mode["steering"])
          /\ UNCHANGED <<messages, followUp, via>>
    /\ ContinueTranscript =>
          pending' = <<>> /\ UNCHANGED <<messages, steering, followUp, via>>
    /\ Settle \/ FailureThrows =>
          pending' = <<>> /\ UNCHANGED <<messages, steering, followUp, via>>
    /\ EmitPrompt \/ Inject =>
          /\ pending # <<>>
          /\ messages' = Append(messages, <<"user", Head(pending)>>)
          /\ pending' = Tail(pending)
          /\ UNCHANGED <<steering, followUp, via>>
<1>1. /\ ContinueFromSteering =>
          /\ pending' = Drained(steering, mode["steering"])
          /\ steering' = Left(steering, mode["steering"])
          /\ UNCHANGED <<messages, followUp, via>>
      /\ ContinueFromFollowUp \/ PollFollowUp =>
          /\ pending' = Drained(followUp, mode["followUp"])
          /\ followUp' = Left(followUp, mode["followUp"])
          /\ UNCHANGED <<messages, steering, via>>
      /\ ContinueTranscript =>
          pending' = <<>> /\ UNCHANGED <<messages, steering, followUp, via>>
  BY DEF ContinueFromSteering, ContinueFromFollowUp, ContinueTranscript,
     StartRun, PollFollowUp, agentVars
<1>2. PollSteering =>
          /\ \/ pending' = <<>> /\ UNCHANGED steering
             \/ /\ pending' = Drained(steering, mode["steering"])
                /\ steering' = Left(steering, mode["steering"])
          /\ UNCHANGED <<messages, followUp, via>>
  BY DEF PollSteering, agentVars
<1>3. /\ Settle \/ FailureThrows =>
          pending' = <<>> /\ UNCHANGED <<messages, steering, followUp, via>>
      /\ EmitPrompt \/ Inject =>
          /\ pending # <<>>
          /\ messages' = Append(messages, <<"user", Head(pending)>>)
          /\ pending' = Tail(pending)
          /\ UNCHANGED <<steering, followUp, via>>
  BY DEF Settle, FailureThrows, FinishRun, EmitPrompt, Inject, queueVars
<1>. QED  BY <1>1, <1>2, <1>3

LEMMA DeliveryStep ==
    ASSUME TypeOK, BatchOK, Delivery, Next PROVE Delivery'
<1>1. CASE QuietNext
  <2>1. Quiet
    BY <1>1, QuietSteps
  <2>. QED  BY <2>1, DeliveryQuiet DEF Quiet
<1>2. CASE Steer \/ FollowUp
  <2>1. CASE Steer
    <3>1. /\ Send("steering") /\ messages' = messages
          /\ steering' = Append(steering, Len(via) + 1)
          /\ UNCHANGED <<followUp, pending>>
      BY <2>1 DEF Steer, agentVars, loopVars
    <3>. QED  BY <3>1, DeliverySend
  <2>2. CASE FollowUp
    <3>1. /\ Send("followUp") /\ messages' = messages
          /\ followUp' = Append(followUp, Len(via) + 1)
          /\ UNCHANGED <<steering, pending>>
      BY <2>2 DEF FollowUp, agentVars, loopVars
    <3>. QED  BY <3>1, DeliverySend
  <2>. QED  BY <1>2, <2>1, <2>2
<1>3. CASE Prompt
  <2>1. /\ Send("prompt") /\ messages' = messages
        /\ pending' = <<Len(via) + 1>> /\ UNCHANGED <<steering, followUp>>
    BY <1>3 DEF Prompt, StartRun
  <2>. QED  BY <2>1, DeliverySend
<1>4. CASE Reset \/ \E q \in {"steering", "followUp"} : ClearQueue(q)
  <2>1. /\ via' = via /\ pending' = pending /\ steering' \in {steering, <<>>}
        /\ followUp' \in {followUp, <<>>} /\ messages' \in {messages, <<>>}
    BY <1>4 DEF Reset, ClearQueue, agentVars, loopVars
  <2>. QED  BY <2>1, DeliveryQuiet
<1>5. CASE ContinueTranscript \/ Settle \/ FailureThrows
  BY <1>5, Drains, DeliveryQuiet
<1>6. CASE ContinueFromSteering \/ ContinueFromFollowUp \/ PollFollowUp
  BY <1>6, Drains, DeliveryDrain
<1>7. CASE PollSteering
  <2>1. CASE pending' = <<>> /\ UNCHANGED <<steering, messages, followUp, via>>
    BY <2>1, DeliveryQuiet
  <2>2. CASE /\ pending' = Drained(steering, mode["steering"])
             /\ steering' = Left(steering, mode["steering"])
             /\ UNCHANGED <<messages, followUp, via>>
    BY <2>2, DeliveryDrain
  <2>. QED  BY <1>7, <2>1, <2>2, Drains
<1>8. CASE EmitPrompt \/ Inject
  BY <1>8, Drains, DeliveryEmit
<1>. QED  BY <1>1, <1>2, <1>3, <1>4, <1>5, <1>6, <1>7, <1>8, NextSplit

(* Every message is delivered at most once and, within the way it was sent, *)
(* in the order of sending: what the transcript holds comes before what is  *)
(* being injected, and that before what still waits, through both drain     *)
(* modes, continue() from either queue, failed runs and cleared queues.     *)
THEOREM DeliveredInOrder == Spec => []OrderedDelivery
<1>1. Init => TypeOK /\ BatchOK /\ Delivery
  <2>1. Init => Delivery
    BY DEF Init, Delivery, Numbered, Queued, InOrder, Before, Listed, Injected,
       UsersIn, Elements, Increasing
  <2>. QED  BY <2>1, InitType
<1>2. TypeOK /\ BatchOK /\ Delivery /\ [Next]_vars
         => (TypeOK /\ BatchOK /\ Delivery)'
  <2> SUFFICES ASSUME TypeOK, BatchOK, Delivery, [Next]_vars PROVE Delivery'
    BY TypeStep
  <2>1. CASE UNCHANGED vars
    BY <2>1, DeliveryQuiet DEF vars, queueVars, agentVars, loopVars
  <2>. QED  BY <2>1, DeliveryStep
<1>3. TypeOK /\ Delivery => OrderedDelivery
  BY DeliveryGives
<1>. QED  BY <1>1, <1>2, <1>3, PTL DEF Spec

(* Messages wait for their injection only where the loop injects them, or   *)
(* when the run has failed.                                                *)
InjectedInTime ==
    pc \notin {"prompts", "inject", "failing", "failed"} => pending = <<>>

LEMMA InjectedInTimeStep ==
    ASSUME TypeOK, BatchOK, InjectedInTime, Next PROVE InjectedInTime'
<1>0. pending \in Seq(1 .. MaxMsgs)
  BY DEF TypeOK, QueueType
<1>1. CASE \/ Steer \/ FollowUp \/ Abort \/ Reset
           \/ \E q \in {"steering", "followUp"} :
                 ClearQueue(q) \/ \E m \in {"all", "one-at-a-time"} : SetMode(q, m)
           \/ \E o \in orphans : OrphanEnds(o)
  BY <1>1 DEF Steer, FollowUp, Abort, Reset, ClearQueue, SetMode, OrphanEnds,
     loopVars, InjectedInTime
<1>2. CASE \/ Prompt \/ ContinueFromSteering \/ ContinueFromFollowUp
           \/ ContinueTranscript
  BY <1>2 DEF Prompt, ContinueFromSteering, ContinueFromFollowUp,
     ContinueTranscript, StartRun, InjectedInTime
<1>3. CASE EmitPrompt \/ Inject \/ PollSteering \/ PollFollowUp
  BY <1>3 DEF EmitPrompt, Inject, PollSteering, PollFollowUp, InjectedInTime
<1>4. CASE \/ CallModel \/ RespondError \/ EmitAgentEnd \/ EndTurn
           \/ StopAfterTurn \/ \E n \in 0 .. MaxCalls : Respond(n)
  BY <1>4 DEF CallModel, RespondError, EmitAgentEnd, EndTurn, StopAfterTurn,
     Respond, loopVars, InjectedInTime
<1>5. CASE \/ ToolStart \/ ToolImmediate \/ ToolPrepared \/ NextCall \/ LaunchAll
           \/ \E i \in 1 .. MaxCalls, status \in Finalized : ToolEnds(i, status)
           \/ EmitResult \/ EmitResults
  BY <1>5 DEF ToolStart, ToolImmediate, ToolPrepared, NextCall, LaunchAll,
     ToolEnds, EmitResult, EmitResults, loopVars, InjectedInTime
<1>6. CASE EndSequential \/ EndParallel
  BY <1>6 DEF EndSequential, EndParallel, EndBatch, InjectedInTime
<1>7. CASE \/ Throw \/ FailureMessage \/ FailureThrows \/ Settle
           \/ \E i \in 1 .. MaxCalls : ThrowInTool(i)
  BY <1>7 DEF Throw, FailureMessage, FailureThrows, Settle, ThrowInTool,
     FinishRun, InjectedInTime
<1>. QED  BY <1>1, <1>2, <1>3, <1>4, <1>5, <1>6, <1>7 DEF Next, Host, Loop

LEMMA HeldIs ==
    Held = Elements(steering) \cup Elements(followUp) \cup Elements(pending)
              \cup Injected
  BY DEF Held, Elements, Injected, UsersIn, IsUser

LEMMA HeldIsNext ==
    Held' = Elements(steering') \cup Elements(followUp') \cup Elements(pending')
              \cup UsersIn(messages')
  BY DEF Held, Elements, UsersIn, IsUser

LEMMA LossStep ==
    ASSUME TypeOK, BatchOK, InjectedInTime, Next
    PROVE  \/ Held \subseteq Held'
           \/ resets' > resets
           \/ steering' = <<>> /\ UNCHANGED <<pc, pending, followUp, messages>>
           \/ followUp' = <<>> /\ UNCHANGED <<pc, pending, steering, messages>>
           \/ pc \in {"failing", "failed"}
              /\ UNCHANGED <<steering, followUp, messages>>
<1>0. /\ messages \in Seq(Entry) /\ pending \in Seq(1 .. MaxMsgs)
      /\ steering \in Seq(1 .. MaxMsgs) /\ followUp \in Seq(1 .. MaxMsgs)
      /\ resets \in Nat /\ Len(via) \in Nat
      /\ activeRun = 0 <=> pc = "idle"
  BY Bounds DEF TypeOK, TranscriptType, QueueType, RunType, BatchOK
<1>1. ASSUME NEW e \in Entry, messages' = Append(messages, e)
      PROVE  UsersIn(messages') =
                Injected \cup IF e[1] = "user" THEN {e[2]} ELSE {}
  BY <1>0, <1>1, UsersOfAppend DEF Injected
<1>2. ASSUME messages' = messages PROVE UsersIn(messages') = Injected
  BY <1>2 DEF Injected
<1>3. CASE QuietNext
  <2>1. Quiet
    BY <1>3, QuietSteps
  <2>2. Injected \subseteq UsersIn(messages')
    BY <1>1, <1>2, <2>1 DEF Quiet
  <2>. QED  BY <2>1, <2>2, HeldIs, HeldIsNext DEF Quiet
<1>4. ASSUME NEW how, Send(how) PROVE Len(via) + 1 \in 1 .. MaxMsgs
  BY <1>0, <1>4, Bounds DEF Send
<1>5. CASE Steer
  <2>1. /\ steering' = Append(steering, Len(via) + 1) /\ Send("steering")
        /\ UNCHANGED <<followUp, pending, messages>>
    BY <1>5 DEF Steer, agentVars, loopVars
  <2>2. Elements(steering') = Elements(steering) \cup {Len(via) + 1}
    BY <1>0, <1>4, <2>1, QueuedElements
  <2>. QED  BY <1>2, <2>1, <2>2, HeldIs, HeldIsNext
<1>6. CASE FollowUp
  <2>1. /\ followUp' = Append(followUp, Len(via) + 1) /\ Send("followUp")
        /\ UNCHANGED <<steering, pending, messages>>
    BY <1>6 DEF FollowUp, agentVars, loopVars
  <2>2. Elements(followUp') = Elements(followUp) \cup {Len(via) + 1}
    BY <1>0, <1>4, <2>1, QueuedElements
  <2>. QED  BY <1>2, <2>1, <2>2, HeldIs, HeldIsNext
<1>7. CASE Reset
  BY <1>0, <1>7 DEF Reset
<1>8. CASE \E q \in {"steering", "followUp"} : ClearQueue(q)
  BY <1>8 DEF ClearQueue, agentVars, loopVars
(* Where pending is overwritten it is empty, or the run has failed.         *)
<1>9. ASSUME pending = <<>>, UNCHANGED <<messages, steering, followUp>>
      PROVE  Held \subseteq Held'
  <2>1. Elements(pending) = {}
    BY <1>9, NoElements
  <2>. QED  BY <1>2, <1>9, <2>1, HeldIs, HeldIsNext
<1>10. CASE Prompt \/ ContinueTranscript
  <2>1. pc = "idle" /\ UNCHANGED <<messages, steering, followUp>>
    BY <1>0, <1>10 DEF Prompt, ContinueTranscript, StartRun
  <2>. QED  BY <1>9, <2>1 DEF InjectedInTime
<1>11. CASE Settle \/ FailureThrows
  <2>1. /\ pc \in {"settling", "failing", "failed"}
        /\ UNCHANGED <<messages, steering, followUp>>
    BY <1>11 DEF Settle, FailureThrows, queueVars
  <2>. QED  BY <1>9, <2>1 DEF InjectedInTime
<1>12. ASSUME NEW m, pending = <<>>, messages' = messages,
              \/ /\ pending' = Drained(steering, m) /\ steering' = Left(steering, m)
                 /\ followUp' = followUp
              \/ /\ pending' = Drained(followUp, m) /\ followUp' = Left(followUp, m)
                 /\ steering' = steering
       PROVE  Held \subseteq Held'
  <2>1. /\ Elements(steering) = Elements(Drained(steering, m))
                                   \cup Elements(Left(steering, m))
        /\ Elements(followUp) = Elements(Drained(followUp, m))
                                   \cup Elements(Left(followUp, m))
    BY <1>0, DrainElements
  <2>2. Elements(pending) = {}
    BY <1>12, NoElements
  <2>. QED  BY <1>2, <1>12, <2>1, <2>2, HeldIs, HeldIsNext
<1>13. CASE ContinueFromSteering \/ ContinueFromFollowUp
  <2>1. pc = "idle"
    BY <1>0, <1>13 DEF ContinueFromSteering, ContinueFromFollowUp
  <2>2. pending = <<>>
    BY <2>1 DEF InjectedInTime
  <2>. QED  BY <1>12, <1>13, <2>2, Drains
<1>14. CASE PollFollowUp
  <2>1. pc = "pollFollowUp"
    BY <1>14 DEF PollFollowUp
  <2>2. pending = <<>>
    BY <2>1 DEF InjectedInTime
  <2>. QED  BY <1>12, <1>14, <2>2, Drains
<1>15. CASE PollSteering
  <2>1. pending = <<>> \/ pc = "poll"
    BY <1>15 DEF PollSteering
  <2>2. pending = <<>>
    BY <2>1 DEF InjectedInTime
  <2>. QED  BY <1>9, <1>12, <1>15, <2>2, Drains
<1>16. CASE EmitPrompt \/ Inject
  <2>1. /\ pending # <<>>
        /\ messages' = Append(messages, <<"user", Head(pending)>>)
        /\ pending' = Tail(pending) /\ UNCHANGED <<steering, followUp>>
    BY <1>16, Drains
  <2>2. Elements(pending) = {Head(pending)} \cup Elements(pending')
    BY <1>0, <2>1, ElementsOfTail
  <2>3. Head(pending) \in 1 .. MaxMsgs
    BY <1>0, <2>1, HeadTailType
  <2>4. <<"user", Head(pending)>> \in Entry
    BY <2>3, UserEntry
  <2>5. UsersIn(messages') = Injected \cup {Head(pending)}
    BY <1>1, <2>1, <2>4
  <2>. QED  BY <2>1, <2>2, <2>5, HeldIs, HeldIsNext
<1>. QED
  BY <1>3, <1>5, <1>6, <1>7, <1>8, <1>10, <1>11, <1>13, <1>14, <1>15, <1>16,
     NextSplit

(* A message leaves the agent only when the host clears a queue or resets,  *)
(* or when its run fails before it was injected: no drain in either mode,   *)
(* no poll and no end of a run loses one.                                  *)
THEOREM NothingLostSilently == Spec => NoSilentLoss
<1>1. Init => TypeOK /\ BatchOK /\ InjectedInTime
  <2>1. Init => InjectedInTime
    BY DEF Init, InjectedInTime
  <2>. QED  BY <2>1, InitType
<1>2. TypeOK /\ BatchOK /\ InjectedInTime /\ [Next]_vars
         => (TypeOK /\ BatchOK /\ InjectedInTime)'
  <2> SUFFICES ASSUME TypeOK, BatchOK, InjectedInTime, [Next]_vars
               PROVE  InjectedInTime'
    BY TypeStep
  <2>1. CASE UNCHANGED vars
    BY <2>1 DEF vars, loopVars, InjectedInTime
  <2>. QED  BY <2>1, InjectedInTimeStep
<1>3. TypeOK /\ BatchOK /\ InjectedInTime /\ [Next]_vars
         => [\/ Held \subseteq Held'
             \/ resets' > resets
             \/ steering' = <<>> /\ UNCHANGED <<pc, pending, followUp, messages>>
             \/ followUp' = <<>> /\ UNCHANGED <<pc, pending, steering, messages>>
             \/ pc \in {"failing", "failed"}
                /\ UNCHANGED <<steering, followUp, messages>>]_vars
  BY LossStep
<1>. QED  BY <1>1, <1>2, <1>3, PTL DEF Spec, NoSilentLoss

-----------------------------------------------------------------------------
(* Tool calls and their results in the transcript.                          *)

(* The two halves of ResultsAnswerCalls.                                    *)
AnswersFollow ==
    \A p \in 1 .. Len(messages) : messages[p][1] = "result" =>
       LET t == messages[p][2]
           i == messages[p][3]
       IN  turns[t].fate # "forgotten" =>
              /\ i <= turns[t].calls /\ i < p
              /\ messages[p - i] = <<"assistant", t>>
              /\ \A j \in 1 .. i : messages[p - i + j] = <<"result", t, j>>

CallsAnswered ==
    \A p \in 1 .. Len(messages) : messages[p][1] = "assistant" =>
       LET t == messages[p][2] IN
       turns[t].fate = "whole" =>
          \A i \in 1 .. turns[t].calls :
             IF p + i <= Len(messages)
             THEN messages[p + i] = <<"result", t, i>>
             ELSE t = turn /\ InBatch

(* The transcript names turns there have been.                              *)
Known ==
    \A p \in 1 .. Len(messages) :
       messages[p][1] \in {"assistant", "result"} => messages[p][2] \in 1 .. turn

(* A batch neither aborted, failed nor reset runs all of its calls.         *)
Undisturbed ==
    InBatch /\ turns[turn].fate = "whole" =>
       /\ signal = "live"
       /\ pc \in {"toolWait", "toolResult"} /\ toolMode = "parallel" =>
             next = turns[turn].calls

(* The transcript ends in the response and the results emitted so far.      *)
Trailing ==
    InBatch /\ turns[turn].fate # "forgotten" =>
       /\ Written < Len(messages)
       /\ messages[Len(messages) - Written] = <<"assistant", turn>>
       /\ \A j \in 1 .. Written :
             messages[Len(messages) - Written + j] = Result(j)

RInv == AnswersFollow /\ CallsAnswered /\ Known /\ Trailing

LEMMA MarkFates ==
    ASSUME TypeOK, BatchOK, NEW f \in {"stopped", "forgotten"}, Mark(f)
    PROVE  /\ turn' = turn
           /\ \A t \in 1 .. turn :
                 /\ turns'[t].calls = turns[t].calls
                 /\ turns'[t].fate \in {turns[t].fate, f}
                 /\ turns[t].fate = "forgotten" => turns'[t].fate = "forgotten"
           /\ InBatch => turns'[turn].fate # "whole"
<1>0. turn' = turn
  BY MarkTurns DEF turn
<1>1. CASE InBatch /\ turns[turn].fate # "forgotten"
  <2>1. turns' = [turns EXCEPT ![turn].fate = f]
    BY <1>1 DEF Mark
  <2>2. /\ turns \in Seq([calls : 0 .. MaxCalls,
                          fate : {"whole", "stopped", "forgotten"}])
        /\ turn \in 1 .. Len(turns)
    BY <1>1, TurnInBatch DEF TypeOK, BatchType
  <2>3. turns[turn] \in [calls : 0 .. MaxCalls,
                        fate : {"whole", "stopped", "forgotten"}]
    BY <2>2, ElementType
  <2>4. /\ \A t \in 1 .. turn : t # turn => turns'[t] = turns[t]
        /\ turns'[turn] = [turns[turn] EXCEPT !.fate = f]
    BY <2>1, <2>2 DEF turn
  <2>5. turns'[turn].calls = turns[turn].calls /\ turns'[turn].fate = f
    BY <2>3, <2>4
  <2>6. ASSUME NEW t \in 1 .. turn
        PROVE  /\ turns'[t].calls = turns[t].calls
               /\ turns'[t].fate \in {turns[t].fate, f}
               /\ turns[t].fate = "forgotten" => turns'[t].fate = "forgotten"
    <3>1. CASE t = turn
      BY <1>1, <2>5, <3>1
    <3>2. CASE t # turn
      BY <2>4, <3>2
    <3>. QED  BY <3>1, <3>2
  <2>. QED  BY <1>0, <2>5, <2>6
<1>2. CASE ~(InBatch /\ turns[turn].fate # "forgotten")
  <2>1. turns' = turns
    BY <1>2 DEF Mark
  <2>. QED  BY <1>0, <1>2, <2>1
<1>. QED  BY <1>1, <1>2

LEMMA WrittenType ==
    ASSUME TypeOK, BatchOK
    PROVE  Written \in 0 .. MaxCalls /\ Written <= next /\ Written \in Nat
  BY Bounds DEF TypeOK, BatchType, BatchOK, Written

(* A step that writes nothing and stays in the batch or leaves it disturbed.*)
LEMMA AnswersFrame ==
    ASSUME TypeOK, BatchOK, RInv, messages' = messages, turn' = turn,
           \A t \in 1 .. turn :
              /\ turns'[t].calls = turns[t].calls
              /\ turns'[t].fate \in {turns[t].fate, "stopped"}
              /\ turns[t].fate = "forgotten" => turns'[t].fate = "forgotten",
           InBatch' => InBatch /\ Written' = Written,
           InBatch => InBatch' \/ turns'[turn].fate # "whole"
    PROVE  RInv'
<1>1. \A p \in 1 .. Len(messages) :
         messages[p][1] \in {"assistant", "result"} => messages[p][2] \in 1 .. turn
  BY DEF RInv, Known
<1>2. Known'
  BY <1>1 DEF Known
<1>3. AnswersFollow'
  BY <1>1 DEF RInv, AnswersFollow
<1>4. CallsAnswered'
  <2> SUFFICES ASSUME NEW p \in 1 .. Len(messages),
                      messages[p][1] = "assistant",
                      turns'[messages[p][2]].fate = "whole",
                      NEW i \in 1 .. turns'[messages[p][2]].calls
               PROVE  IF p + i <= Len(messages)
                      THEN messages[p + i] = <<"result", messages[p][2], i>>
                      ELSE messages[p][2] = turn /\ InBatch'
    BY DEF CallsAnswered
  <2>1. /\ messages[p][2] \in 1 .. turn
        /\ turns[messages[p][2]].fate = "whole"
        /\ i \in 1 .. turns[messages[p][2]].calls
    BY <1>1
  <2>2. IF p + i <= Len(messages)
        THEN messages[p + i] = <<"result", messages[p][2], i>>
        ELSE messages[p][2] = turn /\ InBatch
    BY <2>1 DEF RInv, CallsAnswered
  <2>. QED  BY <2>2
<1>5. Trailing'
  <2> SUFFICES ASSUME InBatch', turns'[turn].fate # "forgotten" PROVE Trailing'
    BY DEF Trailing
  <2>1. turns[turn].fate # "forgotten"
    BY TurnInBatch
  <2>2. /\ Written < Len(messages)
        /\ messages[Len(messages) - Written] = <<"assistant", turn>>
        /\ \A j \in 1 .. Written :
              messages[Len(messages) - Written + j] = Result(j)
    BY <2>1 DEF RInv, Trailing
  <2>3. \A j : Result(j)' = Result(j)
    BY DEF Result
  <2>. QED  BY <2>2, <2>3 DEF Trailing
<1>. QED  BY <1>2, <1>3, <1>4, <1>5 DEF RInv

(* Between batches the transcript may grow by anything but a result.        *)
LEMMA AnswersAppend ==
    ASSUME TypeOK, BatchOK, RInv, ~InBatch,
           NEW e \in Entry, messages' = Append(messages, e), e[1] # "result",
           turn' \in Nat, turn <= turn',
           \A t \in 1 .. turn : turns'[t] = turns[t],
           e[1] = "assistant" =>
              /\ e[2] = turn' /\ turn' # 0
              /\ InBatch' \/ turns'[turn'].calls = 0,
           Trailing'
    PROVE  RInv'
<1>0. messages \in Seq(Entry) /\ turn \in Nat
  BY DEF TypeOK, TranscriptType, BatchType, turn
<1>1. /\ Len(messages') = Len(messages) + 1 /\ Len(messages) \in Nat
      /\ \A p \in 1 .. Len(messages) : messages'[p] = messages[p]
      /\ messages'[Len(messages) + 1] = e
  <2>. HIDE DEF Entry
  <2>. QED  BY <1>0, AppendIs
<1>2. \A p \in 1 .. Len(messages) :
         messages[p][1] \in {"assistant", "result"} => messages[p][2] \in 1 .. turn
  BY DEF RInv, Known
<1>3. \A p \in 1 .. Len(messages') :
         p \in 1 .. Len(messages) \/ p = Len(messages) + 1
  BY <1>1
<1>4. Known'
  BY <1>0, <1>1, <1>2, <1>3 DEF Known
<1>5. AnswersFollow'
  <2> SUFFICES ASSUME NEW p \in 1 .. Len(messages'), messages'[p][1] = "result",
                      turns'[messages'[p][2]].fate # "forgotten"
               PROVE  LET t == messages'[p][2]
                          i == messages'[p][3]
                      IN  /\ i <= turns'[t].calls /\ i < p
                          /\ messages'[p - i] = <<"assistant", t>>
                          /\ \A j \in 1 .. i :
                                messages'[p - i + j] = <<"result", t, j>>
    BY DEF AnswersFollow
  <2>1. p \in 1 .. Len(messages) /\ messages'[p] = messages[p]
    BY <1>1, <1>3
  <2> DEFINE t == messages[p][2]
             i == messages[p][3]
  <2>2. t \in 1 .. turn /\ i \in Nat \ {0}
    <3>1. messages[p] \in Entry /\ messages[p][1] = "result"
      BY <1>0, <2>1, ElementType
    <3>2. i \in 1 .. MaxCalls
      BY <3>1 DEF Entry
    <3>. QED  BY <1>2, <2>1, <3>1, <3>2
  <2>3. /\ i <= turns[t].calls /\ i < p
        /\ messages[p - i] = <<"assistant", t>>
        /\ \A j \in 1 .. i : messages[p - i + j] = <<"result", t, j>>
    BY <2>1, <2>2 DEF RInv, AnswersFollow
  <2>4. p - i \in 1 .. Len(messages)
        /\ \A j \in 1 .. i : p - i + j \in 1 .. Len(messages)
    BY SMTT(30), <1>1, <2>1, <2>2, <2>3
  <2>5. messages'[p - i] = <<"assistant", t>>
        /\ \A j \in 1 .. i : messages'[p - i + j] = <<"result", t, j>>
    BY <1>1, <2>3, <2>4
  <2>. QED  BY <2>1, <2>2, <2>3, <2>5
<1>6. CallsAnswered'
  <2> SUFFICES ASSUME NEW p \in 1 .. Len(messages'),
                      messages'[p][1] = "assistant",
                      turns'[messages'[p][2]].fate = "whole",
                      NEW i \in 1 .. turns'[messages'[p][2]].calls
               PROVE  IF p + i <= Len(messages')
                      THEN messages'[p + i] = <<"result", messages'[p][2], i>>
                      ELSE messages'[p][2] = turn' /\ InBatch'
    BY DEF CallsAnswered
  <2>1. CASE p \in 1 .. Len(messages)
    <3>1. /\ messages'[p] = messages[p] /\ messages[p][2] \in 1 .. turn
          /\ turns'[messages[p][2]] = turns[messages[p][2]]
      BY <1>1, <1>2, <2>1
    <3>2. IF p + i <= Len(messages)
          THEN messages[p + i] = <<"result", messages[p][2], i>>
          ELSE messages[p][2] = turn /\ InBatch
      BY <2>1, <3>1 DEF RInv, CallsAnswered
    <3>3. p + i <= Len(messages) /\ messages[p + i] = <<"result", messages[p][2], i>>
      BY <3>2
    <3>4. turns[messages[p][2]].calls \in Nat
      <4>1. /\ turns \in Seq([calls : 0 .. MaxCalls,
                              fate : {"whole", "stopped", "forgotten"}])
            /\ messages[p][2] \in 1 .. Len(turns)
        BY <3>1 DEF TypeOK, BatchType, turn
      <4>2. turns[messages[p][2]] \in
               [calls : 0 .. MaxCalls, fate : {"whole", "stopped", "forgotten"}]
        BY <4>1, ElementType
      <4>. QED  BY <4>2
    <3>5. i \in Nat \ {0}
      BY <3>1, <3>4
    <3>6. p + i \in 1 .. Len(messages) /\ p + i <= Len(messages')
      BY <1>1, <2>1, <3>3, <3>5
    <3>. QED  BY <1>1, <3>1, <3>3, <3>6
  <2>2. CASE p = Len(messages) + 1
    <3>1. messages'[p] = e /\ e[1] = "assistant"
      BY <1>1, <2>2
    <3>2. e[2] = turn' /\ InBatch'
      BY <3>1
    <3>3. turns'[turn'].calls \in Nat => ~(p + i <= Len(messages'))
      BY <1>1, <2>2, <3>1, <3>2
    <3>. QED  BY <1>1, <2>2, <3>1, <3>2, <3>3
  <2>. QED  BY <1>3, <2>1, <2>2
<1>. QED  BY <1>4, <1>5, <1>6 DEF RInv

LEMMA UndisturbedStep ==
    ASSUME TypeOK, BatchOK, Undisturbed, Next PROVE Undisturbed'
<1>0. turn \in Nat /\ turns \in Seq([calls : 0 .. MaxCalls,
                                   fate : {"whole", "stopped", "forgotten"}])
  BY DEF TypeOK, BatchType, turn
<1>1. ASSUME ~InBatch' \/ turns'[turn'].fate # "whole" PROVE Undisturbed'
  BY <1>1 DEF Undisturbed
<1>2. CASE Abort \/ Reset \/ Throw \/ \E i \in 1 .. MaxCalls : ThrowInTool(i)
  <2>1. CASE Throw \/ \E i \in 1 .. MaxCalls : ThrowInTool(i)
    BY <1>1, <2>1 DEF Throw, ThrowInTool, InBatch
  <2>2. CASE Abort
    <3>1. Mark("stopped") /\ pc' = pc
      BY <2>2 DEF Abort
    <3>2. turn' = turn /\ (InBatch => turns'[turn].fate # "whole")
      BY <3>1, MarkFates
    <3>. QED  BY <1>1, <3>1, <3>2 DEF InBatch
  <2>3. CASE Reset
    <3>1. Mark("forgotten") /\ pc' = pc
      BY <2>3 DEF Reset
    <3>2. turn' = turn /\ (InBatch => turns'[turn].fate # "whole")
      BY <3>1, MarkFates
    <3>. QED  BY <1>1, <3>1, <3>2 DEF InBatch
  <2>. QED  BY <1>2, <2>1, <2>2, <2>3
<1>3. CASE \/ Steer \/ FollowUp \/ \E o \in orphans : OrphanEnds(o)
           \/ \E q \in {"steering", "followUp"} :
                 ClearQueue(q) \/ \E m \in {"all", "one-at-a-time"} : SetMode(q, m)
  BY <1>3 DEF Steer, FollowUp, OrphanEnds, ClearQueue, SetMode, agentVars,
     batchVars, Undisturbed, InBatch, turn
<1>4. CASE \/ Prompt \/ ContinueFromSteering \/ ContinueFromFollowUp
           \/ ContinueTranscript
  BY <1>1, <1>4 DEF Prompt, ContinueFromSteering, ContinueFromFollowUp,
     ContinueTranscript, StartRun, InBatch
<1>5. CASE \/ EmitPrompt \/ PollSteering \/ PollFollowUp \/ Inject \/ CallModel
           \/ RespondError \/ EmitAgentEnd \/ EndTurn \/ StopAfterTurn
           \/ FailureMessage \/ EndSequential \/ EndParallel \/ Settle
           \/ FailureThrows
  <2>1. ~InBatch'
    BY <1>5 DEF EmitPrompt, PollSteering, PollFollowUp, Inject, CallModel,
       RespondError, EmitAgentEnd, EndTurn, StopAfterTurn, FailureMessage,
       EndSequential, EndParallel, EndBatch, Settle, FailureThrows, FinishRun,
       InBatch
  <2>. QED  BY <1>1, <2>1
<1>6. ASSUME NEW n \in 0 .. MaxCalls, Respond(n) PROVE Undisturbed'
  <2>1. /\ turns' = Append(turns, [calls |-> n,
                     fate |-> IF signal = "live" THEN "whole" ELSE "stopped"])
        /\ signal' = signal /\ pc' \in {"toolStart", "turnEnd"}
    BY <1>6 DEF Respond
  <2>2. turn' = turn + 1
        /\ turns'[turn + 1].fate = IF signal = "live" THEN "whole" ELSE "stopped"
    BY <1>0, <2>1 DEF turn
  <2>. QED  BY <2>1, <2>2 DEF Undisturbed
<1>7. CASE \/ ToolStart \/ ToolImmediate \/ ToolPrepared \/ NextCall
           \/ EmitResult \/ EmitResults
           \/ \E i \in 1 .. MaxCalls, status \in Finalized : ToolEnds(i, status)
  <2>1. /\ UNCHANGED <<turns, signal, toolMode>> /\ InBatch
        /\ \/ pc' \notin {"toolWait", "toolResult"} \/ toolMode = "sequential"
           \/ next' = next /\ pc \in {"toolWait", "toolResult"}
    BY <1>7 DEF ToolStart, ToolImmediate, ToolPrepared, NextCall, EmitResult,
       EmitResults, ToolEnds, InBatch, agentVars, batchVars
  <2>. QED  BY <2>1 DEF Undisturbed, turn
<1>8. CASE LaunchAll
  <2>1. /\ UNCHANGED <<turns, signal, toolMode, next>> /\ InBatch
        /\ signal = "aborted" \/ next = turns[turn].calls
    BY <1>8 DEF LaunchAll, InBatch, agentVars, lastCall
  <2>. QED  BY <2>1 DEF Undisturbed, turn
<1>. QED
  BY <1>2, <1>3, <1>4, <1>5, <1>6, <1>7, <1>8 DEF Next, Host, Loop

(* The end of a batch that ran undisturbed: every call has its result.      *)
LEMMA BatchComplete ==
    ASSUME TypeOK, BatchOK, RInv, Undisturbed, EndSequential \/ EndParallel
    PROVE  RInv'
<1>0. /\ messages' = messages /\ turns' = turns /\ InBatch /\ ~InBatch'
      /\ messages \in Seq(Entry) /\ Len(messages) \in Nat
  BY DEF EndSequential, EndParallel, EndBatch, InBatch, agentVars, TypeOK,
     TranscriptType
<1>1. turn \in 1 .. Len(turns) /\ turns[turn].calls \in 0 .. MaxCalls
      /\ turns[turn].calls \in Nat
  BY <1>0, TurnInBatch, Bounds
<1>2. turns[turn].fate = "whole" => Written = turns[turn].calls
  <2>1. CASE EndSequential
    BY <1>0, <2>1 DEF EndSequential, Undisturbed, lastCall, Written
  <2>2. CASE EndParallel
    BY <1>0, <2>2 DEF EndParallel, Undisturbed, Written
  <2>. QED  BY <2>1, <2>2
<1>3. turn' = turn
  BY <1>0 DEF turn
<1>4. Known' /\ AnswersFollow' /\ Trailing'
  BY <1>0, <1>3 DEF RInv, Known, AnswersFollow, Trailing
<1>5. CallsAnswered'
  <2> SUFFICES ASSUME NEW p \in 1 .. Len(messages),
                      messages[p][1] = "assistant",
                      turns[messages[p][2]].fate = "whole",
                      NEW i \in 1 .. turns[messages[p][2]].calls
               PROVE  p + i <= Len(messages)
                      /\ messages[p + i] = <<"result", messages[p][2], i>>
    BY <1>0 DEF CallsAnswered
  <2>1. IF p + i <= Len(messages)
        THEN messages[p + i] = <<"result", messages[p][2], i>>
        ELSE messages[p][2] = turn /\ InBatch
    BY DEF RInv, CallsAnswered
  <2> SUFFICES ASSUME ~(p + i <= Len(messages)) PROVE FALSE
    BY <2>1
  <2>2. messages[p][2] = turn
    BY <2>1
  <2> DEFINE k == turns[turn].calls
             a == Len(messages) - k
  <2>3. /\ k < Len(messages) /\ messages[a] = <<"assistant", turn>>
        /\ \A j \in 1 .. k : messages[a + j] = Result(j)
    BY <1>0, <1>2, <2>2 DEF RInv, Trailing
  <2>4. i \in 1 .. k /\ k \in Nat
    BY <1>1, <2>2
  <2>. HIDE DEF k
  <2>5. p - a \in 1 .. k /\ a + (p - a) = p
    <3>1. /\ p \in Nat /\ a \in Nat /\ i \in Nat /\ i <= k
          /\ Len(messages) = a + k /\ p <= Len(messages)
      BY <1>0, <2>3, <2>4
    <3>. HIDE DEF a
    <3>2. p + i > a + k
      BY <3>1
    <3>. QED  BY <2>4, <3>1, <3>2
  <2>6. messages[p] = Result(p - a)
    BY <2>3, <2>5
  <2>. QED  BY <2>6 DEF Result
<1>. QED  BY <1>4, <1>5 DEF RInv

(* A result of the batch enters the transcript.                             *)
LEMMA ResultEntered ==
    ASSUME TypeOK, BatchOK, RInv, InBatch, InBatch', turns' = turns,
           messages' = Append(messages, Result(Written + 1)),
           Written' = Written + 1, Written + 1 <= next
    PROVE  RInv'
<1> DEFINE k == Written
           e == Result(k + 1)
           n == Len(messages)
<1>0. /\ messages \in Seq(Entry) /\ n \in Nat /\ turn' = turn
      /\ next \in 1 .. MaxCalls /\ k \in Nat
      /\ turn \in 1 .. Len(turns) /\ turn \in Nat \ {0}
      /\ turns[turn].calls \in 0 .. MaxCalls /\ next <= turns[turn].calls
  BY SMTT(30), TurnInBatch, WrittenType DEF TypeOK, TranscriptType, BatchType, turn
<1>1. k + 1 \in 1 .. MaxCalls /\ k + 1 <= turns[turn].calls
  BY <1>0, Bounds
<1>2. e \in Entry /\ e[1] = "result" /\ e[2] = turn /\ e[3] = k + 1
  BY <1>0, <1>1, ResultEntry DEF Result
<1>3. messages' = Append(messages, e)
  OBVIOUS
<1>4. /\ Len(messages') = n + 1
      /\ \A p \in 1 .. n : messages'[p] = messages[p]
      /\ messages'[n + 1] = e
  <2>. HIDE DEF e, Entry
  <2>. QED  BY <1>0, <1>2, <1>3, AppendIs
<1>5. \A p \in 1 .. Len(messages') : p \in 1 .. n \/ p = n + 1
  BY <1>0, <1>4
<1>6. \A p \in 1 .. n :
         messages[p][1] \in {"assistant", "result"} => messages[p][2] \in 1 .. turn
  BY DEF RInv, Known
<1>7. \A j : Result(j)' = Result(j)
  BY <1>0 DEF Result
<1>8. turns[turn].fate # "forgotten" =>
         /\ k < n /\ messages[n - k] = <<"assistant", turn>>
         /\ \A j \in 1 .. k : messages[n - k + j] = Result(j)
  BY DEF RInv, Trailing
<1>9. Known'
  BY <1>0, <1>2, <1>4, <1>5, <1>6 DEF Known
<1>10. turns[turn].fate # "forgotten" =>
          /\ k < n /\ messages'[n - k] = <<"assistant", turn>>
          /\ \A j \in 1 .. k + 1 : messages'[n - k + j] = Result(j)
  <2> SUFFICES ASSUME turns[turn].fate # "forgotten"
               PROVE  /\ k < n /\ messages'[n - k] = <<"assistant", turn>>
                      /\ \A j \in 1 .. k + 1 : messages'[n - k + j] = Result(j)
    OBVIOUS
  <2>. HIDE DEF k, n, e
  <2>1. k < n /\ n - k \in 1 .. n
    BY <1>0, <1>8
  <2>2. messages'[n - k] = <<"assistant", turn>>
    BY <1>4, <1>8, <2>1
  <2>3. ASSUME NEW j \in 1 .. k + 1 PROVE messages'[n - k + j] = Result(j)
    <3>1. CASE j \in 1 .. k
      <4>1. n - k + j \in 1 .. n
        BY <1>0, <2>1, <3>1
      <4>. QED  BY <1>4, <1>8, <3>1, <4>1
    <3>2. CASE j = k + 1
      <4>1. n - k + j = n + 1
        BY <1>0, <3>2
      <4>2. messages'[n - k + j] = e
        BY <1>4, <4>1
      <4>3. e = Result(j)
        BY <3>2 DEF e
      <4>. QED  BY <4>2, <4>3
    <3>3. j \in 1 .. k \/ j = k + 1
      BY <1>0
    <3>. QED  BY <3>1, <3>2, <3>3
  <2>. QED  BY <2>1, <2>2, <2>3
<1>11. Trailing'
  <2>1. Len(messages') - Written' = n - k /\ Written' < Len(messages') <=> k < n
    BY <1>0, <1>4
  <2>. QED  BY <1>0, <1>4, <1>7, <1>10, <2>1 DEF Trailing
<1>12. AnswersFollow'
  <2> SUFFICES ASSUME NEW p \in 1 .. Len(messages'), messages'[p][1] = "result",
                      turns[messages'[p][2]].fate # "forgotten"
               PROVE  LET t == messages'[p][2]
                          i == messages'[p][3]
                      IN  /\ i <= turns[t].calls /\ i < p
                          /\ messages'[p - i] = <<"assistant", t>>
                          /\ \A j \in 1 .. i :
                                messages'[p - i + j] = <<"result", t, j>>
    BY DEF AnswersFollow
  <2>1. CASE p \in 1 .. n
    <3> DEFINE t == messages[p][2]
               i == messages[p][3]
    <3>1. messages'[p] = messages[p]
      BY <1>4, <2>1
    <3>2. i \in Nat \ {0}
      <4>1. messages[p] \in Entry /\ messages[p][1] = "result"
        BY <1>0, <2>1, <3>1, ElementType
      <4>2. i \in 1 .. MaxCalls
        BY <4>1 DEF Entry
      <4>. QED  BY <4>2
    <3>3. /\ i <= turns[t].calls /\ i < p
          /\ messages[p - i] = <<"assistant", t>>
          /\ \A j \in 1 .. i : messages[p - i + j] = <<"result", t, j>>
      BY <2>1, <3>1 DEF RInv, AnswersFollow
    <3>. HIDE DEF i, t, n
    <3>4. p - i \in 1 .. n /\ \A j \in 1 .. i : p - i + j \in 1 .. n
      <4>1. p \in Nat /\ n \in Nat /\ p <= n /\ i < p
        BY <1>0, <2>1, <3>3
      <4>. QED  BY <3>2, <4>1, Within
    <3>5. messages'[p - i] = <<"assistant", t>>
          /\ \A j \in 1 .. i : messages'[p - i + j] = <<"result", t, j>>
      BY <1>4, <3>3, <3>4
    <3>. QED  BY <3>1, <3>3, <3>5 DEF i, t
  <2>2. CASE p = n + 1
    <3>1. /\ messages'[p][2] = turn /\ messages'[p][3] = k + 1
          /\ turns[turn].fate # "forgotten"
      BY <1>2, <1>4, <2>2
    <3>2. p - (k + 1) = n - k /\ (k < n => k + 1 < p)
      BY <1>0, <2>2
    <3>3. \A j \in 1 .. k + 1 : messages'[p - (k + 1) + j] = <<"result", turn, j>>
      BY <1>10, <3>1, <3>2 DEF Result
    <3>. QED  BY <1>1, <1>10, <3>1, <3>2, <3>3
  <2>. QED  BY <1>5, <2>1, <2>2
<1>13. CallsAnswered'
  <2> SUFFICES ASSUME NEW p \in 1 .. Len(messages'),
                      messages'[p][1] = "assistant",
                      turns[messages'[p][2]].fate = "whole",
                      NEW i \in 1 .. turns[messages'[p][2]].calls
               PROVE  IF p + i <= Len(messages')
                      THEN messages'[p + i] = <<"result", messages'[p][2], i>>
                      ELSE messages'[p][2] = turn
    BY <1>0 DEF CallsAnswered
  <2>1. p \in 1 .. n /\ messages'[p] = messages[p]
    BY <1>2, <1>4, <1>5
  <2>2. messages[p][2] \in 1 .. turn
    BY <1>6, <2>1
  <2>3. /\ i \in Nat \ {0} /\ turns[messages[p][2]].calls \in Nat
        /\ i <= turns[messages[p][2]].calls
    <3>1. /\ turns \in Seq([calls : 0 .. MaxCalls,
                            fate : {"whole", "stopped", "forgotten"}])
          /\ messages[p][2] \in 1 .. Len(turns)
      BY <2>2 DEF TypeOK, BatchType, turn
    <3>2. turns[messages[p][2]] \in
             [calls : 0 .. MaxCalls, fate : {"whole", "stopped", "forgotten"}]
      BY <3>1, ElementType
    <3>3. turns[messages[p][2]].calls \in Nat
      BY <3>2, Bounds
    <3>. QED  BY <2>1, <3>3
  <2>4. \A h \in 1 .. turns[messages[p][2]].calls :
           IF p + h <= n THEN messages[p + h] = <<"result", messages[p][2], h>>
           ELSE messages[p][2] = turn
    BY <2>1 DEF RInv, CallsAnswered
  <2>5. CASE p + i <= n
    <3>1. p + i \in 1 .. n /\ p + i <= Len(messages')
      <4> DEFINE m == Len(messages')
      <4>1. /\ p \in Nat /\ p >= 1 /\ i \in Nat /\ n \in Nat
            /\ m = n + 1 /\ p + i <= n
        BY <1>0, <1>4, <2>1, <2>3, <2>5
      <4>. HIDE DEF m, n
      <4>2. p + i \in 1 .. n /\ p + i <= m
        BY <4>1
      <4>. QED  BY <4>2 DEF m
    <3>2. messages[p + i] = <<"result", messages[p][2], i>>
      BY <2>1, <2>4, <2>5
    <3>. QED  BY <1>4, <2>1, <3>1, <3>2
  <2>6. CASE p + i > n + 1
    <3>1. messages[p][2] = turn /\ ~(p + i <= Len(messages'))
      BY <1>0, <1>4, <2>1, <2>3, <2>4, <2>6
    <3>. QED  BY <2>1, <3>1
  <2>7. CASE p + i = n + 1
    <3>1. messages[p][2] = turn /\ turns[turn].fate = "whole"
      BY <1>0, <2>1, <2>3, <2>4, <2>7
    <3>2. /\ k < n /\ messages[n - k] = <<"assistant", turn>>
          /\ \A j \in 1 .. k : messages[n - k + j] = Result(j)
      BY <1>8, <3>1
    <3>3. p <= n - k
      <4> SUFFICES ASSUME ~(p <= n - k) PROVE FALSE
        OBVIOUS
      <4>. HIDE DEF k, n, e
      <4>1. p - (n - k) \in 1 .. k /\ n - k + (p - (n - k)) = p
        BY <1>0, <2>1
      <4>2. messages[p] = Result(p - (n - k))
        BY <3>2, <4>1
      <4>. QED  BY <2>1, <4>2 DEF Result
    <3>4. ~(p < n - k)
      <4> SUFFICES ASSUME p < n - k PROVE FALSE
        OBVIOUS
      <4> DEFINE h == (n - k) - p
      <4>0. /\ h \in Nat /\ h >= 1 /\ p + h = n - k /\ p + h <= n /\ h <= i
        <5>1. /\ p \in Nat /\ i \in Nat /\ n \in Nat /\ k \in Nat
              /\ p + i = n + 1
          BY <1>0, <2>1, <2>3, <2>7
        <5>2. p < n - k
          OBVIOUS
        <5>. HIDE DEF k, n, e
        <5>3. /\ (n - k) - p \in Nat /\ (n - k) - p >= 1
              /\ p + ((n - k) - p) = n - k /\ n - k <= n
              /\ (n - k) - p <= i
          BY <5>1, <5>2
        <5>. QED  BY <5>3 DEF h
      <4>. HIDE DEF k, n, e, h
      <4>1. h \in 1 .. turns[messages[p][2]].calls
        BY <2>3, <4>0
      <4>2. messages[n - k] = <<"result", messages[p][2], h>>
        BY <2>4, <4>0, <4>1
      <4>. QED  BY <3>2, <4>2
    <3>5. i = k + 1 /\ p + i <= Len(messages')
      BY <1>0, <1>4, <2>1, <2>3, <2>7, <3>3, <3>4
    <3>. QED  BY <1>4, <2>1, <2>7, <3>1, <3>5 DEF Result
  <2>8. p + i <= n \/ p + i = n + 1 \/ p + i > n + 1
    <3>1. p \in Nat /\ i \in Nat /\ n \in Nat
      BY <1>0, <2>1, <2>3
    <3>. HIDE DEF n
    <3>. QED  BY <3>1
  <2>. QED  BY <2>5, <2>6, <2>7, <2>8
<1>. QED  BY <1>9, <1>11, <1>12, <1>13 DEF RInv

LEMMA AnswersStep ==
    ASSUME TypeOK, BatchOK, RInv, Undisturbed, Next PROVE RInv'
<1>0. /\ turn \in Nat /\ next \in 1 .. MaxCalls /\ emitted \in 0 .. MaxCalls
      /\ toolMode \in {"sequential", "parallel"} /\ MaxCalls \in Nat \ {0}
      /\ turns \in Seq([calls : 0 .. MaxCalls,
                        fate : {"whole", "stopped", "forgotten"}])
      /\ pending \in Seq(1 .. MaxMsgs)
  BY Bounds DEF TypeOK, QueueType, BatchType, turn
(* Nothing is written, no turn is marked.                                   *)
<1>1. ASSUME messages' = messages, turns' = turns,
             InBatch' => InBatch /\ Written' = Written,
             InBatch => InBatch'
      PROVE  RInv'
  <2>1. turn' = turn
    BY <1>1 DEF turn
  <2>. QED  BY <1>1, <2>1, AnswersFrame
<1>2. CASE \/ Steer \/ FollowUp \/ \E o \in orphans : OrphanEnds(o)
           \/ \E q \in {"steering", "followUp"} :
                 ClearQueue(q) \/ \E m \in {"all", "one-at-a-time"} : SetMode(q, m)
  <2>1. /\ UNCHANGED <<messages, turns>>
        /\ UNCHANGED <<pc, toolMode, emitted, next>>
    BY <1>2 DEF Steer, FollowUp, ClearQueue, SetMode, OrphanEnds, agentVars,
       batchVars
  <2>2. Written' = Written /\ InBatch' = InBatch
    BY <2>1 DEF Written, InBatch
  <2>. QED  BY <1>1, <2>1, <2>2
<1>3. CASE \/ Prompt \/ ContinueFromSteering \/ ContinueFromFollowUp
           \/ ContinueTranscript
  <2>1. UNCHANGED <<messages, turns>> /\ pc' = "prompts" /\ activeRun = 0
    BY <1>3 DEF Prompt, ContinueFromSteering, ContinueFromFollowUp,
       ContinueTranscript, StartRun
  <2>2. ~InBatch /\ ~InBatch'
    BY <2>1 DEF BatchOK, InBatch
  <2>. QED  BY <1>1, <2>1, <2>2
<1>4. CASE \/ PollSteering \/ PollFollowUp \/ CallModel \/ EmitAgentEnd
           \/ EndTurn \/ StopAfterTurn \/ Settle \/ FailureThrows
  <2>1. UNCHANGED <<messages, turns>> /\ ~InBatch /\ ~InBatch'
    BY <1>4 DEF PollSteering, PollFollowUp, CallModel, EmitAgentEnd, EndTurn,
       StopAfterTurn, Settle, FailureThrows, FinishRun, InBatch, agentVars
  <2>. QED  BY <1>1, <2>1
<1>5. CASE \/ ToolStart \/ ToolImmediate \/ ToolPrepared \/ LaunchAll
           \/ NextCall
           \/ \E i \in 1 .. MaxCalls, status \in Finalized : ToolEnds(i, status)
  <2>1. /\ UNCHANGED <<messages, turns>> /\ InBatch /\ InBatch'
        /\ UNCHANGED <<toolMode, emitted>>
    BY <1>5 DEF ToolStart, ToolImmediate, ToolPrepared, LaunchAll, NextCall,
       ToolEnds, InBatch, agentVars
  <2>2. toolMode = "sequential" =>
           \/ next' = next /\ pc # "toolNext" /\ pc' # "toolNext"
           \/ next' = next + 1 /\ pc = "toolNext" /\ pc' # "toolNext"
    BY <1>0, <1>5 DEF ToolStart, ToolImmediate, ToolPrepared, LaunchAll,
       NextCall, ToolEnds
  <2>3. Written' = Written
    BY <1>0, <2>1, <2>2 DEF Written
  <2>. QED  BY <1>1, <2>1, <2>3
(* Marked.                                                                  *)
<1>6. CASE Abort
  <2>1. /\ Mark("stopped") /\ messages' = messages
        /\ UNCHANGED <<pc, toolMode, emitted, next>>
    BY <1>6 DEF Abort, batchVars
  <2>2. Written' = Written /\ InBatch' = InBatch
    BY <2>1 DEF Written, InBatch
  <2>. QED  BY <2>1, <2>2, MarkFates, AnswersFrame
<1>7. CASE Throw \/ \E i \in 1 .. MaxCalls : ThrowInTool(i)
  <2>1. Mark("stopped") /\ messages' = messages /\ ~InBatch'
    BY <1>7 DEF Throw, ThrowInTool, InBatch, agentVars
  <2>. QED  BY <2>1, MarkFates, AnswersFrame
<1>8. CASE Reset
  <2>1. Mark("forgotten") /\ messages' = <<>> /\ pc' = pc
    BY <1>8 DEF Reset
  <2>2. turn' = turn /\ (InBatch => turns'[turn].fate = "forgotten")
    BY <2>1, MarkTurns DEF turn
  <2>3. InBatch' = InBatch
    BY <2>1 DEF InBatch
  <2>. QED
    BY <2>1, <2>2, <2>3 DEF RInv, Known, AnswersFollow, CallsAnswered, Trailing
(* Written to.                                                              *)
<1>9. CASE EmitPrompt \/ Inject \/ FailureMessage
  <2>1. PICK e \in Entry : messages' = Append(messages, e)
                           /\ e[1] \notin {"assistant", "result"}
    <3>1. CASE EmitPrompt \/ Inject
      <4>1. /\ pending # <<>>
            /\ messages' = Append(messages, <<"user", Head(pending)>>)
        BY <3>1, Drains
      <4>2. <<"user", Head(pending)>> \in Entry
        BY <1>0, <4>1, HeadTailType, UserEntry
      <4>. QED  BY <4>1, <4>2
    <3>2. CASE FailureMessage
      <4>1. activeRun \in 1 .. MaxRuns
        BY <3>2, Bounds DEF FailureMessage, BatchOK, TypeOK, RunType
      <4>2. <<"failure", activeRun>> \in Entry
        BY <4>1, FailureEntry
      <4>3. messages' = Append(messages, <<"failure", activeRun>>)
        BY <3>2 DEF FailureMessage
      <4>. QED  BY <4>2, <4>3
    <3>. QED  BY <1>9, <3>1, <3>2
  <2>2. turns' = turns /\ ~InBatch /\ ~InBatch'
    BY <1>9 DEF EmitPrompt, Inject, FailureMessage, InBatch
  <2>3. turn' = turn /\ Trailing'
    BY <2>2 DEF turn, Trailing
  <2>. QED  BY <1>0, <2>1, <2>2, <2>3, AnswersAppend
<1>10. CASE RespondError \/ \E n \in 0 .. MaxCalls : Respond(n)
  <2>1. PICK n \in 0 .. MaxCalls, f \in {"whole", "stopped"} :
           /\ turns' = Append(turns, [calls |-> n, fate |-> f])
           /\ n > 0 => InBatch' /\ Written' = 0
           /\ n = 0 => ~InBatch'
    <3>1. CASE RespondError
      <4>1. turns' = Append(turns, [calls |-> 0, fate |-> "stopped"])
        BY <3>1 DEF RespondError
      <4>2. ~InBatch'
        BY <3>1 DEF RespondError, InBatch
      <4>. QED  BY <1>0, <4>1, <4>2
    <3>2. ASSUME NEW n \in 0 .. MaxCalls, Respond(n)
          PROVE  \E f \in {"whole", "stopped"} :
                    /\ turns' = Append(turns, [calls |-> n, fate |-> f])
                    /\ n > 0 => InBatch' /\ Written' = 0
                    /\ n = 0 => ~InBatch'
      <4>1. /\ turns' = Append(turns, [calls |-> n,
                           fate |-> IF signal = "live" THEN "whole" ELSE "stopped"])
            /\ n > 0 => pc' = "toolStart"
            /\ n = 0 => pc' = "turnEnd"
            /\ next' = 1 /\ emitted' = 0
        BY <3>2 DEF Respond
      <4>2. (n > 0 => InBatch' /\ Written' = 0) /\ (n = 0 => ~InBatch')
        BY <4>1 DEF InBatch, Written
      <4>. QED  BY <4>1, <4>2
    <3>. QED  BY <1>10, <3>1, <3>2
  <2>2. messages' = Append(messages, <<"assistant", turn + 1>>) /\ ~InBatch
    BY <1>10 DEF RespondError, Respond, InBatch
  <2> DEFINE r == [calls |-> n, fate |-> f]
             e == <<"assistant", turn + 1>>
  <2>3. r \in [calls : 0 .. MaxCalls, fate : {"whole", "stopped", "forgotten"}]
    OBVIOUS
  <2>4. r.calls = n
    OBVIOUS
  <2>5. turns' = Append(turns, r)
    BY <2>1
  <2>. HIDE DEF r
  <2>6. /\ turn' = turn + 1 /\ turns'[turn + 1] = r
        /\ \A t \in 1 .. turn : turns'[t] = turns[t]
    BY <1>0, <2>3, <2>5 DEF turn
  <2>7. e \in Entry /\ e[1] = "assistant" /\ e[2] = turn + 1
    BY <1>0, AssistantEntry
  <2>8. InBatch' => Written' = 0
    BY <1>0, <2>1
  <2>9. Trailing'
    <3> SUFFICES ASSUME InBatch'
                 PROVE  /\ Written' < Len(messages')
                        /\ messages'[Len(messages') - Written'] = <<"assistant", turn'>>
                        /\ \A j \in 1 .. Written' :
                              messages'[Len(messages') - Written' + j] = Result(j)'
      BY DEF Trailing
    <3>1. Written' = 0
      BY <2>8
    <3>2. messages \in Seq(Entry) /\ messages' = Append(messages, e)
      BY <2>2 DEF TypeOK, TranscriptType
    <3>3. /\ Len(messages') = Len(messages) + 1 /\ Len(messages) \in Nat
          /\ messages'[Len(messages) + 1] = e
      <4>. HIDE DEF e, Entry
      <4>. QED  BY <2>7, <3>2, AppendIs
    <3>. QED  BY <2>6, <3>1, <3>3
  <2>. HIDE DEF e
  <2>10. /\ messages' = Append(messages, e)
         /\ e[1] # "result" /\ turn' \in Nat /\ turn <= turn'
         /\ e[2] = turn' /\ turn' # 0
         /\ InBatch' \/ turns'[turn'].calls = 0
    <3>1. messages' = Append(messages, e)
      BY <2>2 DEF e
    <3>2. n = 0 \/ n > 0
      BY <1>0
    <3>3. InBatch' \/ turns'[turn'].calls = 0
      BY <2>1, <2>4, <2>6, <3>2
    <3>. QED  BY <1>0, <2>6, <2>7, <3>1, <3>3
  <2>. QED  BY <2>2, <2>6, <2>7, <2>9, <2>10, AnswersAppend
<1>11. CASE EmitResult
  <2>1. Written + 1 = next /\ Written' = next
    BY <1>0, <1>11 DEF EmitResult, Written, batchVars
  <2>2. InBatch /\ InBatch' /\ turns' = turns
    BY <1>11 DEF EmitResult, InBatch
  <2>3. messages' = Append(messages, Result(next))
    BY <1>11 DEF EmitResult
  <2>. QED  BY <1>0, <2>1, <2>2, <2>3, ResultEntered
<1>12. CASE EmitResults
  <2>1. Written = emitted /\ Written' = emitted + 1 /\ emitted + 1 <= next
    BY <1>0, <1>12 DEF EmitResults, Written
  <2>2. InBatch /\ InBatch' /\ turns' = turns
    BY <1>12 DEF EmitResults, InBatch
  <2>3. messages' = Append(messages, Result(emitted + 1))
    BY <1>12 DEF EmitResults
  <2>. QED  BY <1>0, <2>1, <2>2, <2>3, ResultEntered
<1>13. CASE EndSequential \/ EndParallel
  BY <1>13, BatchComplete
<1>. QED
  BY <1>2, <1>3, <1>4, <1>5, <1>6, <1>7, <1>8, <1>9, <1>10, <1>11, <1>12,
     <1>13 DEF Next, Host, Loop

(* Tool results follow the response that asked for them, in source order,   *)
(* each once, with nothing in between, whatever order the tools end in; and *)
(* a response whose batch was neither aborted nor failed is followed by the *)
(* results of all of its calls before anything else enters the transcript.  *)
THEOREM ResultsCorrect == Spec => []ResultsAnswerCalls
<1> DEFINE Inv == TypeOK /\ BatchOK /\ Undisturbed /\ RInv
<1>1. Init => Inv
  <2>1. Init => Undisturbed /\ RInv
    BY DEF Init, Undisturbed, InBatch, RInv, Known, AnswersFollow,
       CallsAnswered, Trailing
  <2>. QED  BY <2>1, InitType
<1>2. Inv /\ [Next]_vars => Inv'
  <2> SUFFICES ASSUME Inv, [Next]_vars PROVE Undisturbed' /\ RInv'
    BY TypeStep
  <2>1. CASE UNCHANGED vars
    <3>1. /\ UNCHANGED <<messages, turns, signal>>
          /\ UNCHANGED <<pc, toolMode, emitted, next>>
      BY <2>1 DEF vars, agentVars, batchVars
    <3>2. /\ Written' = Written /\ InBatch' = InBatch /\ turn' = turn
      BY <3>1 DEF Written, InBatch, turn
    <3>3. Undisturbed'
      BY <3>1, <3>2 DEF Undisturbed
    <3>4. RInv'
      BY <3>1, <3>2, AnswersFrame
    <3>. QED  BY <3>3, <3>4
  <2>. QED  BY <2>1, UndisturbedStep, AnswersStep
<1>3. Inv => ResultsAnswerCalls
  BY DEF RInv, AnswersFollow, CallsAnswered, ResultsAnswerCalls
<1>. QED  BY <1>1, <1>2, <1>3, PTL DEF Spec

-----------------------------------------------------------------------------
(* The event stream the loop iterates (EventStream), for every set of       *)
(* iterators and any number of pushes.                                      *)
USE PushBound

(* A consumer stands in the list of waiters at most once.                   *)
WaitersDistinct ==
    \A i, j \in 1 .. Len(waiting) : waiting[i] = waiting[j] => i = j

OpenIsUnsettled == stream = "open" => settledBy = "nothing"

StreamInv == StreamTypeOK /\ EachEventOnce /\ NoLostWakeup /\ WaitersDistinct
               /\ CompletionIsFinal /\ OpenIsUnsettled

-----------------------------------------------------------------------------
LEMMA StreamRange ==
    ASSUME NEW S, NEW w \in Seq(S)
    PROVE  Range(w) = {w[i] : i \in 1 .. Len(w)}
  BY DEF Range

LEMMA HeadTail ==
    ASSUME NEW S, NEW w \in Seq(S), w # <<>>
    PROVE  /\ Head(w) \in S /\ Head(w) = w[1] /\ Len(w) \in Nat \ {0}
           /\ Tail(w) \in Seq(S) /\ Len(Tail(w)) = Len(w) - 1
           /\ \A i \in 1 .. Len(w) - 1 : Tail(w)[i] = w[i + 1]
  OBVIOUS

(* What the first waiter's departure does to the list of waiters.           *)
LEMMA ShiftWaiter ==
    ASSUME NEW S, NEW w \in Seq(S), w # <<>>,
           \A i, j \in 1 .. Len(w) : w[i] = w[j] => i = j
    PROVE  /\ Head(w) \in S /\ Tail(w) \in Seq(S)
           /\ \A i, j \in 1 .. Len(Tail(w)) : Tail(w)[i] = Tail(w)[j] => i = j
           /\ Range(Tail(w)) = Range(w) \ {Head(w)}
<1>1. PICK t : t = Tail(w)
  OBVIOUS
<1>2. /\ t \in Seq(S) /\ Len(w) \in Nat \ {0} /\ Len(t) = Len(w) - 1
      /\ Head(w) = w[1] /\ \A i \in 1 .. Len(w) - 1 : t[i] = w[i + 1]
  BY <1>1
<1>3. \A i, j \in 1 .. Len(t) : t[i] = t[j] => i = j
  BY <1>2
<1>4. /\ Range(w) = {w[i] : i \in 1 .. Len(w)}
      /\ Range(t) = {t[i] : i \in 1 .. Len(t)}
  <2>1. t \in Seq(S)
    BY <1>2
  <2>. QED  BY <2>1, StreamRange
<1>5. ASSUME NEW x \in Range(t) PROVE x \in Range(w) \ {Head(w)}
  <2>1. PICK i \in 1 .. Len(w) - 1 : x = w[i + 1]
    BY <1>2, <1>4, <1>5
  <2>2. i + 1 \in 1 .. Len(w) /\ i + 1 # 1
    BY <1>2
  <2>3. x # w[1]
    BY <1>2, <2>1, <2>2
  <2>. QED  BY <1>2, <1>4, <2>1, <2>2, <2>3
<1>6. ASSUME NEW x \in Range(w), x # Head(w) PROVE x \in Range(t)
  <2>1. PICK i \in 1 .. Len(w) : x = w[i] /\ i # 1
    BY <1>2, <1>4, <1>6
  <2>2. i - 1 \in 1 .. Len(w) - 1 /\ x = t[i - 1]
    BY <1>2, <2>1
  <2>. QED  BY <1>2, <1>4, <2>2
<1>7. Range(t) = Range(w) \ {Head(w)}
  BY <1>5, <1>6
<1>. QED  BY <1>1, <1>2, <1>3, <1>7

(* What a new waiter does to the list.                                      *)
LEMMA AddWaiter ==
    ASSUME NEW S, NEW w \in Seq(S), NEW c \in S, c \notin Range(w),
           \A i, j \in 1 .. Len(w) : w[i] = w[j] => i = j
    PROVE  /\ Append(w, c) \in Seq(S) /\ Append(w, c) # <<>>
           /\ \A i, j \in 1 .. Len(Append(w, c)) :
                 Append(w, c)[i] = Append(w, c)[j] => i = j
           /\ Range(Append(w, c)) = Range(w) \cup {c}
<1> DEFINE v == Append(w, c)
<1>1. /\ v \in Seq(S) /\ Len(w) \in Nat /\ Len(v) = Len(w) + 1 /\ v # <<>>
      /\ v[Len(w) + 1] = c /\ \A i \in 1 .. Len(w) : v[i] = w[i]
  OBVIOUS
<1>2. /\ Range(w) = {w[i] : i \in 1 .. Len(w)}
      /\ Range(v) = {v[i] : i \in 1 .. Len(w) + 1}
  BY <1>1 DEF Range
<1>3. \A i \in 1 .. Len(w) : w[i] # c
  BY <1>2
<1>4. \A i, j \in 1 .. Len(v) : v[i] = v[j] => i = j
  BY <1>1, <1>3
<1>5. ASSUME NEW x \in Range(v) PROVE x \in Range(w) \cup {c}
  <2>1. PICK i \in 1 .. Len(w) + 1 : x = v[i]
    BY <1>2
  <2>. QED  BY <1>1, <1>2, <2>1
<1>6. c \in Range(v)
  <2>1. Len(w) + 1 \in 1 .. Len(w) + 1
    BY <1>1
  <2>. QED  BY <1>1, <1>2, <2>1
<1>7. ASSUME NEW x \in Range(w) PROVE x \in Range(v)
  <2>1. PICK i \in 1 .. Len(w) : x = w[i]
    BY <1>2
  <2>2. i \in 1 .. Len(w) + 1 /\ v[i] = x
    BY <1>1, <2>1
  <2>. QED  BY <1>2, <2>2
<1>. QED  BY <1>1, <1>4, <1>5, <1>6, <1>7

LEMMA InitStream == ASSUME StreamInit PROVE StreamInv
<1>1. StreamTypeOK
  BY DEF StreamInit, StreamTypeOK
<1>2. EachEventOnce
  BY DEF StreamInit, EachEventOnce
<1>3. NoLostWakeup
  BY DEF StreamInit, NoLostWakeup, Range
<1>4. WaitersDistinct /\ CompletionIsFinal /\ OpenIsUnsettled
  BY DEF StreamInit, WaitersDistinct, CompletionIsFinal, OpenIsUnsettled
<1>. QED
  BY <1>1, <1>2, <1>3, <1>4 DEF StreamInv

(* push() to a waiter: by NoLostWakeup the queue is empty, so the new event *)
(* is the next one to hand out.                                             *)
LEMMA StreamHands ==
    ASSUME StreamInv, NEW completes \in BOOLEAN, PushAccepted(completes),
           waiting # <<>>
    PROVE  StreamInv'
<1> DEFINE c == Head(waiting)
           e == accepted + 1
<1>1. /\ offered' = offered + 1 /\ accepted' = e /\ offered < MaxPushes
      /\ queue' = queue /\ queue = <<>> /\ stream = "open"
      /\ waiting' = Tail(waiting)
      /\ delivered' = Append(delivered, [to |-> c, event |-> e])
      /\ consumer' = [consumer EXCEPT ![c] = "busy"]
  BY DEF StreamInv, NoLostWakeup, PushAccepted, Hand
<1>2. \/ UNCHANGED <<stream, completing, settledBy>>
      \/ stream' = "done" /\ completing' = e /\ Resolve("event")
  BY DEF PushAccepted
<1>3. /\ c \in Consumers /\ waiting' \in Seq(Consumers)
      /\ Range(waiting') = Range(waiting) \ {c}
      /\ WaitersDistinct'
  BY <1>1, ShiftWaiter DEF StreamInv, StreamTypeOK, WaitersDistinct
<1>4. /\ accepted \in Nat /\ offered \in Nat /\ accepted <= offered
      /\ e \in 1 .. MaxPushes
  BY <1>1 DEF StreamInv, StreamTypeOK
<1>5. StreamTypeOK'
  <2>1. /\ queue' \in Seq(1 .. MaxPushes) /\ waiting' \in Seq(Consumers)
        /\ consumer' \in [Consumers -> {"busy", "waiting", "finished"}]
    BY <1>1, <1>3 DEF StreamInv, StreamTypeOK
  <2>2. delivered' \in Seq([to : Consumers, event : 1 .. MaxPushes])
    BY <1>1, <1>3, <1>4 DEF StreamInv, StreamTypeOK
  <2>3. offered' \in 0 .. MaxPushes /\ accepted' \in 0 .. offered'
    BY <1>1, <1>4 DEF StreamInv
  <2>4. /\ stream' \in {"open", "done", "ended"}
        /\ settledBy' \in {"nothing", "event", "end"}
    BY <1>2 DEF StreamInv, StreamTypeOK, Resolve
  <2>5. completing' \in 0 .. MaxPushes
    BY <1>2, <1>4 DEF StreamInv, StreamTypeOK
  <2>. QED  BY <2>1, <2>2, <2>3, <2>4, <2>5 DEF StreamTypeOK
<1>6. EachEventOnce'
  <2>1. accepted = Len(delivered) /\ e = Len(delivered) + 1
    BY <1>1 DEF StreamInv, StreamTypeOK, EachEventOnce
  <2>2. /\ Len(delivered') = e /\ delivered'[e].event = e
        /\ \A i \in 1 .. Len(delivered) : delivered'[i] = delivered[i]
    BY <1>1, <2>1 DEF StreamInv, StreamTypeOK
  <2>0. \A i \in 1 .. Len(delivered') : i = e \/ i \in 1 .. Len(delivered)
    BY <1>4, <2>1, <2>2
  <2>3. \A i \in 1 .. Len(delivered') : delivered'[i].event = i
    BY <2>2, <2>0 DEF StreamInv, EachEventOnce
  <2>. QED  BY <1>1, <2>2, <2>3 DEF EachEventOnce
<1>7. NoLostWakeup'
  <2>1. \A k \in Consumers : consumer'[k] = "waiting" <=> k \in Range(waiting')
    BY <1>1, <1>3 DEF StreamInv, StreamTypeOK, NoLostWakeup
  <2>2. queue' = <<>> /\ stream' # "ended"
    BY <1>1, <1>2
  <2>. QED  BY <2>1, <2>2 DEF NoLostWakeup
<1>8. CompletionIsFinal' /\ OpenIsUnsettled'
  BY <1>1, <1>2, <1>4
     DEF StreamInv, CompletionIsFinal, OpenIsUnsettled, Resolve, StreamTypeOK
<1>. QED  BY <1>3, <1>5, <1>6, <1>7, <1>8 DEF StreamInv

(* push() with nobody waiting: the new event goes last in the queue.        *)
LEMMA StreamQueues ==
    ASSUME StreamInv, NEW completes \in BOOLEAN, PushAccepted(completes),
           waiting = <<>>
    PROVE  StreamInv'
<1> DEFINE e == accepted + 1
<1>1. /\ offered' = offered + 1 /\ accepted' = e /\ offered < MaxPushes
      /\ queue' = Append(queue, e) /\ stream = "open"
      /\ UNCHANGED <<waiting, consumer, delivered>>
  BY DEF PushAccepted
<1>2. \/ UNCHANGED <<stream, completing, settledBy>>
      \/ stream' = "done" /\ completing' = e /\ Resolve("event")
  BY DEF PushAccepted
<1>3. /\ accepted \in Nat /\ offered \in Nat /\ accepted <= offered
      /\ e \in 1 .. MaxPushes
  BY <1>1 DEF StreamInv, StreamTypeOK
<1>4. StreamTypeOK'
  <2>1. /\ queue' \in Seq(1 .. MaxPushes) /\ waiting' \in Seq(Consumers)
        /\ consumer' \in [Consumers -> {"busy", "waiting", "finished"}]
        /\ delivered' \in Seq([to : Consumers, event : 1 .. MaxPushes])
    BY <1>1, <1>3 DEF StreamInv, StreamTypeOK
  <2>2. offered' \in 0 .. MaxPushes /\ accepted' \in 0 .. offered'
    BY <1>1, <1>3 DEF StreamInv
  <2>3. /\ stream' \in {"open", "done", "ended"}
        /\ settledBy' \in {"nothing", "event", "end"}
    BY <1>2 DEF StreamInv, StreamTypeOK, Resolve
  <2>4. completing' \in 0 .. MaxPushes
    BY <1>2, <1>3 DEF StreamInv, StreamTypeOK
  <2>. QED  BY <2>1, <2>2, <2>3, <2>4 DEF StreamTypeOK
<1>5. EachEventOnce'
  <2>1. /\ Len(queue') = Len(queue) + 1 /\ queue'[Len(queue) + 1] = e
        /\ \A i \in 1 .. Len(queue) : queue'[i] = queue[i]
        /\ Len(queue) \in Nat /\ Len(delivered) \in Nat
        /\ accepted = Len(delivered) + Len(queue)
    BY <1>1, <1>3 DEF StreamInv, StreamTypeOK, EachEventOnce
  <2>2. \A i \in 1 .. Len(queue') : queue'[i] = Len(delivered) + i
    BY SMTT(30), <2>1 DEF StreamInv, EachEventOnce
  <2>. QED  BY <1>1, <2>1, <2>2 DEF StreamInv, EachEventOnce
<1>6. NoLostWakeup' /\ WaitersDistinct'
  BY <1>1 DEF StreamInv, NoLostWakeup, WaitersDistinct
<1>7. CompletionIsFinal' /\ OpenIsUnsettled'
  BY <1>1, <1>2, <1>3
     DEF StreamInv, CompletionIsFinal, OpenIsUnsettled, Resolve, StreamTypeOK
<1>. QED  BY <1>4, <1>5, <1>6, <1>7 DEF StreamInv

LEMMA StreamTake ==
    ASSUME StreamInv, NEW c \in Consumers, TakeQueued(c)
    PROVE  StreamInv'
<1>1. /\ queue # <<>> /\ queue' = Tail(queue)
      /\ delivered' = Append(delivered, [to |-> c, event |-> Head(queue)])
      /\ UNCHANGED <<waiting, stream, settledBy, offered, accepted,
                     completing, consumer>>
  BY DEF TakeQueued, Hand
<1>2. /\ Head(queue) \in 1 .. MaxPushes /\ Head(queue) = queue[1]
      /\ queue' \in Seq(1 .. MaxPushes) /\ Len(queue) \in Nat \ {0}
      /\ Len(queue') = Len(queue) - 1
      /\ \A i \in 1 .. Len(queue) - 1 : queue'[i] = queue[i + 1]
  <2>1. queue \in Seq(1 .. MaxPushes)
    BY DEF StreamInv, StreamTypeOK
  <2>. QED  BY <1>1, <2>1, HeadTail
<1>3. /\ Len(delivered) \in Nat /\ Len(delivered') = Len(delivered) + 1
      /\ delivered' \in Seq([to : Consumers, event : 1 .. MaxPushes])
      /\ delivered'[Len(delivered) + 1].event = Head(queue)
      /\ \A i \in 1 .. Len(delivered) : delivered'[i] = delivered[i]
  BY <1>1, <1>2 DEF StreamInv, StreamTypeOK
<1>4. StreamTypeOK'
  BY <1>1, <1>2, <1>3 DEF StreamInv, StreamTypeOK
<1>5. EachEventOnce'
  <2>1. /\ accepted = Len(delivered) + Len(queue)
        /\ Head(queue) = Len(delivered) + 1
    BY <1>2 DEF StreamInv, EachEventOnce
  <2>2. \A i \in 1 .. Len(delivered') : delivered'[i].event = i
    BY <1>3, <2>1 DEF StreamInv, EachEventOnce
  <2>3. \A i \in 1 .. Len(queue') : queue'[i] = Len(delivered') + i
    BY <1>2, <1>3 DEF StreamInv, EachEventOnce
  <2>. QED  BY <1>1, <1>2, <1>3, <2>1, <2>2, <2>3 DEF EachEventOnce
<1>6. /\ NoLostWakeup' /\ WaitersDistinct'
      /\ CompletionIsFinal' /\ OpenIsUnsettled'
  BY <1>1
     DEF StreamInv, NoLostWakeup, WaitersDistinct, CompletionIsFinal,
         OpenIsUnsettled
<1>. QED  BY <1>4, <1>5, <1>6 DEF StreamInv

LEMMA StreamEnd ==
    ASSUME StreamInv, NEW withResult \in BOOLEAN, End(withResult)
    PROVE  StreamInv'
<1>1. /\ stream' = "ended" /\ waiting' = <<>>
      /\ UNCHANGED <<queue, offered, accepted, completing, delivered>>
      /\ settledBy' = settledBy \/ Resolve("end")
      /\ consumer' = [c \in Consumers |->
                     IF c \in Range(waiting) THEN "finished" ELSE consumer[c]]
  BY DEF End
<1>2. settledBy' \in {"nothing", "event", "end"}
      /\ (settledBy = "event" => settledBy' = "event")
  BY <1>1 DEF StreamInv, StreamTypeOK, Resolve
<1>3. StreamTypeOK'
  <2>1. consumer' \in [Consumers -> {"busy", "waiting", "finished"}]
    BY <1>1 DEF StreamInv, StreamTypeOK
  <2>2. waiting' \in Seq(Consumers)
    BY <1>1
  <2>. QED  BY <1>1, <1>2, <2>1, <2>2 DEF StreamInv, StreamTypeOK
<1>4. EachEventOnce' /\ CompletionIsFinal' /\ OpenIsUnsettled'
  BY <1>1, <1>2
     DEF StreamInv, EachEventOnce, CompletionIsFinal, OpenIsUnsettled
<1>5. NoLostWakeup' /\ WaitersDistinct'
  <2>1. \A c \in Consumers : consumer'[c] # "waiting"
    BY <1>1 DEF StreamInv, NoLostWakeup
  <2>2. Range(waiting') = {}
    BY <1>1 DEF Range
  <2>. QED  BY <1>1, <2>1, <2>2 DEF NoLostWakeup, WaitersDistinct
<1>. QED  BY <1>3, <1>4, <1>5 DEF StreamInv

LEMMA StreamWait ==
    ASSUME StreamInv, NEW c \in Consumers, Wait(c)
    PROVE  StreamInv'
<1>1. /\ consumer[c] = "busy" /\ queue = <<>> /\ stream = "open"
      /\ waiting' = Append(waiting, c)
      /\ consumer' = [consumer EXCEPT ![c] = "waiting"]
      /\ UNCHANGED <<queue, stream, settledBy, offered, accepted, completing,
                     delivered>>
  BY DEF Wait
<1>2. c \notin Range(waiting) /\ waiting \in Seq(Consumers)
  BY <1>1 DEF StreamInv, StreamTypeOK, NoLostWakeup
<1>3. /\ waiting' \in Seq(Consumers) /\ WaitersDistinct'
      /\ Range(waiting') = Range(waiting) \cup {c}
  BY <1>1, <1>2, AddWaiter DEF StreamInv, WaitersDistinct
<1>4. StreamTypeOK'
  <2>1. consumer' \in [Consumers -> {"busy", "waiting", "finished"}]
    BY <1>1 DEF StreamInv, StreamTypeOK
  <2>. QED  BY <1>1, <1>3, <2>1 DEF StreamInv, StreamTypeOK
<1>5. EachEventOnce' /\ CompletionIsFinal' /\ OpenIsUnsettled'
  BY <1>1 DEF StreamInv, EachEventOnce, CompletionIsFinal, OpenIsUnsettled
<1>6. NoLostWakeup'
  <2>1. \A k \in Consumers : consumer'[k] = "waiting" <=> k \in Range(waiting')
    BY <1>1, <1>3 DEF StreamInv, StreamTypeOK, NoLostWakeup
  <2>. QED  BY <1>1, <2>1 DEF NoLostWakeup
<1>. QED  BY <1>3, <1>4, <1>5, <1>6 DEF StreamInv

LEMMA StreamLeave ==
    ASSUME StreamInv, NEW c \in Consumers, consumer[c] = "busy",
           consumer' = [consumer EXCEPT ![c] = "finished"],
           UNCHANGED <<queue, waiting, stream, settledBy, offered, accepted,
                       completing, delivered>>
    PROVE  StreamInv'
<1>1. StreamTypeOK'
  <2>1. consumer' \in [Consumers -> {"busy", "waiting", "finished"}]
    BY DEF StreamInv, StreamTypeOK
  <2>. QED  BY <2>1 DEF StreamInv, StreamTypeOK
<1>2. /\ EachEventOnce' /\ CompletionIsFinal' /\ OpenIsUnsettled'
      /\ WaitersDistinct'
  BY DEF StreamInv, EachEventOnce, CompletionIsFinal, OpenIsUnsettled,
         WaitersDistinct
<1>3. \A k \in Consumers : consumer'[k] = "waiting" <=> k \in Range(waiting')
  BY DEF StreamInv, StreamTypeOK, NoLostWakeup
<1>. QED  BY <1>1, <1>2, <1>3 DEF StreamInv, NoLostWakeup

-----------------------------------------------------------------------------
LEMMA NextStream == StreamInv /\ [StreamNext]_streamVars => StreamInv'
<1> SUFFICES ASSUME StreamInv, [StreamNext]_streamVars PROVE StreamInv'
  OBVIOUS
<1>1. CASE PushIgnored
  <2>1. /\ offered' = offered + 1 /\ offered < MaxPushes
        /\ UNCHANGED <<queue, waiting, stream, settledBy, accepted, completing,
                       consumer, delivered>>
    BY <1>1 DEF PushIgnored
  <2>2. StreamTypeOK'
    BY <2>1 DEF StreamInv, StreamTypeOK
  <2>. QED  BY <2>1, <2>2
              DEF StreamInv, EachEventOnce, NoLostWakeup, WaitersDistinct,
                  CompletionIsFinal, OpenIsUnsettled
<1>2. ASSUME NEW completes \in BOOLEAN, PushAccepted(completes) PROVE StreamInv'
  BY <1>2, StreamHands, StreamQueues
<1>3. ASSUME NEW withResult \in BOOLEAN, End(withResult) PROVE StreamInv'
  BY <1>3, StreamEnd
<1>4. ASSUME NEW c \in Consumers, TakeQueued(c) PROVE StreamInv'
  BY <1>4, StreamTake
<1>5. ASSUME NEW c \in Consumers, Finish(c) \/ Leave(c) PROVE StreamInv'
  BY <1>5, StreamLeave DEF Finish, Leave
<1>6. ASSUME NEW c \in Consumers, Wait(c) PROVE StreamInv'
  BY <1>6, StreamWait
<1>7. CASE UNCHANGED streamVars
  BY ZenonT(60), <1>7 DEF streamVars, StreamInv, StreamTypeOK, EachEventOnce, NoLostWakeup,
              WaitersDistinct, CompletionIsFinal, OpenIsUnsettled
<1>. QED
  BY <1>1, <1>2, <1>3, <1>4, <1>5, <1>6, <1>7 DEF StreamNext, Ask, EndAny

LEMMA StreamAlways == StreamSpec => []StreamInv
  BY InitStream, NextStream, PTL DEF StreamSpec

(* Every value of the stream's fields has its declared shape.               *)
THEOREM StreamTypes == StreamSpec => []StreamTypeOK
<1>1. StreamInv => StreamTypeOK
  BY DEF StreamInv
<1>. QED  BY <1>1, StreamAlways, PTL

(* push() and the iterators hand every accepted event out exactly once and  *)
(* in order, whoever asks first.                                            *)
THEOREM StreamDelivers == StreamSpec => []EachEventOnce
<1>1. StreamInv => EachEventOnce
  BY DEF StreamInv
<1>. QED  BY <1>1, StreamAlways, PTL

(* No iterator sleeps beside a queued event or on an ended stream.          *)
THEOREM StreamWakes == StreamSpec => []NoLostWakeup
<1>1. StreamInv => NoLostWakeup
  BY DEF StreamInv
<1>. QED  BY <1>1, StreamAlways, PTL

(* The event that completes the stream is its last, and settles result().   *)
THEOREM StreamCompletes == StreamSpec => []CompletionIsFinal
<1>1. StreamInv => CompletionIsFinal
  BY DEF StreamInv
<1>. QED  BY <1>1, StreamAlways, PTL
=============================================================================
