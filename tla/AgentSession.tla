---------------------------- MODULE AgentSession ----------------------------
(***************************************************************************)
(* AgentSession of the coding agent (core/agent-session.ts): what a call   *)
(* of prompt() does around the runs of the agent.  It persists messages as *)
(* the agent emits them, retries errors that may pass after a pause,       *)
(* compacts when the context overflows or nears its limit and goes on, and *)
(* holds back the results of the user's shell commands while a turn is in  *)
(* progress.  The user may queue messages, abort, run shell commands, ask  *)
(* for a compaction, and prompt again, at any moment the host allows it.   *)
(*                                                                         *)
(* The agent loop (module Agent) appears as the stages of a run, steering  *)
(* and follow-up messages as one queue.  A message is its role and how it  *)
(* stopped; the log is one path of the session tree.                       *)
(***************************************************************************)
EXTENDS Naturals, Sequences, FiniteSets

CONSTANTS
    Prompts,            (* calls of prompt()                               *)
    MaxRetries,         (* settings.retry.maxRetries                       *)
    ToolTurns,          (* bound: answers that call tools                  *)
    Budget,             (* bound: a failing or large answer counts 1, what *)
                        (* the user does meanwhile counts 2                *)
    Overlap             (* "yes" if the host prompts during a retry pause  *)

ASSUME SessionAssumption ==
    /\ Prompts \in Nat \ {0}
    /\ {MaxRetries, ToolTurns, Budget} \subseteq Nat
    /\ Overlap \in {"yes", "no"}

VARIABLES
    ctx,            (* agent.state.messages                                *)
    queue,          (* how many messages are queued                        *)
    run,            (* the active run of the agent                         *)
    log,            (* the entries of the session                          *)
    connected,      (* whether the session listens to the agent            *)
    last,           (* _lastAssistantMessage                               *)
    attempt,        (* _retryAttempt                                       *)
    tried,          (* _overflowRecoveryAttempted                          *)
    pending,        (* _pendingBashMessages                                *)
    chain,          (* the calls of prompt()                               *)
    controller,     (* the chain _retryAbortController belongs to, or 0    *)
    manual,         (* the call of compact()                               *)
    done,           (* how often each thing was done                       *)
    missed          (* "yes" once an event found nobody listening          *)

vars == <<ctx, queue, run, log, connected, last, attempt, tried, pending, chain,
          controller, manual, done, missed>>

Chains == 1..Prompts

(* n is the number of compactions there were when an answer began (its     *)
(* timestamp), the number of a shell command, what a compaction keeps.     *)
Msg(role, stop, n) == [role |-> role, stop |-> stop, n |-> n]

User == Msg("user", "none", 0)
None == Msg("none", "none", 0)

(* How an answer stops.  "retry" is an error that may pass, "big" nears    *)
(* the limit of the context, "full" is past it without an error, and       *)
(* "cut" is aborted when it was near the limit.                            *)
Errors == {"retry", "fatal", "overflow"}
Aborted == {"aborted", "cut"}
Stops == Errors \cup Aborted \cup {"stop", "big", "full", "tools"}

IsAnswer(m) == m.role = "assistant"
IsError(m) == IsAnswer(m) /\ m.stop \in Errors

WithoutLastAnswer(s) ==
    IF s # <<>> /\ IsAnswer(s[Len(s)]) THEN SubSeq(s, 1, Len(s) - 1) ELSE s

(* What stands at the places I of s, in its order.                         *)
Only(s, I) ==
    LET from[i \in 0..Len(s)] ==
          IF i = 0 THEN <<>>
          ELSE IF i \in I THEN Append(from[i - 1], s[i]) ELSE from[i - 1]
    IN  from[Len(s)]

LastOf(S) == CHOOSE i \in S : \A j \in S : j <= i

-----------------------------------------------------------------------------

(* The log of the session: compactions, and the context it stands for.     *)
CompactionsIn(l) == {i \in DOMAIN l : l[i].role = "compaction"}

Era == Cardinality(CompactionsIn(log))

Plain(s) == Only(s, {i \in DOMAIN s : s[i].role # "compaction"})

Rebuilt(l) ==
    LET c == LastOf(CompactionsIn(l))
    IN  IF CompactionsIn(l) = {} THEN l
        ELSE <<Msg("summary", "none", 0)>>
               \o Plain(SubSeq(l, l[c].n, c - 1)) \o SubSeq(l, c + 1, Len(l))

(* prepareCompaction: possible unless there is nothing new; what is kept   *)
(* begins at a message that is no tool result, since what the previous     *)
(* compaction kept.                                                        *)
CanCompact == log # <<>> /\ log[Len(log)].role # "compaction"

KeepFrom ==
    LET start == IF CompactionsIn(log) = {} THEN 1 ELSE log[LastOf(CompactionsIn(log))].n
        cuts == {i \in start..Len(log) : log[i].role \in {"user", "assistant", "bash"}}
    IN  IF cuts = {} THEN {start} ELSE cuts

Compacted(keep) == Append(log, Msg("compaction", "none", keep))

-----------------------------------------------------------------------------

(* A new session, or one that was opened again (after an aborted answer    *)
(* near the limit: the first prompt compacts).                             *)
Init ==
    /\ log \in {<<>>, <<User, Msg("assistant", "cut", 0)>>}
    /\ ctx = log /\ queue = 0
    /\ run = [stage |-> "none", aborted |-> "no", era |-> 0, chain |-> 0]
    /\ connected = "yes" /\ last = None /\ attempt = 0 /\ tried = "no"
    /\ pending = <<>>
    /\ chain = [c \in Chains |->
                  [pc |-> "idle", pre |-> "no", why |-> "none", keep |-> 0, msg |-> None]]
    /\ controller = 0
    /\ manual = [pc |-> "none", keep |-> 0]
    /\ done = [steers |-> 0, bashes |-> 0, aborts |-> 0, compacts |-> 0,
               tools |-> 0, failures |-> 0]
    /\ missed = "no"

Spent ==
    done.failures + 2 * (done.steers + done.bashes + done.aborts + done.compacts)

Streaming == run.stage # "none"

(* _handleAgentEvent for the end of messages that the agent has just put   *)
(* into its state x: persisted in l; an answer without error ends the      *)
(* retries, and as a user message allows another recovery from overflow.   *)
Hear(x, l, ms, tried0, attempt0) ==
    LET fine == \E i \in DOMAIN ms : IsAnswer(ms[i]) /\ ~IsError(ms[i])
        user == \E i \in DOMAIN ms : ms[i].role = "user"
    IN  /\ ctx' = x \o ms
        /\ IF connected = "yes"
             THEN /\ log' = l \o ms
                  /\ tried' = IF fine \/ user THEN "no" ELSE tried0
                  /\ attempt' = IF fine THEN 0 ELSE attempt0
                  /\ UNCHANGED missed
             ELSE /\ log' = l /\ tried' = tried0 /\ attempt' = attempt0
                  /\ missed' = IF ms = <<>> THEN missed ELSE "yes"

(* The loop polls the queue: one message at a time.                        *)
Poll == IF queue > 0 THEN <<User>> ELSE <<>>

Polled == queue' = queue - Len(Poll)

CallModel(c) ==
    run' = [stage |-> "calling", aborted |-> "no",
            era |-> Cardinality(CompactionsIn(log')), chain |-> c]

Goto(c, pc, pre) ==
    chain' = [chain EXCEPT ![c] = [@ EXCEPT !.pc = pc, !.pre = pre, !.msg = None,
                                            !.why = "none", !.keep = 0]]

(* Mutant: what was held back is saved, but not put into the context.      *)
EndSavesOnly(c, pc, x, l, t, a) ==
    /\ Hear(x, l \o pending, <<>>, t, a) /\ pending' = <<>>
    /\ Goto(c, pc, "no")
    /\ UNCHANGED <<queue, run>>

(* Mutant: shell results are not flushed.                                  *)
EndUnflushed(c, pc, x, l, t, a) ==
    /\ Hear(x, l, <<>>, t, a)
    /\ Goto(c, pc, "no")
    /\ UNCHANGED <<queue, run, pending>>

(* _flushPendingBashMessages, and the chain ends or goes on to the user's  *)
(* message.                                                                *)
End(c, pc, x, l, t, a) ==
    /\ Hear(x \o pending, l \o pending, <<>>, t, a) /\ pending' = <<>>
    /\ Goto(c, pc, "no")
    /\ UNCHANGED <<queue, run>>

Finish(c, x, l, t, a) ==
    End(c, IF chain[c].pre = "no" THEN "done" ELSE "sending", x, l, t, a)

(* agent.continue: throws during a run, with nothing to go on from, and    *)
(* after an answer unless a queued message follows it.                     *)
CanContinue(x) ==
    ~Streaming /\ x # <<>> /\ (IsAnswer(x[Len(x)]) => queue > 0)

Continue(c, x, l, t, a) ==
    IF ~CanContinue(x) THEN End(c, "failed", x, l, t, a)
    ELSE /\ Hear(x, l, Poll, t, a)
         /\ Polled /\ CallModel(c)
         /\ Goto(c, "running", IF chain[c].pre = "no" THEN "no" ELSE "loop")
         /\ UNCHANGED pending

(* hasQueuedMessages: go on for a queued message; but before the first run *)
(* of a prompt the user's message is next.                                 *)
GoOn(c, x, l, t, a) ==
    IF chain[c].pre # "first" /\ queue > 0
      THEN Continue(c, x, l, t, a) ELSE Finish(c, x, l, t, a)

-----------------------------------------------------------------------------

(* What _checkCompaction finds: an answer from before the last compaction  *)
(* says nothing; after an error the last usage of the context counts.      *)
Need(msg) ==
    LET used == {i \in DOMAIN ctx :
                   IsAnswer(ctx[i]) /\ ctx[i].stop \notin Errors \cup Aborted}
    IN  CASE msg.role = "none" \/ msg.n < Era -> "none"
          [] msg.stop \in {"overflow", "full"} -> "overflow"
          [] msg.stop \in {"big", "cut"} -> "threshold"
          [] msg.stop \in {"retry", "fatal"} /\ used # {} ->
               IF ctx[LastOf(used)].stop \in {"big", "full"} /\ ctx[LastOf(used)].n >= Era
                 THEN "threshold" ELSE "none"
          [] OTHER -> "none"

StartCompaction(c, why) ==
    /\ \E keep \in KeepFrom :
         chain' = [chain EXCEPT ![c] = [@ EXCEPT !.pc = "compacting", !.why = why,
                                                 !.keep = keep, !.msg = None]]
    /\ UNCHANGED <<queue, run, log, pending, missed>>

(* Mutant: the recovery is not noted.                                      *)
CheckUnnoted(c, msg, a) ==
    CASE Need(msg) = "overflow" /\ CanCompact ->
           /\ ctx' = WithoutLastAnswer(ctx) /\ attempt' = a /\ UNCHANGED tried
           /\ StartCompaction(c, "overflow")
      [] Need(msg) = "threshold" /\ CanCompact ->
           /\ attempt' = a /\ UNCHANGED <<ctx, tried>>
           /\ StartCompaction(c, "threshold")
      [] OTHER -> GoOn(c, ctx, log, tried, a)

(* _checkCompaction and the start of _runAutoCompaction: one recovery from *)
(* overflow, then no other.                                                *)
Check(c, msg, a) ==
    CASE Need(msg) = "overflow" /\ tried = "no" /\ CanCompact ->
           /\ ctx' = WithoutLastAnswer(ctx) /\ tried' = "yes" /\ attempt' = a
           /\ StartCompaction(c, "overflow")
      [] Need(msg) = "overflow" /\ tried = "no" /\ ~CanCompact ->
           GoOn(c, WithoutLastAnswer(ctx), log, "yes", a)
      [] Need(msg) = "threshold" /\ CanCompact ->
           /\ attempt' = a /\ UNCHANGED <<ctx, tried>>
           /\ StartCompaction(c, "threshold")
      [] OTHER -> GoOn(c, ctx, log, tried, a)

-----------------------------------------------------------------------------

(* Nothing comes between the end of a run, or of a pause, and what its     *)
(* chain does next, nor into the beginning of a prompt: no other task of   *)
(* the event loop does.                                                    *)
Between == \A c \in Chains : chain[c].pc \notin {"post", "cancelled"}

(* The calls of the user and of the host.                                  *)

Underway(c) == chain[c].pc \notin {"idle", "done", "failed"}

May(what) ==
    /\ Between
    /\ Spent + 2 <= Budget
    /\ done' = [done EXCEPT ![what] = @ + 1]

(* prompt while nothing streams: shell results first, then a check of the  *)
(* last answer in the context, aborted ones included.                      *)
Prompt(c) ==
    /\ Between
    /\ chain[c].pc = "idle" /\ \A d \in Chains : d < c => chain[d].pc # "idle"
    /\ ~Streaming /\ manual.pc = "none"
    /\ \A d \in Chains : Underway(d) => Overlap = "yes" /\ chain[d].pc = "sleeping"
    /\ ctx' = ctx \o pending /\ log' = log \o pending /\ pending' = <<>>
    /\ chain' = [chain EXCEPT ![c] = [@ EXCEPT !.pc = "post", !.pre = "first"]]
    /\ UNCHANGED <<queue, run, connected, last, attempt, tried, controller, manual,
                   done, missed>>

PromptChecks(c) ==
    LET answers == {i \in DOMAIN ctx : IsAnswer(ctx[i])}
    IN  /\ chain[c].pc = "post" /\ chain[c].pre = "first"
        /\ Check(c, IF answers = {} THEN None ELSE ctx[LastOf(answers)], attempt)
        /\ UNCHANGED <<connected, last, controller, manual, done>>

(* The extensions have seen the message; agent.prompt throws when there is *)
(* a run by now.                                                           *)
Send(c) ==
    /\ Between /\ chain[c].pc = "sending"
    /\ IF Streaming THEN End(c, "failed", ctx, log, tried, attempt)
       ELSE /\ Hear(ctx, log, <<User>> \o Poll, tried, attempt)
            /\ Polled /\ CallModel(c) /\ Goto(c, "running", "no")
            /\ UNCHANGED pending
    /\ UNCHANGED <<connected, last, controller, manual, done>>

(* steer and followUp, while something is under way.                       *)
Steer ==
    /\ May("steers") /\ \E c \in Chains : Underway(c)
    /\ queue' = queue + 1
    /\ UNCHANGED <<ctx, run, log, connected, last, attempt, tried, pending, chain,
                   controller, manual, missed>>

(* Mutant: a shell result always goes into the context at once.            *)
RecordBashAtOnce ==
    LET m == Msg("bash", "none", done.bashes)
    IN  /\ May("bashes")
        /\ ctx' = Append(ctx, m) /\ log' = Append(log, m)
        /\ UNCHANGED <<queue, run, connected, last, attempt, tried, pending, chain,
                       controller, manual, missed>>

RecordBash ==
    LET m == Msg("bash", "none", done.bashes)
    IN  /\ May("bashes")
        /\ IF Streaming
             THEN pending' = Append(pending, m) /\ UNCHANGED <<ctx, log>>
             ELSE /\ ctx' = Append(ctx, m) /\ log' = Append(log, m)
                  /\ UNCHANGED pending
        /\ UNCHANGED <<queue, run, connected, last, attempt, tried, chain,
                       controller, manual, missed>>

(* abortRetry and agent.abort: the pause is cancelled, the run is told to  *)
(* stop; a compaction goes on.                                             *)
Stop ==
    /\ chain' = IF controller = 0 THEN chain
                ELSE [chain EXCEPT ![controller].pc = "cancelled"]
    /\ controller' = 0
    /\ run' = IF Streaming THEN [run EXCEPT !.aborted = "yes"] ELSE run

Abort ==
    /\ May("aborts")
    /\ \E c \in Chains : Underway(c)
    /\ Stop
    /\ UNCHANGED <<ctx, queue, log, connected, last, attempt, tried, pending,
                   manual, missed>>

(* compact: stop listening, stop the agent and wait until it is idle.      *)
Compact ==
    /\ May("compacts")
    /\ manual.pc = "none"
    /\ connected' = "no" /\ Stop
    /\ manual' = [pc |-> IF Streaming THEN "waiting" ELSE "ready", keep |-> 0]
    /\ UNCHANGED <<ctx, queue, log, last, attempt, tried, pending, missed>>

CompactBegins ==
    /\ manual.pc = "ready"
    /\ IF CanCompact
         THEN /\ \E keep \in KeepFrom : manual' = [pc |-> "summarising", keep |-> keep]
              /\ UNCHANGED connected
         ELSE manual' = [pc |-> "none", keep |-> 0] /\ connected' = "yes"
    /\ UNCHANGED <<ctx, queue, run, log, last, attempt, tried, pending, chain,
                   controller, done, missed>>

(* It fails or is cancelled, or it succeeds; it listens again.             *)
CompactEnds ==
    /\ Between /\ manual.pc = "summarising"
    /\ \/ UNCHANGED <<log, ctx>>
       \/ log' = Compacted(manual.keep) /\ ctx' = Rebuilt(log')
    /\ manual' = [pc |-> "none", keep |-> 0] /\ connected' = "yes"
    /\ UNCHANGED <<queue, run, last, attempt, tried, pending, chain, controller,
                   done, missed>>

-----------------------------------------------------------------------------

(* The run of the agent.                                                   *)

(* (Only a prompt still to come tells "cut" from "aborted".)               *)
Respond ==
    /\ Between /\ run.stage = "calling"
    /\ \E stop \in Stops :
         LET m == Msg("assistant", stop, run.era)
             more == stop \in {"stop", "big", "full"} /\ queue > 0
         IN  /\ (run.aborted = "yes") <=> (stop \in Aborted)
             /\ stop = "cut" => \E c \in Chains : chain[c].pc = "idle"
             /\ stop = "tools" => done.tools < ToolTurns
             /\ stop \notin {"stop", "tools", "aborted"} => Spent < Budget
             /\ done' = CASE stop = "tools" -> [done EXCEPT !.tools = @ + 1]
                          [] stop \in {"stop", "aborted"} -> done
                          [] OTHER -> [done EXCEPT !.failures = @ + 1]
             /\ Hear(ctx, log, <<m>> \o (IF more THEN Poll ELSE <<>>), tried, attempt)
             /\ last' = IF connected = "yes" THEN m ELSE last
             /\ queue' = IF more THEN queue - 1 ELSE queue
             /\ run' = [run EXCEPT !.stage = IF stop = "tools" THEN "tools"
                                             ELSE IF more THEN "calling" ELSE "ending"]
    /\ UNCHANGED <<connected, pending, chain, controller, manual>>

FinishTools ==
    /\ Between /\ run.stage = "tools"
    /\ Hear(ctx, log, <<Msg("result", "none", 0)>> \o Poll, tried, attempt)
    /\ Polled
    /\ run' = [run EXCEPT !.stage = "calling", !.era = Era]
    /\ UNCHANGED <<connected, last, pending, chain, controller, manual, done>>

(* Mutant: nobody who waits is told.                                       *)
EndRunUntold ==
    /\ run.stage = "ending"
    /\ run' = [stage |-> "none", aborted |-> "no", era |-> 0, chain |-> 0]
    /\ chain' = [chain EXCEPT ![run.chain].pc = "post"]
    /\ UNCHANGED <<ctx, queue, log, connected, last, attempt, tried, pending,
                   controller, manual, done, missed>>

(* The listeners of agent_end have settled; who waited for the run goes on.*)
EndRun ==
    /\ Between /\ run.stage = "ending"
    /\ run' = [stage |-> "none", aborted |-> "no", era |-> 0, chain |-> 0]
    /\ chain' = [chain EXCEPT ![run.chain].pc = "post"]
    /\ manual' = IF manual.pc = "waiting" THEN [manual EXCEPT !.pc = "ready"] ELSE manual
    /\ UNCHANGED <<ctx, queue, log, connected, last, attempt, tried, pending,
                   controller, done, missed>>

-----------------------------------------------------------------------------

(* The chain of a prompt between the runs.                                 *)

(* _prepareRetry: the error leaves the context, then a pause.              *)
Retry(c) ==
    /\ attempt < MaxRetries
    /\ attempt' = attempt + 1
    /\ ctx' = WithoutLastAnswer(ctx)
    /\ chain' = [chain EXCEPT ![c].pc = "sleeping", ![c].msg = last]
    /\ controller' = c
    /\ UNCHANGED <<queue, run, log, tried, pending, missed>>

(* _handlePostAgentRun.  An aborted answer is not checked here.            *)
PostRun(c) ==
    /\ chain[c].pc = "post" /\ chain[c].pre # "first"
    /\ last' = None
    /\ \/ /\ last = None
          /\ Finish(c, ctx, log, tried, attempt)
          /\ UNCHANGED controller
       \/ last # None /\ last.stop = "retry" /\ Retry(c)
       \/ /\ last # None /\ ~(last.stop = "retry" /\ attempt < MaxRetries)
          /\ Check(c, IF last.stop \in Aborted THEN None ELSE last,
                   IF IsError(last) THEN 0 ELSE attempt)
          /\ UNCHANGED controller
    /\ UNCHANGED <<connected, manual, done>>

SleepEnds(c) ==
    /\ Between /\ chain[c].pc = "sleeping"
    /\ Continue(c, ctx, log, tried, attempt)
    /\ controller' = 0
    /\ UNCHANGED <<connected, last, manual, done>>

RetryCancelled(c) ==
    /\ chain[c].pc = "cancelled"
    /\ Check(c, chain[c].msg, 0)
    /\ UNCHANGED <<connected, last, controller, manual, done>>

(* The end of _runAutoCompaction.  After an overflow a trailing error is   *)
(* taken out of the rebuilt context, and the agent is to go on; else it    *)
(* goes on for queued messages.                                            *)
CompactionSucceeds(c) ==
    LET why == chain[c].why
        l == Compacted(chain[c].keep)
        x == Rebuilt(l)
        trailing == why = "overflow" /\ IsError(x[Len(x)])
        y == IF trailing THEN WithoutLastAnswer(x) ELSE x
    IN  /\ Between /\ chain[c].pc = "compacting"
        /\ IF why = "overflow" \/ queue > 0
             THEN Continue(c, y, l, tried, attempt)
             ELSE GoOn(c, y, l, tried, attempt)
        /\ UNCHANGED <<connected, last, controller, manual, done>>

(* No summary: an error, or cancelled.                                     *)
CompactionFails(c) ==
    /\ Between /\ chain[c].pc = "compacting"
    /\ GoOn(c, ctx, log, tried, attempt)
    /\ UNCHANGED <<connected, last, controller, manual, done>>

-----------------------------------------------------------------------------

System ==
    \/ Respond \/ FinishTools \/ EndRun \/ CompactBegins \/ CompactEnds
    \/ \E c \in Chains :
         \/ PromptChecks(c) \/ Send(c) \/ PostRun(c) \/ SleepEnds(c) \/ RetryCancelled(c)
         \/ CompactionFails(c) \/ CompactionSucceeds(c)

Next ==
    \/ System
    \/ Steer \/ RecordBash \/ Abort \/ Compact
    \/ \E c \in Chains : Prompt(c)

Spec == Init /\ [][Next]_vars

(* What has begun goes on: the model answers or fails, tools and pauses    *)
(* end, summaries are made or fail.                                        *)
FairSpec == Spec /\ WF_vars(System)

-----------------------------------------------------------------------------

(* Types, and which parts go together: a run belongs to a chain that waits *)
(* for it, the pause that abortRetry would cancel to a sleeping one, and   *)
(* the session listens unless compact() is at work.                        *)
Message == [role : {"none", "user", "assistant", "result", "bash", "compaction",
                    "summary"},
            stop : Stops \cup {"none"}, n : Nat]

Run == [stage : {"none", "calling", "tools", "ending"}, aborted : {"yes", "no"},
        era : Nat, chain : 0..Prompts]

Chain == [pc : {"idle", "post", "sending", "running", "sleeping", "cancelled",
                "compacting", "done", "failed"},
          pre : {"no", "first", "loop"}, why : {"none", "overflow", "threshold"},
          keep : Nat, msg : Message]

TypeOK ==
    /\ queue \in Nat /\ attempt \in 0..MaxRetries
    /\ {connected, tried, missed} \subseteq {"yes", "no"}
    /\ log \in Seq(Message) /\ last \in Message
    /\ pending \in Seq({m \in Message : m.role = "bash"})
    /\ run \in Run /\ chain \in [Chains -> Chain]
    /\ controller \in 0..Prompts
    /\ manual \in [pc : {"none", "waiting", "ready", "summarising"}, keep : Nat]
    /\ done \in [{"steers", "bashes", "aborts", "compacts", "tools", "failures"} -> Nat]
    /\ \A c \in Chains : (chain[c].pc = "running") <=> (Streaming /\ run.chain = c)
    /\ Streaming => run.chain \in Chains
    /\ controller # 0 => chain[controller].pc = "sleeping"
    /\ (connected = "no") <=> (manual.pc # "none")

(* The model is not called for ever on errors: since the last user message *)
(* or answer without error there are at most MaxRetries + 1 errors before  *)
(* a recovery from overflow, and as many after it.  The count of attempts, *)
(* the flag of the recovery, and what resets either of them must agree.    *)
(* (Not so when compact() stopped listening before the user's message was  *)
(* sent: the session never hears it, and goes on counting.)                *)
EndsRow(m) == m.role = "user" \/ (IsAnswer(m) /\ ~IsError(m))

FailuresInRow(l) ==
    {i \in DOMAIN l : IsError(l[i]) /\ \A j \in DOMAIN l : EndsRow(l[j]) => j < i}

AttemptsBounded ==
    missed = "no" => Cardinality(FailuresInRow(log)) <= 2 * (MaxRetries + 1)

(* In the session and in the context a tool result directly follows its    *)
(* call, whatever shell commands end in between ("defer adding to avoid    *)
(* breaking tool_use/tool_result ordering"); for a run nobody stopped      *)
(* listening to.                                                           *)
ResultsFollowCalls ==
    missed = "no" =>
        \A s \in {log, ctx} : \A i \in DOMAIN s :
            s[i].role = "result" => i > 1 /\ s[i - 1].stop = "tools"

(* The result of a shell command is in the session exactly once, or is     *)
(* held back; and nothing is held back when all prompts have ended.        *)
BashKept ==
    LET recorded == {i \in DOMAIN log : log[i].role = "bash"}
    IN  /\ Cardinality(recorded) + Len(pending) = done.bashes
        /\ (\A c \in Chains : ~Underway(c)) => pending = <<>>

(* What the model is sent and what a reload of the session would give are  *)
(* the same, but for the errors taken out to retry and the answers taken   *)
(* out to recover from overflow, as long as every event was heard.         *)
Kept(s) == Only(s, {i \in DOMAIN s : ~IsError(s[i]) /\ s[i].stop # "full"})

ContextIsSession == missed = "no" => Kept(ctx) = Kept(Rebuilt(log))

(* When all prompts have ended no retry is counted any more: the next      *)
(* prompt has all its attempts, and the pause that was announced was also  *)
(* announced to have ended.  (Not so when compact() was called in between: *)
(* its end is not heard, or the agent cannot continue.)                    *)
RetrySettles ==
    done.compacts = 0 /\ (\A c \in Chains : ~Underway(c)) => attempt = 0

(* Every prompt ends, with an error at worst, and so does compact(), which *)
(* waits for the run it aborts: however pauses, compactions, queued        *)
(* messages and aborted runs follow each other, nobody waits for ever.     *)
EverythingEnds ==
    /\ \A c \in Chains : chain[c].pc # "idle" ~> chain[c].pc \in {"done", "failed"}
    /\ manual.pc # "none" ~> manual.pc = "none"

(* A prompt does not fail of itself, as it does when it wants to go on and *)
(* the agent cannot.                                                       *)
NeverFails == \A c \in Chains : chain[c].pc # "failed"

(* After a successful recovery from overflow the agent goes on.            *)
OverflowIsRetried ==
    [][\A c \in Chains :
          chain[c].why = "overflow" /\ CompactionSucceeds(c) => chain'[c].pc = "running"]_vars

(* While compact() makes its summary the agent is idle.                    *)
CompactAlone == manual.pc = "summarising" => ~Streaming

(* Shell results are in the session in the order of the commands.          *)
BashInOrder ==
    \A i, j \in DOMAIN log :
        i < j /\ log[i].role = "bash" /\ log[j].role = "bash" => log[i].n < log[j].n

=============================================================================
