# Pi-Speech: TLA+ models, model checking and proofs

Pi-Speech is a terminal coding agent (packages `ai`, `agent`, `coding-agent`,
`tui`) that can be dictated to and that speaks its answers. This directory
holds TLA+ modules of its concurrent core, the TLC configurations that check
them on small instances, and TLAPS proofs for every value of the constants.

The code is one JavaScript event loop with asynchronous functions, plus child
processes (a Python speech worker, the TextStream transcription server) and
HTTP. What is hard in it is therefore never two threads in one statement; it is
what happens *between two awaits*: other callbacks, other calls by the host, a
worker's exit, an answer to an earlier request. **In every module one action is
the code between two awaits** (or one step of an external process), and every
call the host may make meanwhile is an action of its own.

## 1. The system

| Part | State it keeps | Operations | Talks to |
| --- | --- | --- | --- |
| Event stream, `ai/src/utils/event-stream.ts` | queue, waiting iterators, done flag, result promise | push, end, iterate, result | providers push; the agent loop iterates |
| Agent, `agent/src/agent.ts` | transcript, two queues, active run and signal, pending tool calls, streaming flag | prompt, continue, steer, followUp, clear, abort, reset | calls the loop, processes its events, awaits its listeners |
| Agent loop, `agent/src/agent-loop.ts` | context, pending messages, the batch in hand | turns, tool batches | polls the agent's queues, emits events to it |
| Agent harness, `agent/src/harness/agent-harness.ts` | phase, run promise, abort controller, put-off writes, three queues | prompt, skill, template, compact, navigateTree, setters, abort, waitForIdle | runs the loop, appends to the session |
| Session, `coding-agent/src/core/session-manager.ts` (and `agent/src/harness/session/`) | tree of entries, leaf, a JSONL file, whether the file has everything | append, branch, compact, fork, load | file system |
| Agent session, `core/agent-session.ts`, and its runtime | retry and overflow state, queued shell results, whether it listens to the agent | prompt, steer, abort, compact, record a shell result | agent, session manager |
| Speech output, `services/tts.ts`, `whisper_bot/tts_worker.py` | promise chain, one worker, one slot for a promise | flush, speak, stop, set voice | a worker process over pipes |
| Dictation, `services/stt.ts`, `services/textstream-client.ts` | state, buffers, event stream, server process | press of the key, `/stt off` | the TextStream server over HTTP |
| Server life cycle, `services/textstream-client.ts` | state, process, crash count, event stream | start, stop, restart, resume, pause | the TextStream server, a child process |
| Credentials, `core/auth-storage.ts` (and settings) | a file shared by processes, a copy in each | read-merge-write under a lock, token refresh | file locks, the provider |
| RPC, terminal input, UI, providers, tools, extensions | see PROJECT.json | | |

**Interactions.** A provider pushes events into an *event stream*; the *loop*
iterates it, builds a context and emits events; the *agent* (or the *harness*)
processes each event and awaits its listeners, so that a slow listener delays
the loop and a listener that throws fails the run. The interactive mode listens:
it feeds sentences to *speech output* and submits the text of *dictation* as a
prompt. A press of the dictation key stops speech. The *agent session* listens
to the agent, persists each message through the *session manager*, and starts
the next run itself: after an error that may pass, after a compaction, or for
what was queued meanwhile. Each request to a model asks *credentials* for a key.

**What makes each part correct**, and where it is hard:

* *Event stream*: each event once, in order; nobody sleeps while there is
  something to take; the result is settled once. Hard: several iterators, end
  while they wait, events after completion.
* *Agent and loop*: messages of the host are never lost, doubled or reordered;
  each tool call gets one result, in source order, next to its response; what
  the UI is shown as running is running; a run always settles. Hard: abort and
  reset at any await, parallel tools, listeners that throw.
* *Harness*: a session write that is put off is persisted once, between turns,
  and before the operation is over; queued messages are kept; abort reaches the
  run. Hard: the phase is idle before the operation has returned, hooks fail.
* *Speech*: an answer belongs to the sentence that waits; the chain never
  stops. Hard: callbacks of a dead worker act on its successor.
* *Dictation*: the microphone is open only while that is shown; the text holds
  the words of this recording, once. Hard: presses overtake requests.
* *Server life cycle*: what is shown is so, a death is noticed, every call ends.
  Hard: the exit of the process, the broken stream, a stop and a start all act
  on the same few fields, and each may come during any other.
* *Session*: what was appended is found again; every context can be sent.
  Hard: a file that is created late, writes of several lines that are
  interrupted, forks and compactions of what was forked and compacted.
* *Agent session*: errors are retried a bounded number of times, nothing the
  user does meanwhile is lost or comes between a call and its result. Hard: the
  retry count, the overflow flag and the compactions reset one another.
* *Credentials*: a refresh token is used once, no change is lost. Hard: the
  synchronous and the asynchronous lock, processes that end while they hold it.

The complete list of hazards, with their lines and the properties that cover
them, is in PROJECT.json.

## 2. The modules

| Module | Models | Checked by | Proved in |
| --- | --- | --- | --- |
| `EventStream` | event stream | `MCEventStream` | `Agent_proofs` (last part) |
| `Agent` | Agent and the loop it runs | `MCAgent` | `Agent_proofs` |
| `Harness` | AgentHarness over the loop as it sees it | `MCHarness` | `Harness_proofs` |
| `TTS` | speech chain, TTSService, workers | `MCTTS` | `TTS_proofs` |
| `Dictation` | key handler, STTService, resume/pause/drain, server | `MCDictation` | `Dictation_proofs` |
| `TextStreamClient` | life cycle of the server in its client | `MCTextStreamClient` | `TextStreamClient_proofs` |
| `SessionEntries` | entries, paths, contexts, cuts, forks (operators only) | through `SessionFile` | `SessionFile_proofs` |
| `SessionTree` | the append-only tree a session promises (abstract) | as a property of `SessionFile` | `SessionFile_proofs` |
| `SessionFile` | SessionManager, its file, crashes and failing writes | `MCSessionFile` | `SessionFile_proofs` |
| `AgentSession` | the chain of runs, retries and compactions of a prompt | `MCAgentSession` | `AgentSession_proofs` |
| `Credentials` | auth.json, its locks and the refresh of tokens | `MCCredentials` | `Credentials_proofs` |

The `MC` modules extend the module and TLC; every bound is given in the `.cfg`.
Operators whose comment begins with "Mutant" are plausible bugs, kept next to
the definition they replace; the `mutants` of PROJECT.json name the property
each of them breaks.

### EventStream

Events are numbered as accepted. `queue`, `waiting` and `status` are the fields
of the class; `settledBy` is the promise of `result()`. `PushIgnored` and
`PushAccepted` are the two paths of `push`, `End` is `end` with or without a
result, `TakeQueued`, `Finish` and `Wait` are the three branches of the
iterator, `Ask` its `next`, `Leave` the `return` of a consumer that stops early
(the loop returns from inside its `for await`). `delivered` is a history of
what was handed to whom.

### Agent

`pc` is the await at which the active run stands:

```
prompts -> (poll) inject -> responding -> toolStart -> toolPrepare
   toolPrepare -> toolWait | toolResult | toolNext -> ... -> turnEnd
   turnEnd -> poll | agentEnd;  poll -> inject | pollFollowUp
   pollFollowUp -> inject | settling;   any await -> failing -> failed -> idle
```

Transcript entries are `<<"user", m>>`, `<<"assistant", t>>`, `<<"result", t,
i>>` and `<<"failure", r>>`, which keeps exactly what the properties tell
apart. The listeners are the awaits: `Throw` may happen wherever one is
awaited. `orphans` are parallel tools that still run after `Promise.all` has
rejected; `OrphanEnds` is their `tool_execution_end`.

### Harness

`op[r]` is the async function of operation `r` and several may be active, since
`phase` is idle from `agent_end` on, before the operation's `finally` has run.
`Take`/`Notified`/`NotifyFails` are `drainQueuedMessages` (splice, await the
listeners, put back), `FlushFirst`/`FlushNext` are one turn of the loop of
`flushPendingSessionWrites`, which reads the first write, awaits its append,
then shifts. The loop is what the harness sees of `Agent`: prompts, drains,
response, results, turn end. `Host = "serial"` awaits each call before the
next, `"eager"` starts whenever `phase` allows it, as a listener of `settled`
can.

### TTS

`link` is where the link of `ttsSpeakChain` in hand stands, `worker` and `slot`
are `this.worker` and the pair `pendingResolve`/`pendingReject`. A worker is
unborn, starting, ready, dead (the process is gone), exited (`exitCode` is set)
or closed ("close" was delivered); a dead worker's pipes are still read, and
callbacks act on the current worker and slot, as the closures in the code do.
`SlowStart` assumes that loading a voice (seconds) takes longer than the pipes
of a dead process take to close (milliseconds).

### Dictation

`at[k]` is where the handler of press `k` stands: resuming, or pausing,
draining, drained, parsing or emitting. Words are numbered as spoken. The
server is external: it hears words while its microphone is open, finalizes them
from the front, and broadcasts each change. Two history variables tell apart what
the code makes no provision for: `overtaken` becomes "yes" with a press that comes
while another is worked on, `late` when the server finalizes words after the drain
that follows their capture. Both happen in the run; two of the properties are
stated until then.

### TextStreamClient

A task is one asynchronous call, or the handling of one drop; `pc` is the await
at which it stands and `todo` what follows the return of the call it is in
(`restart` is `stop` with `<<"start">>` to do). `Settled` is the microtask rule
of the event loop: what follows a return runs before the next event. `process`
is `this.process`, whatever process that is; `server` is the truth about each
process, of which number 0 was on the port before the program. `conn` is the
event stream with its abort controller. `Dictation` models what is heard
through that stream while the server is up; the two share `resume` and `pause`,
seen from either side.

### SessionEntries, SessionTree, SessionFile

`SessionEntries` holds the pure part: `Path` is `getBranch`, `Context` is
`buildSessionContext`, `CutPoint` is `findCutPoint`, `Branched` is the list of
entries `createBranchedSession` makes. `Weight` is `estimateTokens` of a message,
any number: the message that passes the budget is kept whole, as in the code.
`SessionFile` is the object and its file: `entries`, `leaf` and `flushed` are fields
of the class, `file` its lines, `task` a write of several lines that may be cut off
after each of them. `Fork` and `Open` are the two ways a file is read again. A
compaction is two actions, since the session awaits hooks and the summary in
between: `PrepareCompaction` chooses what is kept, for the leaf of then,
`AppendCompaction` puts it after the leaf of now, and `prepared` holds those that are
awaited. `astray` becomes "yes" with a compaction that is put on another branch
than the one it was prepared for. `SessionTree` is what the type promises,
without file, flag or lines, and `Tree == INSTANCE SessionTree WITH ...` maps the
one to the other: the tree of a running process is its memory, but during the
write that creates the file it is what was there before the entry that causes
it, and during a fork the session that is left. The process that is down stands
for what would be loaded. So `ImplementsTree` says, for every step, that a
crash, a reload or a fork may do no more to the tree than `SessionTree` lists.

### AgentSession

`chain[c]` is one call of `prompt()`: where it stands (`post` is
`_handlePostAgentRun`, `sleeping` the pause before a retry, `compacting` the
summary, `sending` the hooks before the user's message) and whether it is still
before that message (`pre`). `run` is the agent's active run in three stages.
A message is its role and how it stopped; `n` stands for the time stamps that
tell an answer from before a compaction. `Hear` is `_handleAgentEvent`, `Check`
is `_checkCompaction`, `Continue` is `agent.continue()` with its ways to throw.
`connected` is "no" while `compact()` has unsubscribed from the agent, and
`missed` becomes "yes" with the first event that found nobody listening: three
of the properties are stated until then, since the session cannot know of a
message it did not hear. `Only`, `Plain` and `Kept` take from a list what stands
at given places: what a compaction carries over, and what the context and the
session must agree on.

### Credentials

`call[p]` is the synchronous call a process is in (it does nothing else
meanwhile), `refresh[p]` its asynchronous refresh. The lock records who holds it
and how: `sync` and `async` locks go stale differently, and a `dead` one is that
of a process that has ended. A token is the number of its generation; `server`
is the one the provider takes next, `received` the last one that came from it,
`fresh` the one that has not expired. `received` is behind `server` after
`AnswerLost`: the provider has taken the token and its answer does not arrive,
which the code cannot tell from `ProviderFails`. Each
process has one credential that only it changes, by counting up, which is
enough to tell whether another's write undoes it.

## 3. The runs

| Run | Asks | Result |
| --- | --- | --- |
| `event_stream` | each event once, no lost wakeup, the result is final, the end is told | holds |
| `agent_queues` | order and loss of messages; context = transcript | holds |
| `agent_tools` | pending calls exact, results answer calls, every run settles | holds |
| `tts` | slot, answers, order, the chain survives failures | holds |
| `tts_stopped` | the chain also survives a stop | violated |
| `dictation` | presses at any moment: every press ends, no recording shown without a microphone; until one overtakes another, no open microphone unshown, own words only | holds |
| `text_stream` | connected has a stream, deaths are noticed, every call ends | holds |
| `harness` | writes once, none left, between turns; messages kept | holds |
| `harness_eager` | one operation at a time, each returns | holds |
| `session_file` | reload is memory, the tree is implemented, contexts can be sent, compactions are bounded, forks keep the context, with failing writes and awaited summaries | holds |
| `agent_session` | attempts are bounded, shell results kept and in place, context = session, everything ends | holds |
| `credentials` | tokens once, no change and no token lost, everything ends | holds |

Each module also states its types (`TypeOK`; `StreamTypeOK` in EventStream). They
are proved for all modules, and are in no run.

**Bounds.** Three iterators are enough for two to compete while a third leaves;
three messages fill a queue with two while a run is active; two tool calls show
every order of ends and an orphan; two runs show what a run leaves to the next.
Four sentences and five workers let two kills and two crashes each replace a
worker and leave sentences to play afterwards. Four presses at any moment are two
recordings, one after the other or with requests that all cross, and two words let
one of the first be looked for in the second. Two writes
give a flush something to do twice, two failures let the report of a failure
fail. Four entries hold a compaction of a compaction, a branch, and
a fork of either with one entry made afterwards; one damaged write is enough for
file and memory to disagree, which is where `SessionTree`'s promise ends. With
`KeepRecent = 2` and messages of weight 1, 2, 0 and 1 the budget is spent by one
message, by several, or not at all. `MaxDisturbances = 1` bounds summaries that are
awaited and writes that failed together: after a failed write no compaction begins,
while a write may well fail after one; most of the properties say nothing more then.
`Budget = 5` lets a prompt meet a retry, a recovery from overflow and a
retry after it, or two things the user does and one error; one prompt is enough
for all properties there, since what an earlier prompt leaves is an initial
state (a session that is opened again), and two prompts with `Budget = 3` pass as
well. Two processes that each change a credential and refresh a token twice
between them show every race for the lock; requests and answers are lost at any
time, and one kind of fault (a crash, a torn write, a lock taken over) may happen,
crashes and torn writes any number of times. Two servers, one call and one fault in `text_stream` show a death during a
stop, a start and a restart; seven tasks are never all in use. `MaxMsgs`,
`MaxRuns`, `MaxOps`, ... cap counters of the environment or history only; no
guard of the code is weakened by them, except that `MaxToolTurns` and `MaxTurns`
end the turns a model could go on asking for.

**Deadlock** is checked for Agent, where the host can always change a drain
mode. The other configurations say `CHECK_DEADLOCK FALSE`: with their bounds
used up (no more pushes, sentences, presses or operations) the system really is
idle. That it does not stop earlier is what the liveness properties say.

**Fairness.** `FairSpec` asks weak fairness of the steps the event loop or a
running process takes by itself: an iterator whose promise has resolved, the
loop and the tools it started, the service's callbacks and the workers, the
handlers of a press (HTTP requests have timeouts, so they are answered or
fail), the operations of the harness. It never asks that the host calls, that
the server finalizes, that anything fails, or that a stream ends.

* `EndReleases`: needs only that iterators go on.
* `RunSettles`: needs tools and listeners that return; a tool that hangs hangs
  the run, in the code as in the model.
* `ChainSurvivesFailures`: a worker that reads its input answers or dies.
* `PressEnds`: the server may never answer; `Deadline` is the code's own timer. It
  is checked for presses at any moment.
* `OperationsEnd`: hooks and appends return.
* `EverythingEnds` of AgentSession: the model answers or fails, tools, pauses and
  summaries end. It needs no fairness between the chains: one step at a time of
  what the session has begun, whichever.
* `EverythingEnds` of Credentials: each process goes on with its call, lock
  attempts are counted by the code, and the provider answers or the request
  fails. A process that crashes restarts with a reload.
* `EverythingEnds` and `DeathNoticed` of TextStreamClient: requests are answered
  or fail (the code's timeouts), timers run out, events are delivered. It is
  not assumed that a server boots, dies or answers in time.

**Conditions in properties.** Some properties hold until something has gone
wrong, and say so (`crashes = 0`, `failures = 0`, `fails = 0`, `kills > 0`,
`overtaken = "no"`, `late = "no"`, `astray = "no"`, `missed = "no"`). What comes after is in
the state space of the run, and section 5 says what it looks like.

## 4. What is proved

All proofs are checked by TLAPS for every value of the constants. They rest on
the named assumption of each module (bounds are naturals, and for TTS that
`Provider` is one of the two), and on what a theorem assumes in its own
statement: how the host, the user or an external process behaves. Those
assumptions are values of constants that a run also uses, and section 5 lists
what happens without them.

* EventStream, at the end of `Agent_proofs` (the loop is what iterates it):
  `StreamTypes`, `StreamDelivers` (`EachEventOnce`), `StreamWakes` (`NoLostWakeup`),
  `StreamCompletes` (`CompletionIsFinal`). The inductive invariant is the conjunction of the four
  properties, that a consumer waits at most once (`WaitersDistinct`: else the
  second of two equal waiters would be handed an event while busy), and that an
  open stream has settled nothing (`OpenIsUnsettled`). Delivery needs the
  wakeup property: an event pushed to a waiter is the next one only because the
  queue is then empty.
* `Agent_proofs`: `TypeCorrect`, and five of the properties the runs check,
  without assumptions.
  * `PendingCorrect` (`PendingCallsExact`). It is not inductive: whether a call
    can still be running depends on where the loop stands. `CallsAt` says which
    statuses the calls of a batch have at each location, `OrphansPast` that
    tools that outlived their run are calls of earlier turns (so their end
    removes nothing of the batch in hand), and `PendingInProgress` what is left
    of it after a `reset()` in the middle of a batch, where the pending set is
    only a subset.
  * `ContextCorrect` (`ContextIsTranscript`). The property speaks of the moment
    of a request; `Mirror` says for each location how far the context of the
    loop is ahead of the transcript (prompts not yet emitted) or behind it
    (results emitted in the batch).
  * `DeliveredInOrder` (`OrderedDelivery`), from `Delivery`: transcript, messages
    being injected and queues follow one another in the order of sending, so
    that what is polled, in either drain mode, always goes to the right end.
  * `NothingLostSilently` (`NoSilentLoss`, an action property), from
    `InjectedInTime`: nothing is being injected when a run ends without failing.
  * `ResultsCorrect` (`ResultsAnswerCalls`), from `Undisturbed` (a batch that was
    neither aborted nor failed runs all of its calls) and `Trailing` (the
    transcript ends in the response and the results written so far).
* `Harness_proofs`: `TypeCorrect`, and
  * for every host: `OneAtATime` (`OneOperation`) and `NoMessageLost`
    (`MessagesKept`), both as long as nothing has failed, which is a condition
    inside the properties. `OneInv` says which operations guard the session;
    `Sole` counts the places of each message.
  * for a host that awaits what it starts (`Host = "serial"`), whatever fails:
    `ResultsFollowTheirResponse` (`WritesBetweenTurns`) and `NoWriteLost`
    (`WritesOnce`), from `SerialInv`: one operation is active, none is in its loop
    while the harness is idle, and each write asked for is at one place. If it
    also uses neither `compact()` nor `navigateTree()` (`Structural = "no"`),
    `LoopsLeaveNothing` (`NothingLeftByLoops`), from `LoopInv`.
* `TTS_proofs`: `SlotCorrect` (`SlotIsOfLink`), with crashes and kills at any
  time: only a link that awaits a worker's "ready" can be failed by that
  worker, and such a link holds no slot. For `Provider = "piper"`, which answers
  each request once, `AnswersMatch` (`AnswersAreOwn`) and `PlaysInOrder`
  (`PlayedInOrder`), until a worker dies on its own, however many are killed: the
  invariant follows the request and its answer through the pipes of the worker
  in use, and says that the pipes of the others hold nothing that is still read.
  `TypeCorrect`, for both providers: slot, pipes and what is played hold numbers of
  sentences, and the chain finishes no more links than were flushed.
* `Dictation_proofs`, for every user, server and number of failures:
  * `MicrophoneIsShown` (`MicIsShown`). That nothing is shown which is not under
    way holds however presses overtake each other: `Shown` is inductive with a few
    types, since a handler that leaves a stage leaves what is shown true of the
    others, or changes it. That an open microphone is shown holds until a request
    fails or a press overtakes another, conditions inside the property: then it
    is related to what is shown only through where the handler of the last press
    stands, so the invariant says for each of its stages what the service state,
    the requests on their way and the server's microphone are (`Fits`), that no
    other handler is under way (`Alone`), and that the server is up while dictation
    is enabled.
  * `TranscriptionsAreOwn` (`OwnWords`), until then and until the server finalizes
    late: all that the server holds, and every event, buffer and draft derived from
    it, is of one recording (`Captured`), what a handler holds is of the one its
    press stopped (`Transcribed`), and nothing is on its way when the next begins
    (`Calm`). `StaysSo` says that the conditions, once gone, do not come back.
  * `TypeCorrect`: what is buffered, sent, held and transcribed are sequences of
    numbers of words, and a word is spoken into the capture of a press.
* `TextStreamClient_proofs`: `Typed`, `NeverStuckStarting` (`StartingIsUnderWay`)
  and `NeverDeafAndConnected` (`ConnectedHasStream`). The three are inductive
  together. A start that is under way may lose its process, be overtaken by a
  stop, or be doubled by a restart; that "starting" is left by each of them is
  what the proof of each action shows.
* `Credentials_proofs`: `Inductive`, and from it `NoTokenTwice`
  (`TokensUsedOnce`), `NoChangeLost` (`ChangesKept`) and `NoTokenLost`
  (`TokenKept`), for any finite set of processes and any number of lost requests and
  answers. Their conditions are in the properties: no lock is taken over, no process
  ends (for changes: within a write), and for the last two the file was there from
  the beginning. The invariant says, while
  processes at most crash between writes, who may be where when the lock is
  held (`Locked`: one process between lock and release, and what it has read is
  what the file holds); with a file from the beginning, that the file holds
  the last token that came and the changes that were written (`FileKept`); without one, that
  there is no token at all (`NoToken`), which is why the file that is created
  without the lock does no harm to tokens.

* `AgentSession_proofs`: `TypeCorrect`; `ShellResultsKept` (`BashKept`) for any
  host, from `BashInv`: a result that is held back is held back for a chain
  under way. The other three assume that no prompt comes in the pause of
  another (`Overlap = "no"`; so one chain is under way, `Alone`): else the second
  cancels the pause of the first, which resets the count they share, and a
  shell result held back by one is put in place by the other (section 5).
  * `FailuresBounded` (`AttemptsBounded`). The bound of a row of errors is spent
    twice, before and after the one recovery from an overflow; `RowInv` relates
    the errors in a row to the count of attempts and the flag of the recovery,
    at the places where a failure is still to be counted and where it has been.
  * `CallsKeepResults` (`ResultsFollowCalls`) and `ReloadIsContext`
    (`ContextIsSession`), together from `ContextInv`: context and session agree on
    what both keep and both are in order (`Agree`), a compaction under way cuts
    where no tool result begins what is kept (`CutAt`), a run that waits for its
    tools has the call as its last message in both (`StopsWith`), and the answer
    that ended a run is in hand and last in the context (`Answered`), which is
    why taking it out for a retry takes out that answer and nothing else. Each
    of the two properties needs the other: a compaction rebuilds the context from
    the session, and the order of the rebuilt context is that of what is kept.
    What `Only` takes from a concatenation is proved from its recursive function
    by least counterexample.

* `SessionFile_proofs`, for sessions of any length (`MaxEntries` is at least 2, since
  a session file of version 2 that is opened has two entries), any branching and
  any number of damaged writes. Everything `SessionEntries` computes is a function
  defined by recursion; what it yields is proved from the defining equations, by
  least counterexample, in the first half of the module: which places `Only` takes
  and in what order (`Places`), that a path leads from a root over parents to its
  entry and that each beginning of it is a path (`Shape`), that two trees which
  agree above an entry have the same path to it, and what a fork keeps, in the
  order of the path (`TakenOver`, `Chain`).
  * `TypeCorrect` (`TypeOK`) and `MemoryIsFile` (`ReopenIsMemory`), from `IInv`: the ids
    of the entries grow and a parent is older than its child (`Grown`), between two
    calls the file holds the memory or there is no answer to lose (`Settled`),
    inside a longer write the file holds exactly the lines before the next one
    (`Writing`), the first write is that of the first answer (`Creating`), and
    during a fork the session that is left is still in its own file (`Forking`).
  * `TreeImplemented` (`ImplementsTree`): initial states are initial, and each of
    the fifteen actions is an action of `SessionTree` or a stutter (the beginning of
    a compaction and its failure are stutters). The two that
    need most are the crash inside the first write, after which what is loaded is
    a beginning of the tree, and the end of a fork, where the entries of the new
    session are those `Branched` makes of a path of the session that was left.
  * `ResultsFollowCalls` (`ResultsHaveCalls`). Inductive is not the context at the
    leaf but a property of every path that can be opened (`Good`): each result has
    its call with only labels between, and so have the results that a compaction
    keeps. That a new compaction keeps both or none is `findCutPoint`'s doing: it
    cuts at no result, and goes back from the cut over labels and summaries only
    (`CutAt`). What it chose stays good while the summary is awaited, because the path
    it was prepared for never changes (`Preparing`), and for what has been put after
    that path meanwhile, because its last call is kept as well (`Keeps`, `Prepares`).
    A compaction that is put on another branch is astray, and the property says no
    more. A fork keeps the order of the path and loses labels only.
  * `ForkSendsTheSame` (`ForkKeepsContextButForLabels`), from `IInv` alone: what the
    fork sends are the same places of the old path, because the entry that the
    latest compaction keeps from is still there unless it is a label.
  * `CompactionFits` (`CompactionBounded`), whatever the messages weigh and also after
    writes failed or were cut short. `findCutPoint` walks back until the messages
    weigh the budget and keeps the message that passes it whole, so that what a
    compaction keeps may be larger than `keepRecentTokens` by that one message; the
    property says by no more: after its first message, what is kept of the path weighs
    less. `SpentIs` is the walk back, and `CutFits` that no message which is kept comes
    before the cut, and that the cut comes late unless only results follow. The
    exception is real: results that weigh the budget alone, without a message to cut
    at after them, leave the first cut point, and everything is kept.

Only model-checked: liveness (`EndReleases`, `RunSettles`, `ChainSurvivesFailures`,
`PressEnds`, `OperationsEnd`, `DeathNoticed` and the two `EverythingEnds`), which
like anything with `ENABLED` is out of the prover's reach.

## 5. Where code and documentation disagree

Recorded by a run, with the line in PROJECT.json:

* **`tts_stopped`**: `killWorker` drops the promise of the sentence in hand;
  the speech chain then waits for it for ever.

The models also show the following. The properties are stated in the modules,
and can be looked at with the constants given; they are in no run.

| What | Property | Constants |
| --- | --- | --- |
| `agent_end` is not the last event of a run ("no more loop events", `agent/README.md:157`) when a listener throws during one of several parallel tools (`agent-loop.ts:502`) | `EventsOfActiveRun` | of `MCAgentTools.cfg` |
| Three quick presses, and `/resume` may arrive after `/pause`: the microphone is open while "idle" is shown (`stt.ts:238`) | `MicIsShown` without `overtaken` | of `MCDictation.cfg` |
| Text is submitted after `/stt off` ("all methods become no-ops", `stt.ts:86`) if it comes while a recording is being stopped (`stt.ts:279`) | `NothingAfterOff` | of `MCDictation.cfg` |
| `compact()` and `navigateTree()` do not flush what was put off during them (`agent-harness.ts:760`; "flushed ... at operation settlement", `agent/docs/agent-harness.md:88`) | `NothingLeftPending` | of `MCHarnessEager.cfg`, MaxWrites 1 |
| A killed worker's "close" clears its successor; a second one is spawned (`tts.ts:194`) | `OneWorker` | MaxTexts 3, MaxWorkers 3, MaxKills 1, MaxCrashes 0 |
| Kokoro answers a failure by error and done; the done resolves the next sentence (`tts_worker.py:146`) | `DoneMeansPlayed` | Provider "kokoro", MaxTexts 3, MaxWorkers 2 |
| After a crash the old worker's pipes answer for the new one (`tts.ts:170`) | `AnswersAreOwn` without its condition | MaxCrashes 1 |
| A word finalized during the drain is in the text twice (`stt.ts:249`) | `EachWordOnce` | MaxPresses 2, MaxWords 2 |
| A server that finalizes late puts words of one recording into the next | `OwnWords` without `late` | of `MCDictation.cfg` |
| A hook that throws before the loop leaves writes pending (`agent-harness.ts:638`) | `NothingLeftPending` | MaxFails 1, serial |
| Started from a `settled` listener, an operation loses its controller and promise (`agent-harness.ts:625`) | `AbortReachesRun` | MaxOps 2, eager |
| Two flushes at once append one write twice (`agent-harness.ts:486`) | `WritesOnce` | MaxOps 2, MaxWrites 2, eager |
| A failing operation makes the phase idle for another (`agent-harness.ts:638`) | `OneOperation` without its condition | MaxOps 3, MaxFails 1, eager |
| abort() during a drain whose notification fails loses the messages (`agent-harness.ts:416`) | `DrainsRollBack` | MaxMsgs 1, MaxAborts 1, MaxFails 1 |
| A hook that throws loses the nextTurn messages (`agent-harness.ts:570`) | `NextTurnKept` | MaxMsgs 1, MaxFails 1 |
| After a compaction that was to be followed by a retry the agent cannot always go on: an answer without error that overflowed is in the rebuilt context again (`agent-session.ts:2031`; "the agent will retry", `coding-agent/docs/rpc.md:934`) | `OverflowIsRetried`, `NeverFails` | of `MCAgentSession.cfg` |
| During the summary of `compact()` the agent may run: the chain it aborted goes on for a queued message (`agent-session.ts:1643`) | `CompactAlone` | of `MCAgentSession.cfg` |
| A `compact()` before the user's message of a prompt is sent: the session does not hear that message and goes on counting, so errors in a row exceed the bound (`agent-session.ts:1642`) | `AttemptsBounded` without its condition | Prompts 2, MaxRetries 0, Budget 5, ToolTurns 0, Overlap "no" |
| A shell result recorded between two runs overtakes the ones held back (`agent-session.ts:2633`) | `BashInOrder` | of `MCAgentSession.cfg` |
| A prompt during the pause before a retry: the retry fails, and a held-back shell result may come between a call and its result | `RetrySettles`, `ResultsFollowCalls` | Prompts 2, Overlap "yes", Budget 4 |
| A compaction that keeps from a label on keeps nothing after a fork (`session-manager.ts:1299`) | `ForkKeepsContext` | of `MCSessionFile.cfg` |
| A compaction is put after the leaf there is when its summary has come (`agent-session.ts:1722`, `:2002`): on another branch, or on a fork that dropped the label it keeps from, it keeps nothing, also not the call of a result that follows | `ResultsHaveCalls` without `astray` | of `MCSessionFile.cfg` |
| A torn last line swallows the next append (`session-manager.ts:933`); a first write that fails leaves a file which no later append can create (`:923`); a crash in a rewrite loses the session (`:874`) | `ReopenIsMemory` without its condition | of `MCSessionFile.cfg` |
| An answer of the provider that is lost after it has taken the token is an error as any other (`ai/src/utils/oauth/index.ts:151`): the token in the file is used up, and every refresh after it sends it again and is refused | `TokenKept` with `server` for `received` | of `MCCredentials.cfg` |
| A change that could not be written is forgotten by the next refresh (`auth-storage.ts:419`) | `ChangesInMemory` | of `MCCredentials.cfg` |
| A file that is not there may be created over one written meanwhile (`auth-storage.ts:70`); the synchronous lock goes stale after 10 s and the asynchronous one is touched every 15 s (`:83`, `:146`); a torn write reads as no credentials (`:254`) | `ChangesKept`, `TokensUsedOnce` without their conditions | of `MCCredentials.cfg` |
| "1 auto-restart ... then error+disable" (`textstream-client.ts:14`): a restart resets the count by its own `stop` and `start` (`:303`, `:251`), so that a server that keeps dying is restarted for ever | `RestartsBounded` | MaxCalls 0, MaxServers 3, MaxFaults 2, MaxTasks 6 |
| A stop during a start's health check, or whose process ends by the signal, is followed by a spawn (`:612`, `:233`) | `StopStops` | of `MCTextStreamClient.cfg` |

## 6. Not modelled

In the modelled parts: the partial message while a response streams, error
texts, contexts replaced by `prepareNextTurn`, what hooks return (Agent,
Harness); the spawn "error" event, the `say` fallback and speed (TTS); enabling
dictation again, interim transcription and voice activity (Dictation,
TextStreamClient); a first kept entry chosen by an extension, settings and custom
entries, listing, text of summaries (SessionFile); extensions, models, tree
navigation and the running of shell commands (AgentSession); overrides, login,
and an `auth.json` that is a symbolic link (Credentials): the synchronous lock is
taken with `realpath: false` (`auth-storage.ts:83`), the asynchronous one is not
(`:138`), so that through a link they are two locks and exclude nobody. A
server that exits with code 0 unasked, which the exit handler ignores
(`textstream-client.ts:612`), is left out; `DeathNoticed` is about the other exits
(TextStreamClient). A shutdown message
of the worker is represented by the signal that follows it.

Other parts are listed in PROJECT.json with the reason. Rendering, text
editing, provider protocols, tools and extensions are left aside: sequential
code with unit tests, or user code; they are most of the repository's lines.

## 7. Plan

Done: the modules and proofs above. What is left, in this order:

1. `RpcClient`: requests with ids and timers, an exit or a stop while they wait
   (`rpc-client.ts:164` forgets them without rejecting them).
2. `Conversation`: the abstract transcript (prompt, response, results) that
   `Agent` implements under a refinement mapping, and that the session order of
   `Harness` and the log of `AgentSession` implement.
3. The input buffer, and the proxy stream over `EventStream`.
4. `Settings`, as an instance of the protocol of `Credentials`.

Proofs to come: those of the modules above.
