-------------------------------- MODULE TTS --------------------------------
(***************************************************************************)
(* Speech output of the interactive mode: sentences of the assistant are    *)
(* flushed to a promise chain (interactive-mode.ts, flushTtsBuffer), each   *)
(* link of which calls TTSService.speak() (services/tts.ts), which spawns   *)
(* a Python worker (whisper_bot/tts_worker.py), waits until it is ready,    *)
(* writes the sentence to it and waits for its "done".                      *)
(*                                                                         *)
(* Sentences are numbered as flushed, workers as spawned.  A step is one    *)
(* callback of the event loop or one step of a worker process.              *)
(***************************************************************************)
EXTENDS Naturals, Sequences, FiniteSets

CONSTANTS Provider,    \* "piper" or "kokoro", of every worker spawned
          MaxTexts,    \* bound: sentences flushed
          MaxWorkers,  \* bound: workers spawned
          MaxKills,    \* bound: stop(), a new voice or provider
          MaxCrashes   \* bound: workers that die on their own

ASSUME Bounds == Provider \in {"piper", "kokoro"} /\ MaxTexts \in Nat /\ MaxWorkers \in Nat
                 /\ MaxKills \in Nat /\ MaxCrashes \in Nat

Workers == 1 .. MaxWorkers

VARIABLES
  (* InteractiveMode *)
  flushed,   \* sentences flushed to ttsSpeakChain
  finished,  \* links of the chain whose promise has settled
  link,      \* what the link in hand awaits: "none", "polisher", "ready", "done"
  (* TTSService *)
  enabled,   \* config.enabled, "yes" or "no"
  worker,    \* this.worker, 0 when null
  awaited,   \* the worker whose "ready" speak() awaits, or 0
  slot,      \* the sentence whose pendingResolve and pendingReject are held, or 0
  state,     \* "idle" or "speaking"
  (* the worker processes *)
  status,    \* "unborn", "starting", "ready", "dead", "exited", "closed"
  stdin,     \* sentences written to the worker and not read by it
  stdout,    \* messages <<kind, sentence>> written by it and not read
  (* history *)
  played,    \* sentences played
  spawned, kills, crashes

chainVars   == <<flushed, finished, link>>
serviceVars == <<enabled, worker, awaited, slot, state>>
processVars == <<status, stdin, stdout>>
countVars   == <<spawned, kills, crashes>>
vars == <<chainVars, serviceVars, processVars, countVars, played>>

Init ==
    /\ flushed = 0 /\ finished = 0 /\ link = "none"
    /\ enabled = "yes" /\ worker = 0 /\ awaited = 0 /\ slot = 0
    /\ state = "idle"
    /\ status = [w \in Workers |-> "unborn"]
    /\ stdin = [w \in Workers |-> <<>>] /\ stdout = [w \in Workers |-> <<>>]
    /\ played = <<>> /\ spawned = 0 /\ kills = 0 /\ crashes = 0

Running(w) == status[w] \in {"starting", "ready"}
current == finished + 1

(* The promise of the link in hand settles, with or without an error: the   *)
(* chain catches errors and goes on.                                       *)
FinishLink == finished' = finished + 1 /\ link' = "none" /\ awaited' = 0

-----------------------------------------------------------------------------
(* InteractiveMode.                                                         *)

Flush ==
    /\ enabled = "yes" /\ flushed < MaxTexts
    /\ flushed' = flushed + 1
    /\ UNCHANGED <<finished, link, serviceVars, processVars, countVars, played>>

(* Mutant: the next link does not wait for the one before.                  *)
BeginUnchained ==
    /\ link \in {"none", "done"} /\ current < flushed
    /\ link' = "polisher"
    /\ finished' = IF link = "done" THEN finished + 1 ELSE finished
    /\ UNCHANGED <<flushed, serviceVars, processVars, countVars, played>>

BeginLink ==
    /\ link = "none" /\ finished < flushed
    /\ link' = "polisher"
    /\ UNCHANGED <<flushed, finished, serviceVars, processVars, countVars, played>>

-----------------------------------------------------------------------------
(* TTSService.speak.                                                        *)

(* Disabled meanwhile, or nothing left after polishing.                     *)
SpeakNothing ==
    /\ link = "polisher"
    /\ FinishLink
    /\ UNCHANGED <<flushed, enabled, worker, slot, state, processVars,
                   countVars, played>>

(* sendText: the sentence goes to this.worker; its promise to the slot.     *)
SendText(w) ==
    /\ stdin' = [stdin EXCEPT ![w] = Append(@, current)]
    /\ slot' = current /\ state' = "speaking"
    /\ link' = "done" /\ awaited' = 0
    /\ UNCHANGED finished

(* A worker whose exit was not seen is reused, ready or not.                *)
SpeakReuse ==
    /\ link = "polisher" /\ enabled = "yes"
    /\ worker # 0 /\ status[worker] \in {"starting", "ready", "dead"}
    /\ SendText(worker)
    /\ UNCHANGED <<flushed, enabled, worker, status, stdout, countVars, played>>

(* ensureWorker spawns one and awaits its "ready".                          *)
SpeakSpawn ==
    /\ link = "polisher" /\ enabled = "yes"
    /\ worker # 0 => status[worker] \in {"exited", "closed"}
    /\ spawned < MaxWorkers
    /\ spawned' = spawned + 1
    /\ worker' = spawned'
    /\ status' = [status EXCEPT ![spawned'] = "starting"]
    /\ link' = "ready" /\ awaited' = spawned'
    /\ UNCHANGED <<flushed, finished, enabled, slot, state, stdin, stdout,
                   kills, crashes, played>>

(* Loading a voice, or giving up on it, takes longer than the pipes of a    *)
(* dead process take to close.                                             *)
SlowStart(w) == \A v \in 1 .. w - 1 : status[v] \notin {"dead", "exited"}

(* 15 s without "ready": speak() rejects, the worker stays.                 *)
StartupTimeout ==
    /\ link = "ready" /\ SlowStart(awaited)
    /\ FinishLink
    /\ UNCHANGED <<flushed, enabled, worker, slot, state, processVars,
                   countVars, played>>

-----------------------------------------------------------------------------
(* Callbacks of a worker's pipes and exit.  They act on whatever is current *)
(* in the service, not on what was when the worker was spawned.             *)

Message(w) == Head(stdout[w])
Consume(w) == stdout' = [stdout EXCEPT ![w] = Tail(@)]

(* "ready": ensureWorker resolves and the sentence is sent, to this.worker, *)
(* if there still is one.                                                   *)
ReadReady(w) ==
    /\ stdout[w] # <<>> /\ Message(w)[1] = "ready"
    /\ Consume(w)
    /\ IF awaited # w
          THEN UNCHANGED <<finished, link, awaited, slot, state, stdin>>
          ELSE IF worker # 0 /\ status[worker] \notin {"exited", "closed"}
          THEN SendText(worker)
          ELSE FinishLink /\ UNCHANGED <<slot, state, stdin>>
    /\ UNCHANGED <<flushed, enabled, worker, status, countVars, played>>

(* "done" or "error": the slot's promise settles, if there is one.          *)
ReadAnswer(w) ==
    /\ stdout[w] # <<>> /\ Message(w)[1] \in {"done", "error"}
    /\ Consume(w)
    /\ slot' = 0
    /\ state' = "idle"
    /\ IF slot # 0 THEN FinishLink ELSE UNCHANGED <<finished, link, awaited>>
    /\ UNCHANGED <<flushed, enabled, worker, status, stdin, countVars, played>>

(* exitCode is set, unless a signal ended it; "close" follows when the      *)
(* pipes are read.                                                         *)
Exit(w) ==
    /\ status[w] = "dead"
    /\ status' = [status EXCEPT ![w] = "exited"]
    /\ UNCHANGED <<chainVars, serviceVars, stdin, stdout, countVars, played>>

(* Mutant: "close" does not reject the promise in the slot.                 *)
CloseSilently(w) ==
    /\ status[w] \in {"dead", "exited"} /\ stdout[w] = <<>>
    /\ status' = [status EXCEPT ![w] = "closed"]
    /\ worker' = 0 /\ slot' = 0 /\ state' = "idle"
    /\ IF awaited = w THEN FinishLink
                      ELSE UNCHANGED <<finished, link, awaited>>
    /\ UNCHANGED <<flushed, enabled, stdin, stdout, countVars, played>>

(* "close": this.worker is cleared, and the slot rejected, whichever worker *)
(* closed; and ensureWorker rejects when it awaits this one.                *)
Close(w) ==
    /\ status[w] \in {"dead", "exited"} /\ stdout[w] = <<>>
    /\ status' = [status EXCEPT ![w] = "closed"]
    /\ worker' = 0 /\ slot' = 0 /\ state' = "idle"
    /\ IF slot # 0 \/ awaited = w THEN FinishLink
                                  ELSE UNCHANGED <<finished, link, awaited>>
    /\ UNCHANGED <<flushed, enabled, stdin, stdout, countVars, played>>

-----------------------------------------------------------------------------
(* Mutant: killWorker rejects the promise it drops, and forgets the worker  *)
(* without a signal.                                                       *)
KillAndForget ==
    /\ kills < MaxKills /\ kills' = kills + 1
    /\ worker' = 0 /\ slot' = 0 /\ state' = "idle"
    /\ IF slot # 0 THEN FinishLink ELSE UNCHANGED <<finished, link, awaited>>
    /\ UNCHANGED <<flushed, status, stdin, stdout, spawned, crashes, played>>

(* killWorker: the worker is told to shut down and signalled; the promise   *)
(* in the slot is dropped, not settled.                                     *)
KillWorker ==
    /\ kills < MaxKills /\ kills' = kills + 1
    /\ status' = IF worker # 0 /\ Running(worker)
                 THEN [status EXCEPT ![worker] = "dead"] ELSE status
    /\ worker' = 0 /\ slot' = 0 /\ state' = "idle"
    /\ UNCHANGED <<chainVars, awaited, stdin, stdout, spawned, crashes, played>>

(* /tts off, and the toggle key.                                            *)
Disable == enabled = "yes" /\ KillWorker /\ enabled' = "no"

Enable ==
    /\ enabled = "no"
    /\ enabled' = "yes"
    /\ UNCHANGED <<chainVars, worker, awaited, slot, state, processVars,
                   countVars, played>>

(* The user starts to dictate while a sentence is spoken.                   *)
StopForRecording == state = "speaking" /\ KillWorker /\ UNCHANGED enabled

(* setVoice and setProvider, with another value.                            *)
ChangeVoice == KillWorker /\ UNCHANGED enabled

-----------------------------------------------------------------------------
(* The worker process.                                                      *)

Boot(w) ==
    /\ status[w] = "starting" /\ SlowStart(w)
    /\ status' = [status EXCEPT ![w] = "ready"]
    /\ stdout' = [stdout EXCEPT ![w] = Append(@, <<"ready", 0>>)]
    /\ UNCHANGED <<chainVars, serviceVars, stdin, countVars, played>>

(* Piper's voice cannot be loaded: "error", then exit.                      *)
BootFails(w) ==
    /\ Provider = "piper" /\ status[w] = "starting" /\ SlowStart(w)
    /\ crashes < MaxCrashes /\ crashes' = crashes + 1
    /\ status' = [status EXCEPT ![w] = "dead"]
    /\ stdout' = [stdout EXCEPT ![w] = Append(@, <<"error", 0>>)]
    /\ UNCHANGED <<chainVars, serviceVars, stdin, spawned, kills, played>>

(* The worker reads a line, plays the sentence and answers "done".  A       *)
(* sentence cut short by a signal counts as not played.                    *)
Play(w) ==
    /\ status[w] = "ready" /\ stdin[w] # <<>>
    /\ stdin' = [stdin EXCEPT ![w] = Tail(@)]
    /\ stdout' = [stdout EXCEPT ![w] = Append(@, <<"done", Head(stdin[w])>>)]
    /\ played' = Append(played, Head(stdin[w]))
    /\ UNCHANGED <<chainVars, serviceVars, status, countVars>>

(* It cannot be played: "error".  With kokoro the failure is an event of    *)
(* KokoroTTS, which the worker forwards as "error", and "done" follows.     *)
PlayFails(w) ==
    /\ status[w] = "ready" /\ stdin[w] # <<>>
    /\ stdin' = [stdin EXCEPT ![w] = Tail(@)]
    /\ stdout' = [stdout EXCEPT ![w] = @ \o
          (IF Provider = "piper" THEN <<<<"error", Head(stdin[w])>>>>
           ELSE <<<<"error", Head(stdin[w])>>, <<"done", Head(stdin[w])>>>>)]
    /\ UNCHANGED <<chainVars, serviceVars, status, countVars, played>>

Crash(w) ==
    /\ Running(w)
    /\ crashes < MaxCrashes /\ crashes' = crashes + 1
    /\ status' = [status EXCEPT ![w] = "dead"]
    /\ UNCHANGED <<chainVars, serviceVars, stdin, stdout, spawned, kills, played>>

-----------------------------------------------------------------------------
Service ==
    \/ BeginLink \/ SpeakNothing \/ SpeakReuse \/ SpeakSpawn
    \/ \E w \in Workers : ReadReady(w) \/ ReadAnswer(w) \/ Exit(w) \/ Close(w)

Process == \E w \in Workers : Boot(w) \/ Play(w) \/ PlayFails(w)

Host == Flush \/ Disable \/ Enable \/ StopForRecording \/ ChangeVoice

Failure == StartupTimeout \/ \E w \in Workers : BootFails(w) \/ Crash(w)

Next == Service \/ Process \/ Host \/ Failure

Spec == Init /\ [][Next]_vars

(* The event loop and the workers go on; the host and failures need not.    *)
FairSpec == Spec /\ WF_vars(Service) /\ WF_vars(Process)

-----------------------------------------------------------------------------
TypeOK ==
    /\ flushed \in 0 .. MaxTexts /\ finished \in 0 .. flushed
    /\ link \in {"none", "polisher", "ready", "done"}
    /\ enabled \in {"yes", "no"} /\ worker \in 0 .. MaxWorkers
    /\ awaited \in 0 .. MaxWorkers /\ slot \in 0 .. MaxTexts
    /\ state \in {"idle", "speaking"}
    /\ status \in [Workers -> {"unborn", "starting", "ready", "dead", "exited",
                               "closed"}]
    /\ \A w \in Workers :
          /\ stdin[w] \in Seq(1 .. MaxTexts)
          /\ stdout[w] \in Seq({"ready", "done", "error"} \X (0 .. MaxTexts))
    /\ played \in Seq(1 .. MaxTexts)

(* The one slot of TTSService always belongs to the link of the chain that  *)
(* waits for it: the chain never lets a second speak() overwrite the        *)
(* promise of a first, whatever workers die or are killed in between; and   *)
(* "speaking" is shown exactly while such a promise is held.                *)
SlotIsOfLink ==
    /\ slot # 0 => link = "done" /\ slot = current
    /\ state = "speaking" <=> slot # 0

(* No stale answer: while a sentence is waited for, no answer of another    *)
(* one is under way, and no worker has another one to play.  (Once a worker *)
(* has died on its own, what its pipes still hold is taken for an answer    *)
(* to the sentence its successor was given.)                                *)
AnswersAreOwn ==
    crashes = 0 /\ slot # 0 =>
        \A w \in Workers :
            /\ \A i \in 1 .. Len(stdout[w]) :
                  stdout[w][i][1] = "done" => stdout[w][i][2] = slot
            /\ Running(w) =>
                  \A i \in 1 .. Len(stdin[w]) : stdin[w][i] = slot

(* Sentences are played in the order of the text, each at most once, over   *)
(* all workers, as long as none dies on its own.                            *)
PlayedInOrder ==
    crashes = 0 => \A i, j \in 1 .. Len(played) : i < j => played[i] < played[j]

(* Whatever workers crash, do not start or cannot play, the chain comes to  *)
(* the next sentence, unless the host stopped one.                          *)
ChainSurvivesFailures ==
    \A t \in 1 .. MaxTexts : (flushed >= t) ~> (finished >= t \/ kills > 0)

(* The same without the exception: what is flushed is spoken or reported    *)
(* ("chaining after any in-progress speech", interactive-mode.ts,           *)
(* flushTtsBuffer).                                                        *)
ChainDrains == \A t \in 1 .. MaxTexts : (flushed >= t) ~> (finished >= t)

(* "Spawns the worker on first call, then reuses it" (tts.ts, speak): never *)
(* two workers at a time.                                                  *)
OneWorker == Cardinality({w \in Workers : Running(w)}) <= 1

(* "done" means "playback complete" (tts.ts, header): a sentence whose      *)
(* promise a "done" resolves has been played.                              *)
DoneMeansPlayed ==
    [][\A w \in Workers :
          stdout[w] # <<>> /\ Consume(w) /\ Message(w)[1] = "done" /\ slot # 0
             => \E i \in 1 .. Len(played) : played[i] = slot]_vars
=============================================================================
