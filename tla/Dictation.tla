----------------------------- MODULE Dictation -----------------------------
(***************************************************************************)
(* Push-to-talk dictation: the key handler of the interactive mode          *)
(* (handleRecordingToggle), STTService (services/stt.ts), and what it uses  *)
(* of TextStreamClient (services/textstream-client.ts): resume, pause with  *)
(* its drain, and the event stream of a server that is up.                  *)
(*                                                                         *)
(* Presses of the key are numbered; press k starts or stops a recording,    *)
(* and its handler goes on over several awaits while other presses come.    *)
(* Words are numbered as spoken; a text is a sequence of words.  The        *)
(* server hears words while its microphone is open, holds them as draft,    *)
(* and finalizes them from the front.                                      *)
(***************************************************************************)
EXTENDS Naturals, Sequences

CONSTANTS MaxPresses,   \* bound: presses of the key
          MaxWords,     \* bound: words spoken
          MaxFailures,  \* bound: HTTP requests that fail
          MayDisable    \* "yes": /stt off may be typed

ASSUME Bounds == MaxPresses \in Nat /\ MaxWords \in Nat /\ MaxFailures \in Nat
                 /\ MayDisable \in {"yes", "no"}

Press == 1 .. MaxPresses
Words == Seq(1 .. MaxWords)

VARIABLES
  (* STTService *)
  state,            \* _state
  enabled,          \* config.enabled, "yes" or "no"
  finalizedBuffer,
  lastDraftText,
  at,               \* where the handler of press k stands
  text,             \* what the handler of press k holds: its draft, its text
  (* TextStreamClient *)
  sse,              \* "closed", "connecting", "open"
  events,           \* events sent and not read: [finalized, draft]
  (* the server *)
  server,           \* "up" or "down"
  mic,              \* "on" or "off"
  heard,            \* words of this capture
  stable,           \* how many of them are finalized
  (* history *)
  presses, failures,
  overtaken,        \* "yes" once a press came while another was worked on
  late,             \* "yes" once the server finalized words after the drain
                    \* that follows their capture
  spokenIn,         \* for each word, the press that started its capture
  startedBy,        \* the press that started the recording press k stops
  capturedBy,       \* the press that opened the microphone last
  transcriptions    \* <<press, text>> given to onTranscription

serviceVars == <<state, enabled, finalizedBuffer, lastDraftText>>
handlerVars == <<at, text>>
streamVars  == <<sse, events>>
serverVars  == <<server, mic, heard, stable>>
historyVars == <<presses, failures, overtaken, late, spokenIn, startedBy,
                 capturedBy, transcriptions>>
vars == <<serviceVars, handlerVars, streamVars, serverVars, historyVars>>

Init ==
    /\ state = "idle" /\ enabled = "yes"
    /\ finalizedBuffer = <<>> /\ lastDraftText = <<>>
    /\ at = [k \in Press |-> "none"] /\ text = [k \in Press |-> <<>>]
    /\ sse \in {"closed", "connecting"}  \* load mode "lazy" or "auto"
    /\ events = <<>>
    /\ server = "up" /\ mic = "off" /\ heard = <<>> /\ stable = 0
    /\ presses = 0 /\ failures = 0 /\ overtaken = "no" /\ late = "no"
    /\ spokenIn = <<>>
    /\ startedBy = [k \in Press |-> 0] /\ capturedBy = 0
    /\ transcriptions = <<>>

Settled == \A k \in Press : at[k] \in {"none", "over"}
Move(k, there) == at' = [at EXCEPT ![k] = there]

-----------------------------------------------------------------------------
(* The key.                                                                 *)

(* The key handler is called at each press, whatever an earlier call awaits.*)
MayPress ==
    /\ enabled = "yes" /\ presses < MaxPresses
    /\ presses' = presses + 1
    /\ overtaken' = IF Settled THEN overtaken ELSE "yes"

(* startRecording, in any state but "recording": the buffers are cleared,   *)
(* resume() connects the event stream unless it is open, and GET /resume    *)
(* goes out.                                                               *)
PressToStart ==
    /\ MayPress /\ state # "recording"
    /\ state' = "recording"
    /\ finalizedBuffer' = <<>> /\ lastDraftText' = <<>>
    /\ Move(presses', "resuming")
    /\ sse' = IF sse = "open" THEN "open" ELSE "connecting"
    /\ UNCHANGED <<enabled, text, events, serverVars, failures, late, spokenIn,
                   startedBy, capturedBy, transcriptions>>

(* Mutant: /pause is only sent when the event stream is connected.          *)
PressToStopQuick ==
    /\ MayPress /\ state = "recording"
    /\ state' = "transcribing"
    /\ Move(presses', IF sse = "open" THEN "pausing" ELSE "draining")
    /\ startedBy' = [startedBy EXCEPT ![presses'] = presses]
    /\ UNCHANGED <<enabled, finalizedBuffer, lastDraftText, text, streamVars,
                   serverVars, failures, late, spokenIn, capturedBy, transcriptions>>

(* stopRecording: GET /pause goes out.                                      *)
PressToStop ==
    /\ MayPress /\ state = "recording"
    /\ state' = "transcribing"
    /\ Move(presses', "pausing")
    /\ startedBy' = [startedBy EXCEPT ![presses'] = presses]
    /\ UNCHANGED <<enabled, finalizedBuffer, lastDraftText, text, streamVars,
                   serverVars, failures, late, spokenIn, capturedBy, transcriptions>>

(* abort: the buffers are emptied and "idle" is shown.                      *)
Abort ==
    state' = "idle" /\ finalizedBuffer' = <<>> /\ lastDraftText' = <<>>

(* /stt off: setEnabled(false), then abort().  The client stops the server  *)
(* in the background; handlers that await the client go on.                 *)
Disable ==
    /\ MayDisable = "yes" /\ enabled = "yes"
    /\ enabled' = "no" /\ Abort
    /\ sse' = "closed" /\ events' = <<>>
    /\ UNCHANGED <<handlerVars, serverVars, historyVars>>

-----------------------------------------------------------------------------
(* TextStreamClient.resume.                                                 *)

(* A new capture of the server, unless it is capturing.                     *)
Open == mic' = "on"
        /\ IF mic = "on" THEN UNCHANGED <<heard, stable>>
                         ELSE heard' = <<>> /\ stable' = 0

ResumeArrives(k) ==
    /\ at[k] = "resuming" /\ server = "up"
    /\ Open
    /\ Move(k, "over")
    /\ capturedBy' = IF mic = "on" THEN capturedBy ELSE k
    /\ UNCHANGED <<serviceVars, text, streamVars, server, presses, failures,
                   overtaken, late, spokenIn, startedBy, transcriptions>>

ResumeFails(k) ==
    /\ at[k] = "resuming"
    /\ IF server = "up" THEN failures < MaxFailures /\ failures' = failures + 1
                        ELSE UNCHANGED failures
    /\ state' = "idle"
    /\ Move(k, "over")
    /\ UNCHANGED <<enabled, finalizedBuffer, lastDraftText, text, streamVars,
                   serverVars, presses, overtaken, late, spokenIn, startedBy,
                   capturedBy, transcriptions>>

SSEOpens ==
    /\ sse = "connecting" /\ server = "up"
    /\ sse' = "open"
    /\ UNCHANGED <<serviceVars, handlerVars, events, serverVars, historyVars>>

(* onFinalizedText replaces the buffer, onDraftText keeps the last draft    *)
(* that was not empty.                                                     *)
ReadEvent ==
    /\ events # <<>>
    /\ events' = Tail(events)
    /\ LET e == Head(events) IN
       /\ finalizedBuffer' = IF e.finalized # <<>> THEN e.finalized
                             ELSE finalizedBuffer
       /\ lastDraftText' = IF e.draft # <<>> THEN e.draft ELSE lastDraftText
    /\ UNCHANGED <<state, enabled, handlerVars, sse, serverVars, historyVars>>

-----------------------------------------------------------------------------
(* TextStreamClient.pause, and the rest of stopRecording.                   *)

draft == SubSeq(heard, stable + 1, Len(heard))

PauseArrives(k) ==
    /\ at[k] = "pausing" /\ server = "up"
    /\ mic' = "off"
    /\ Move(k, "draining")
    /\ UNCHANGED <<serviceVars, text, streamVars, server, heard, stable,
                   historyVars>>

(* A failed /pause is reported, and the drain goes on all the same.         *)
PauseFails(k) ==
    /\ at[k] = "pausing"
    /\ IF server = "up" THEN failures < MaxFailures /\ failures' = failures + 1
                        ELSE UNCHANGED failures
    /\ Move(k, "draining")
    /\ UNCHANGED <<serviceVars, text, streamVars, serverVars, presses, overtaken,
                   late, spokenIn, startedBy, capturedBy, transcriptions>>

(* drainDraft polls /engine until the draft is empty ...                    *)
Poll(k) ==
    /\ at[k] = "draining" /\ server = "up"
    /\ IF draft = <<>> THEN Move(k, "drained") /\ UNCHANGED text
                       ELSE text' = [text EXCEPT ![k] = draft] /\ UNCHANGED at
    /\ UNCHANGED <<serviceVars, streamVars, serverVars, historyVars>>

(* Mutant: the drain has no deadline while the server answers.              *)
NoDeadline(k) ==
    /\ at[k] = "draining" /\ server = "down"
    /\ Move(k, "drained")
    /\ UNCHANGED <<serviceVars, text, streamVars, serverVars, historyVars>>

(* ... or 200 ms have passed.                                               *)
Deadline(k) ==
    /\ at[k] = "draining"
    /\ Move(k, "drained")
    /\ UNCHANGED <<serviceVars, text, streamVars, serverVars, historyVars>>

Combined(k) ==
    finalizedBuffer \o (IF text[k] # <<>> THEN text[k] ELSE lastDraftText)

(* Mutant: pause() does not disconnect the event stream.                    *)
CombineConnected(k, parse) ==
    /\ at[k] = "drained"
    /\ finalizedBuffer' = <<>> /\ lastDraftText' = <<>>
    /\ text' = [text EXCEPT ![k] = Combined(k)]
    /\ state' = IF Combined(k) # <<>> /\ parse THEN "parsing" ELSE "idle"
    /\ Move(k, IF Combined(k) = <<>> THEN "over"
               ELSE IF parse THEN "parsing" ELSE "emitting")
    /\ UNCHANGED <<enabled, streamVars, serverVars, historyVars>>

(* pause() disconnects; the buffers are combined and cleared.               *)
Combine(k, parse) ==
    /\ at[k] = "drained"
    /\ sse' = "closed" /\ events' = <<>>
    /\ finalizedBuffer' = <<>> /\ lastDraftText' = <<>>
    /\ text' = [text EXCEPT ![k] = Combined(k)]
    /\ state' = IF Combined(k) # <<>> /\ parse THEN "parsing" ELSE "idle"
    /\ Move(k, IF Combined(k) = <<>> THEN "over"
               ELSE IF parse THEN "parsing" ELSE "emitting")
    /\ UNCHANGED <<enabled, serverVars, historyVars>>

(* The parser has returned, or failed; or there is none.                    *)
Emit(k) ==
    /\ at[k] \in {"parsing", "emitting"}
    /\ state' = IF at[k] = "parsing" THEN "idle" ELSE state
    /\ transcriptions' = Append(transcriptions, <<k, text[k]>>)
    /\ Move(k, "over")
    /\ UNCHANGED <<enabled, finalizedBuffer, lastDraftText, text, streamVars,
                   serverVars, presses, failures, overtaken, late, spokenIn,
                   startedBy, capturedBy>>

-----------------------------------------------------------------------------
(* The server and the speaker.                                              *)

(* Every change of the text is sent to the event stream.                    *)
Broadcast(words, n) ==
    events' = IF sse = "open"
              THEN Append(events, [finalized |-> SubSeq(words, 1, n),
                                   draft |-> SubSeq(words, n + 1, Len(words))])
              ELSE events

Speak ==
    /\ mic = "on" /\ Len(spokenIn) < MaxWords
    /\ heard' = Append(heard, Len(spokenIn) + 1)
    /\ spokenIn' = Append(spokenIn, capturedBy)
    /\ Broadcast(heard', stable)
    /\ UNCHANGED <<serviceVars, handlerVars, sse, server, mic, stable, presses,
                   failures, overtaken, late, startedBy, capturedBy, transcriptions>>

Finalize ==
    /\ server = "up" /\ stable < Len(heard)
    /\ late' = IF mic = "on" \/ \E k \in Press : at[k] = "draining" THEN late ELSE "yes"
    /\ stable' = stable + 1
    /\ Broadcast(heard, stable')
    /\ UNCHANGED <<serviceVars, handlerVars, sse, server, mic, heard, presses, failures,
                   overtaken, spokenIn, startedBy, capturedBy, transcriptions>>

ServerStops ==
    /\ enabled = "no" /\ server = "up"
    /\ server' = "down" /\ mic' = "off"
    /\ UNCHANGED <<serviceVars, handlerVars, streamVars, heard, stable,
                   historyVars>>

-----------------------------------------------------------------------------
Handler(k) ==
    \/ ResumeArrives(k) \/ ResumeFails(k) \/ PauseArrives(k) \/ PauseFails(k)
    \/ Deadline(k) \/ Emit(k)
    \/ \E parse \in BOOLEAN : Combine(k, parse)

Next ==
    \/ PressToStart \/ PressToStop \/ Disable
    \/ \E k \in Press : Handler(k) \/ Poll(k)
    \/ SSEOpens \/ ReadEvent \/ Speak \/ Finalize \/ ServerStops

Spec == Init /\ [][Next]_vars

(* Requests are answered or fail, and timers run out; the server need not   *)
(* finalize anything, nor the user do anything.                            *)
FairSpec == Spec /\ \A k \in Press : WF_vars(Handler(k))

-----------------------------------------------------------------------------
Event == [finalized : Words, draft : Words]

TypeOK ==
    /\ state \in {"idle", "recording", "transcribing", "parsing"}
    /\ enabled \in {"yes", "no"} /\ server \in {"up", "down"}
    /\ finalizedBuffer \in Words /\ lastDraftText \in Words
    /\ at \in [Press -> {"none", "resuming", "pausing", "draining", "drained",
                         "parsing", "emitting", "over"}]
    /\ text \in [Press -> Seq(1 .. MaxWords)]
    /\ sse \in {"closed", "connecting", "open"} /\ events \in Seq(Event)
    /\ mic \in {"on", "off"} /\ heard \in Words /\ stable \in 0 .. Len(heard)
    /\ presses \in 0 .. MaxPresses /\ failures \in 0 .. MaxFailures
    /\ overtaken \in {"yes", "no"} /\ late \in {"yes", "no"}
    /\ spokenIn \in Seq(Press)
    /\ startedBy \in [Press -> 0 .. MaxPresses] /\ capturedBy \in 0 .. MaxPresses
    /\ transcriptions \in Seq(Press \X Words)

(* "Press Ctrl+Space to start recording, press again to stop" (README:29).  *)
(* When no press is being worked on, however presses have overtaken each    *)
(* other and requests have failed, nothing is shown as under way but a      *)
(* recording, and that with an open microphone: the user never speaks into  *)
(* nothing.  Until a request fails or a press overtakes another, an open    *)
(* microphone is shown as well, so that the next press closes it.           *)
MicIsShown ==
    Settled =>
        /\ state \in {"idle", "recording"}
        /\ state = "recording" => mic = "on"
        /\ enabled = "yes" /\ failures = 0 /\ overtaken = "no" =>
              (mic = "on" => state = "recording")

(* A transcription holds only words of its own recording: nothing of an     *)
(* earlier one is left in the buffers, the event stream or the drain, until *)
(* a failed /pause has left the microphone open, a press has overtaken      *)
(* another, or the server has finalized words after their drain.            *)
OwnWords ==
    failures = 0 /\ overtaken = "no" /\ late = "no" => \A i \in 1 .. Len(transcriptions) :
        LET k == transcriptions[i][1]
            t == transcriptions[i][2]
        IN  \A j \in 1 .. Len(t) : spokenIn[t[j]] = startedBy[k]

(* The draft is "merged onto finalized text when PTT ends" (CONTEXT.md):    *)
(* no word is transcribed twice.                                           *)
EachWordOnce ==
    \A i \in 1 .. Len(transcriptions) :
        LET t == transcriptions[i][2]
        IN  \A j, l \in 1 .. Len(t) : t[j] = t[l] => j = l

(* Every press is done with in the end, also when /pause fails or the       *)
(* server never empties its draft, and with it "transcribing" and "parsing".*)
PressEnds ==
    \A k \in Press : (at[k] # "none") ~> (at[k] = "over")

(* "When disabled, all methods become no-ops" (stt.ts, setEnabled), and     *)
(* abort() is "without transcribing": no text comes after /stt off.         *)
NothingAfterOff == [][enabled = "no" => UNCHANGED transcriptions]_vars
=============================================================================
