-------------------------- MODULE Dictation_proofs --------------------------
(* Push-to-talk, for every number of presses, words and failures: what is   *)
(* shown, what is transcribed, and the types.                               *)
EXTENDS Dictation, SequenceTheorems, TLAPS

Stages == {"none", "resuming", "pausing", "draining", "drained",
           "parsing", "emitting", "over"}
Idle == {"none", "over"}

Controls ==
    /\ state \in {"idle", "recording", "transcribing", "parsing"}
    /\ at \in [Press -> Stages] /\ presses \in 0 .. MaxPresses
    /\ mic \in {"on", "off"} /\ failures \in Nat

(* Only the last press is being worked on.                                  *)
Alone == \A k \in Press : k # presses => at[k] \in Idle

(* What is shown, and the microphone, while the last press is at pc.        *)
Fits(pc) ==
    /\ pc = "resuming" => state = "recording" /\ mic = "off"
    /\ pc = "pausing" => state = "transcribing"
    /\ pc \in {"draining", "drained"} => state = "transcribing" /\ mic = "off"
    /\ pc = "parsing" => state = "parsing" /\ mic = "off"
    /\ pc = "emitting" => state = "idle" /\ mic = "off"
    /\ pc \in Idle => (mic = "on" <=> state = "recording")

Stage == IF presses = 0 THEN "none" ELSE at[presses]

IInv ==
    /\ Controls
    /\ Alone
    /\ enabled = "yes" => server = "up"
    /\ enabled = "yes" /\ failures = 0 => Fits(Stage)

-----------------------------------------------------------------------------

LEMMA InitHolds == Init => IInv
  BY Bounds DEF Init, IInv, Controls, Alone, Fits, Stage, Idle, Stages, Press

(* The press at work is the last one.                                       *)
LEMMA AtWork ==
  ASSUME IInv, NEW k \in Press, at[k] \notin Idle
  PROVE  k = presses /\ presses # 0 /\ Stage = at[k]
  BY Bounds DEF IInv, Alone, Stage, Press

(* After it has moved it still is.                                          *)
LEMMA Moved ==
  ASSUME IInv, NEW k \in Press, at[k] \notin Idle, NEW there \in Stages, Move(k, there),
         presses' = presses
  PROVE  at' \in [Press -> Stages] /\ Alone' /\ Stage' = there
  <1>1. k = presses /\ presses # 0
    BY AtWork
  <1>2. at \in [Press -> Stages] /\ \A j \in Press : j # presses => at[j] \in Idle
    BY DEF IInv, Controls, Alone
  <1> QED
    BY <1>1, <1>2 DEF Move, Alone, Stage

(* Until a press overtakes another, nothing is being worked on when one     *)
(* comes.                                                                   *)
LEMMA Pressed ==
  ASSUME IInv, MayPress, overtaken' = "no", NEW there \in Stages, Move(presses', there)
  PROVE  /\ Stage \in Idle
         /\ presses' \in 0 .. MaxPresses /\ at' \in [Press -> Stages]
         /\ Alone' /\ Stage' = there
  <1>1. /\ presses \in 0 .. MaxPresses /\ presses < MaxPresses /\ presses' = presses + 1
        /\ \A k \in Press : at[k] \in Idle
        /\ at \in [Press -> Stages]
    BY DEF IInv, Controls, MayPress, Settled, Idle
  <1>2. presses' \in Press /\ presses' # 0 /\ (presses # 0 => presses \in Press)
    BY <1>1, Bounds DEF Press
  <1>3. Stage \in Idle
    BY <1>1, <1>2 DEF Stage, Idle
  <1>4. at' = [at EXCEPT ![presses'] = there]
    BY DEF Move
  <1>5. at' \in [Press -> Stages] /\ at'[presses'] = there
        /\ \A k \in Press : k # presses' => at'[k] = at[k]
    BY <1>1, <1>2, <1>4
  <1>6. presses' \in 0 .. MaxPresses
    BY <1>1, Bounds
  <1> QED
    BY <1>1, <1>2, <1>3, <1>5, <1>6 DEF Alone, Stage

-----------------------------------------------------------------------------

LEMMA KeySteps ==
  ASSUME IInv, PressToStart \/ PressToStop, overtaken' = "no"
  PROVE  IInv'
  <1>0. enabled = "yes" /\ server = "up" /\ failures \in Nat /\ mic \in {"on", "off"}
    BY DEF PressToStart, PressToStop, MayPress, IInv, Controls
  <1>1. CASE PressToStart
    <2>1. /\ MayPress /\ Move(presses', "resuming") /\ state # "recording"
          /\ state' = "recording" /\ UNCHANGED <<mic, server, enabled, failures>>
      BY <1>1 DEF PressToStart, serverVars
    <2>2. /\ Stage \in Idle /\ presses' \in 0 .. MaxPresses /\ at' \in [Press -> Stages]
          /\ Alone' /\ Stage' = "resuming"
      BY <2>1, Pressed DEF Stages
    <2>3. failures = 0 => mic = "off"
      BY <1>0, <2>1, <2>2 DEF IInv, Fits
    <2> QED
      BY <1>0, <2>1, <2>2, <2>3 DEF IInv, Controls, Fits, Idle
  <1>2. CASE PressToStop
    <2>1. /\ MayPress /\ Move(presses', "pausing")
          /\ state' = "transcribing" /\ UNCHANGED <<mic, server, enabled, failures>>
      BY <1>2 DEF PressToStop, serverVars
    <2>2. /\ presses' \in 0 .. MaxPresses /\ at' \in [Press -> Stages]
          /\ Alone' /\ Stage' = "pausing"
      BY <2>1, Pressed DEF Stages
    <2> QED
      BY <1>0, <2>1, <2>2 DEF IInv, Controls, Fits, Idle
  <1> QED
    BY <1>1, <1>2

LEMMA ResumeSteps ==
  ASSUME IInv, NEW k \in Press, ResumeArrives(k) \/ ResumeFails(k)
  PROVE  IInv'
  <1>0. at[k] = "resuming" /\ Move(k, "over") /\ presses' = presses /\ Stage = "resuming"
    BY AtWork DEF ResumeArrives, ResumeFails, Idle
  <1>1. at' \in [Press -> Stages] /\ Alone' /\ Stage' = "over"
    BY <1>0, Moved DEF Idle, Stages
  <1>2. CASE ResumeArrives(k)
    <2>1. mic' = "on" /\ UNCHANGED <<state, enabled, server, failures>>
      BY <1>2 DEF ResumeArrives, Open, serviceVars
    <2> QED
      BY <1>0, <1>1, <2>1 DEF IInv, Controls, Fits, Idle
  <1>3. CASE ResumeFails(k)
    <2>1. /\ state' = "idle" /\ UNCHANGED <<enabled, server, mic>>
          /\ failures' \in Nat /\ (server = "up" => failures' # 0)
      BY <1>3 DEF ResumeFails, serverVars, IInv, Controls
    <2> QED
      BY <1>0, <1>1, <2>1 DEF IInv, Controls
  <1> QED
    BY <1>2, <1>3

LEMMA PauseSteps ==
  ASSUME IInv, NEW k \in Press, PauseArrives(k) \/ PauseFails(k)
  PROVE  IInv'
  <1>0. at[k] = "pausing" /\ Move(k, "draining") /\ presses' = presses /\ Stage = "pausing"
    BY AtWork DEF PauseArrives, PauseFails, Idle, historyVars
  <1>1. at' \in [Press -> Stages] /\ Alone' /\ Stage' = "draining"
    BY <1>0, Moved DEF Idle, Stages
  <1>2. CASE PauseArrives(k)
    <2>1. mic' = "off" /\ UNCHANGED <<state, enabled, server, failures>>
      BY <1>2 DEF PauseArrives, serviceVars, historyVars
    <2> QED
      BY <1>0, <1>1, <2>1 DEF IInv, Controls, Fits, Idle
  <1>3. CASE PauseFails(k)
    <2>1. /\ UNCHANGED <<state, enabled, server, mic>>
          /\ failures' \in Nat /\ (server = "up" => failures' # 0)
      BY <1>3 DEF PauseFails, serviceVars, serverVars, IInv, Controls
    <2> QED
      BY <1>0, <1>1, <2>1 DEF IInv, Controls
  <1> QED
    BY <1>2, <1>3

LEMMA DrainSteps ==
  ASSUME IInv, NEW k \in Press, Poll(k) \/ Deadline(k)
  PROVE  IInv'
  <1>0. /\ at[k] = "draining" /\ Stage = "draining"
        /\ UNCHANGED <<state, enabled, server, mic, failures, presses>>
    BY AtWork DEF Poll, Deadline, Idle, serviceVars, serverVars, historyVars
  <1>1. CASE Move(k, "drained")
    <2>1. at' \in [Press -> Stages] /\ Alone' /\ Stage' = "drained"
      BY <1>0, <1>1, Moved DEF Idle, Stages
    <2> QED
      BY <1>0, <2>1 DEF IInv, Controls, Fits, Idle
  <1>2. CASE UNCHANGED at
    BY <1>0, <1>2 DEF IInv, Controls, Alone, Stage, Fits
  <1> QED
    BY <1>1, <1>2 DEF Poll, Deadline

LEMMA CombineStep ==
  ASSUME IInv, NEW k \in Press, NEW parse \in BOOLEAN, Combine(k, parse)
  PROVE  IInv'
  <1>0. /\ at[k] = "drained" /\ Stage = "drained"
        /\ UNCHANGED <<enabled, server, mic, failures, presses>>
    BY AtWork DEF Combine, Idle, serverVars, historyVars
  <1>1. \/ Move(k, "over") /\ state' = "idle"
        \/ Move(k, "parsing") /\ state' = "parsing"
        \/ Move(k, "emitting") /\ state' = "idle"
    <2>1. CASE Combined(k) = <<>>
      BY <2>1 DEF Combine
    <2>2. CASE Combined(k) # <<>> /\ parse
      BY <2>2 DEF Combine
    <2>3. CASE Combined(k) # <<>> /\ ~parse
      BY <2>3 DEF Combine
    <2> QED
      BY <2>1, <2>2, <2>3
  <1>2. ASSUME NEW there \in {"over", "parsing", "emitting"}, Move(k, there)
        PROVE  at' \in [Press -> Stages] /\ Alone' /\ Stage' = there
    BY <1>0, <1>2, Moved DEF Idle, Stages
  <1>3. enabled = "yes" /\ failures = 0 => mic = "off"
    BY <1>0 DEF IInv, Fits
  <1> QED
    BY <1>0, <1>1, <1>2, <1>3 DEF IInv, Controls, Fits, Idle

LEMMA EmitStep ==
  ASSUME IInv, NEW k \in Press, Emit(k)
  PROVE  IInv'
  <1>1. /\ at[k] \in {"parsing", "emitting"} /\ Stage = at[k] /\ Move(k, "over")
        /\ state' = IF at[k] = "parsing" THEN "idle" ELSE state
        /\ UNCHANGED <<enabled, server, mic, failures, presses>>
    BY AtWork DEF Emit, Idle, serverVars
  <1>2. at' \in [Press -> Stages] /\ Alone' /\ Stage' = "over"
    BY <1>1, Moved DEF Idle, Stages
  <1> QED
    BY <1>1, <1>2 DEF IInv, Controls, Fits, Idle

(* What touches neither the handlers nor what is shown.                     *)
LEMMA OtherSteps ==
  ASSUME IInv, Disable \/ SSEOpens \/ ReadEvent \/ Speak \/ Finalize \/ ServerStops
  PROVE  IInv'
  <1>1. CASE Disable
    <2>1. enabled' = "no" /\ state' = "idle" /\ UNCHANGED <<server, mic, failures, presses, at>>
      BY <1>1 DEF Disable, Abort, handlerVars, serverVars, historyVars
    <2> QED
      BY <2>1 DEF IInv, Controls, Alone
  <1>2. CASE ServerStops
    <2>1. enabled = "no" /\ mic' = "off" /\ UNCHANGED <<enabled, state, failures, presses, at>>
      BY <1>2 DEF ServerStops, handlerVars, serviceVars, historyVars
    <2> QED
      BY <2>1 DEF IInv, Controls, Alone
  <1>3. CASE SSEOpens \/ ReadEvent \/ Speak \/ Finalize
    <2>1. UNCHANGED <<state, enabled, server, mic, failures, presses, at>>
      BY <1>3
      DEF SSEOpens, ReadEvent, Speak, Finalize, handlerVars, serviceVars, serverVars, historyVars
    <2> QED
      BY <2>1 DEF IInv, Controls, Alone, Fits, Stage
  <1> QED
    BY <1>1, <1>2, <1>3

LEMMA StepHolds == IInv /\ [Next]_vars /\ overtaken' = "no" => IInv'
  <1> SUFFICES ASSUME IInv, [Next]_vars, overtaken' = "no" PROVE IInv'
    OBVIOUS
  <1>1. CASE UNCHANGED vars
    BY <1>1
    DEF vars, serviceVars, handlerVars, serverVars, historyVars, IInv, Controls, Alone, Fits, Stage
  <1>2. ASSUME NEW k \in Press, Handler(k) \/ Poll(k) PROVE IInv'
    BY <1>2, ResumeSteps, PauseSteps, DrainSteps, CombineStep, EmitStep DEF Handler
  <1>3. CASE PressToStart \/ PressToStop
    BY <1>3, KeySteps
  <1>4. CASE Disable \/ SSEOpens \/ ReadEvent \/ Speak \/ Finalize \/ ServerStops
    BY <1>4, OtherSteps
  <1> QED
    BY <1>1, <1>2, <1>3, <1>4 DEF Next

-----------------------------------------------------------------------------

(* That a press overtook another, or the server was late, stays so.         *)
LEMMA StaysSo ==
  [Next]_vars => (overtaken' = "no" => overtaken = "no") /\ (late' = "no" => late = "no")
  <1> SUFFICES ASSUME [Next]_vars PROVE overtaken' \in {overtaken, "yes"} /\ late' \in {late, "yes"}
    BY Zenon
  <1>1. ASSUME NEW k \in Press, Handler(k) \/ Poll(k) PROVE overtaken' = overtaken /\ late' = late
    BY <1>1
    DEF Handler, ResumeArrives, ResumeFails, PauseArrives, PauseFails, Deadline, Emit, Combine,
        Poll, historyVars
  <1>2. CASE PressToStart \/ PressToStop
    BY <1>2 DEF PressToStart, PressToStop, MayPress
  <1>3. CASE Speak \/ Finalize
    BY <1>3 DEF Speak, Finalize
  <1>4. CASE Disable \/ SSEOpens \/ ReadEvent \/ ServerStops \/ UNCHANGED vars
    BY <1>4 DEF Disable, SSEOpens, ReadEvent, ServerStops, vars, historyVars
  <1> QED
    BY <1>1, <1>2, <1>3, <1>4 DEF Next

-----------------------------------------------------------------------------
(* Whose words are where.                                                   *)

(* The words of s that were spoken into the capture of press k.             *)
Mine(s, k) == {w \in 1 .. Len(s) : s[w] = k}

Sent(s, k) == [finalized : Seq(Mine(s, k)), draft : Seq(Mine(s, k))]

(* Transcriptions by presses up to n, each of what its recording heard.     *)
Given(s, by, n) == {p \in (1 .. n) \X Seq(Nat) : p[2] \in Seq(Mine(s, by[p[1]]))}

(* What the server holds, and what has come of it, is of one capture.       *)
Captured ==
    /\ spokenIn \in Seq(Nat) /\ capturedBy \in Nat
    /\ heard \in Seq(Mine(spokenIn, capturedBy)) /\ stable \in 0 .. Len(heard)
    /\ finalizedBuffer \in Seq(Mine(spokenIn, capturedBy))
    /\ lastDraftText \in Seq(Mine(spokenIn, capturedBy))
    /\ events \in Seq(Sent(spokenIn, capturedBy))

(* What a handler holds, and what has been transcribed, is of the recording *)
(* that its press stopped.                                                  *)
Transcribed ==
    /\ startedBy \in [Press -> Nat] /\ text \in [Press -> Seq(Nat)]
    /\ \A k \in Press : k > presses => text[k] = <<>>
    /\ Stage \in {"pausing", "draining", "drained"} =>
          /\ startedBy[presses] = capturedBy
          /\ text[presses] \in Seq(Mine(spokenIn, capturedBy))
    /\ Stage \in {"parsing", "emitting"} =>
          text[presses] \in Seq(Mine(spokenIn, startedBy[presses]))
    /\ transcriptions \in Seq(Given(spokenIn, startedBy, presses))

(* Between two captures nothing is on its way.                              *)
Calm ==
    /\ Stage = "resuming" =>
          mic = "off" /\ finalizedBuffer = <<>> /\ lastDraftText = <<>> /\ events = <<>>
    /\ Stage \in {"draining", "drained", "parsing", "emitting"} => mic = "off"
    /\ Stage \in Idle \cup {"parsing", "emitting"} /\ mic = "off" => events = <<>>
    /\ Stage \in Idle /\ mic = "on" => capturedBy = presses
    /\ enabled = "no" => sse = "closed" /\ events = <<>>
    /\ server # "up" => mic = "off"

OwnInv == failures = 0 => Captured /\ Transcribed /\ Calm

LEMMA SeqOfMore ==
  ASSUME NEW S, NEW T, S \subseteq T PROVE Seq(S) \subseteq Seq(T)
  BY SeqMonotonic

(* A word more leaves the words there are to whom they belonged.            *)
LEMMA MineGrows ==
  ASSUME NEW s \in Seq(Nat), NEW x \in Nat
  PROVE  /\ Append(s, x) \in Seq(Nat)
         /\ \A k : Mine(s, k) \subseteq Mine(Append(s, x), k)
         /\ Len(s) + 1 \in Mine(Append(s, x), x)
  <1> DEFINE r == Append(s, x)
             n == Len(s)
  <1>1. /\ r \in Seq(Nat) /\ Len(r) = n + 1 /\ r[n + 1] = x
        /\ \A i \in 1 .. n : r[i] = s[i]
    BY AppendProperties
  <1>2. n \in Nat
    BY LenProperties
  <1> HIDE DEF r, n
  <1>3. \A i \in 1 .. n : i \in 1 .. n + 1
    BY <1>2
  <1>4. n + 1 \in 1 .. n + 1
    BY <1>2
  <1> QED
    BY <1>1, <1>3, <1>4 DEF Mine, r, n

LEMMA SentGrows ==
  ASSUME NEW s, NEW r, NEW k, Mine(s, k) \subseteq Mine(r, k)
  PROVE  Seq(Mine(s, k)) \subseteq Seq(Mine(r, k)) /\ Seq(Sent(s, k)) \subseteq Seq(Sent(r, k))
  <1>1. Seq(Mine(s, k)) \subseteq Seq(Mine(r, k))
    BY SeqOfMore
  <1>2. Sent(s, k) \subseteq Sent(r, k)
    BY <1>1 DEF Sent
  <1> QED
    BY <1>1, <1>2, SeqOfMore

(* A transcription stays what it was: later words and presses are others.   *)
LEMMA GivenGrows ==
  ASSUME NEW s, NEW r, NEW by, NEW to, NEW n \in Nat, NEW m \in Nat, n <= m,
         \A k : Mine(s, k) \subseteq Mine(r, k),
         \A k \in 1 .. n : to[k] = by[k]
  PROVE  Seq(Given(s, by, n)) \subseteq Seq(Given(r, to, m))
  <1>1. \A k : Seq(Mine(s, k)) \subseteq Seq(Mine(r, k))
    BY SeqOfMore
  <1>2. 1 .. n \subseteq 1 .. m
    OBVIOUS
  <1>3. ASSUME NEW p \in Given(s, by, n) PROVE p \in Given(r, to, m)
    <2>1. p \in (1 .. n) \X Seq(Nat) /\ p[2] \in Seq(Mine(s, by[p[1]]))
      BY <1>3 DEF Given
    <2>2. p[1] \in 1 .. n /\ p \in (1 .. m) \X Seq(Nat)
      BY <1>2, <2>1
    <2>3. p[2] \in Seq(Mine(r, to[p[1]]))
      BY <1>1, <2>1, <2>2
    <2> QED
      BY <2>2, <2>3 DEF Given
  <1> QED
    BY <1>3, SeqOfMore

LEMMA PartOf ==
  ASSUME NEW S, NEW s \in Seq(S), NEW m \in Nat \ {0}, NEW n \in 0 .. Len(s)
  PROVE  SubSeq(s, m, n) \in Seq(S)
  <1>1. Len(s) \in Nat /\ \A i \in 1 .. Len(s) : s[i] \in S
    BY LenProperties, ElementOfSeq
  <1>2. \A i \in m .. n : s[i] \in S
    BY <1>1
  <1>3. m \in Int /\ n \in Int
    BY <1>1
  <1> QED
    BY <1>2, <1>3, SubSeqProperties

(* The last press, and the types the proofs keep needing.                   *)
LEMMA PressesIs ==
  ASSUME IInv PROVE presses \in Nat /\ 1 .. presses \subseteq Press
                    /\ (presses # 0 => presses \in Press)
  BY Bounds DEF IInv, Controls, Press

-----------------------------------------------------------------------------

LEMMA OwnStart ==
  ASSUME IInv, OwnInv, PressToStart, overtaken' = "no", failures' = 0
  PROVE  Captured' /\ Transcribed' /\ Calm'
  <1>0. /\ failures = 0 /\ Captured /\ Transcribed /\ Calm
        /\ presses \in Nat /\ enabled = "yes"
    BY PressesIs DEF PressToStart, OwnInv, MayPress
  <1>1. /\ MayPress /\ Move(presses', "resuming") /\ state # "recording"
        /\ presses' = presses + 1 /\ finalizedBuffer' = <<>> /\ lastDraftText' = <<>>
        /\ sse' \in {"open", "connecting"}
        /\ UNCHANGED <<enabled, text, events, server, mic, heard, stable, spokenIn,
                       startedBy, capturedBy, transcriptions>>
    BY DEF PressToStart, MayPress, serverVars
  <1>2. Stage \in Idle /\ Stage' = "resuming"
    BY <1>1, Pressed DEF Stages
  <1>3. mic = "off" /\ events = <<>>
    BY <1>0, <1>1, <1>2 DEF IInv, Controls, Fits, Calm
  <1>4. Captured'
    <2>1. \A S : <<>> \in Seq(S)
      BY EmptySeq
    <2> QED
      BY <1>0, <1>1, <2>1 DEF Captured
  <1>5. Transcribed'
    <2>1. Seq(Given(spokenIn, startedBy, presses)) \subseteq
             Seq(Given(spokenIn, startedBy, presses + 1))
      <3>1. presses + 1 \in Nat /\ presses <= presses + 1
        BY <1>0
      <3> QED
        BY <1>0, <3>1, GivenGrows
    <2>2. \A k \in Press : k > presses + 1 => k > presses
      BY <1>0, Bounds DEF Press
    <2> QED
      BY <1>0, <1>1, <1>2, <2>1, <2>2 DEF Transcribed
  <1>6. Calm'
    BY <1>0, <1>1, <1>2, <1>3 DEF Calm, Idle
  <1> QED
    BY <1>4, <1>5, <1>6

LEMMA OwnStop ==
  ASSUME IInv, OwnInv, PressToStop, overtaken' = "no", failures' = 0
  PROVE  Captured' /\ Transcribed' /\ Calm'
  <1>0. /\ failures = 0 /\ Captured /\ Transcribed /\ Calm
        /\ presses \in Nat /\ enabled = "yes"
    BY PressesIs DEF PressToStop, OwnInv, MayPress
  <1>1. /\ MayPress /\ Move(presses', "pausing") /\ state = "recording"
        /\ presses' = presses + 1
        /\ startedBy' = [startedBy EXCEPT ![presses'] = presses]
        /\ UNCHANGED <<enabled, finalizedBuffer, lastDraftText, text, events, sse, server,
                       mic, heard, stable, spokenIn, capturedBy, transcriptions>>
    BY DEF PressToStop, MayPress, serverVars, streamVars
  <1>2. Stage \in Idle /\ Stage' = "pausing" /\ presses' \in 0 .. MaxPresses
    BY <1>1, Pressed DEF Stages
  <1>3. mic = "on" /\ capturedBy = presses
    BY <1>0, <1>1, <1>2 DEF IInv, Controls, Fits, Calm
  <1>4. presses' \in Press /\ presses' > presses
    BY <1>0, <1>1, <1>2, Bounds DEF Press
  <1>5. Captured'
    BY <1>0, <1>1 DEF Captured
  <1>6. Transcribed'
    <2>1. /\ startedBy' \in [Press -> Nat] /\ startedBy'[presses'] = presses
          /\ \A k \in Press : k # presses' => startedBy'[k] = startedBy[k]
      BY <1>0, <1>1, <1>4 DEF Transcribed
    <2>2. Seq(Given(spokenIn, startedBy, presses)) \subseteq
             Seq(Given(spokenIn, startedBy', presses'))
      <3>1. presses' \in Nat /\ presses <= presses'
        BY <1>0, <1>1
      <3>2. \A k \in 1 .. presses : k \in Press /\ k # presses'
        BY <1>0, <1>1, PressesIs
      <3> QED
        BY <1>0, <2>1, <3>1, <3>2, GivenGrows
    <2>3. \A k \in Press : k > presses' => k > presses
      BY <1>0, <1>1, Bounds DEF Press
    <2>4. text[presses'] = <<>> /\ <<>> \in Seq(Mine(spokenIn, capturedBy))
      BY <1>0, <1>4, EmptySeq DEF Transcribed
    <2> QED
      BY <1>0, <1>1, <1>2, <1>3, <2>1, <2>2, <2>3, <2>4 DEF Transcribed
  <1>7. Calm'
    BY <1>0, <1>1, <1>2, <1>3 DEF Calm, Idle
  <1> QED
    BY <1>5, <1>6, <1>7

(* The handler at work moves; what has been captured and transcribed stays. *)
LEMMA OwnMoves ==
  ASSUME IInv, NEW k \in Press, at[k] \notin Idle, NEW there \in Stages, Move(k, there),
         presses' = presses
  PROVE  k = presses /\ presses \in Press /\ Stage = at[k] /\ Stage' = there
         /\ presses \in Nat
  BY AtWork, Moved, PressesIs

LEMMA OwnResume ==
  ASSUME IInv, OwnInv, NEW k \in Press, ResumeArrives(k) \/ ResumeFails(k), failures' = 0
  PROVE  Captured' /\ Transcribed' /\ Calm'
  <1>0. /\ at[k] = "resuming" /\ Move(k, "over")
        /\ UNCHANGED <<presses, enabled, finalizedBuffer, lastDraftText, text, sse, events,
                       server, spokenIn, startedBy, transcriptions>>
    BY DEF ResumeArrives, ResumeFails, serviceVars, streamVars, serverVars
  <1>1. k = presses /\ Stage = "resuming" /\ Stage' = "over" /\ presses \in Nat
    BY <1>0, OwnMoves DEF Idle, Stages
  <1>2. failures = 0 /\ (ResumeFails(k) => server # "up")
    <2>1. \A n \in Nat : n + 1 # 0
      OBVIOUS
    <2> QED
      BY <2>1 DEF ResumeArrives, ResumeFails, IInv, Controls
  <1>3. Captured /\ Transcribed /\ Calm
    BY <1>2 DEF OwnInv
  <1>4. mic = "off" /\ finalizedBuffer = <<>> /\ lastDraftText = <<>> /\ events = <<>>
    BY <1>1, <1>3 DEF Calm
  <1>5. Transcribed'
    BY <1>0, <1>1, <1>3 DEF Transcribed
  <1>6. CASE ResumeArrives(k)
    <2>1. /\ mic' = "on" /\ heard' = <<>> /\ stable' = 0 /\ capturedBy' = k /\ server = "up"
      BY <1>4, <1>6 DEF ResumeArrives, Open
    <2>2. (\A S : <<>> \in Seq(S)) /\ Len(<<>>) = 0
      BY EmptySeq
    <2>3. Captured'
      BY <1>0, <1>1, <1>3, <1>4, <2>1, <2>2 DEF Captured
    <2>4. Calm'
      BY <1>0, <1>1, <1>3, <2>1 DEF Calm
    <2> QED
      BY <1>5, <2>3, <2>4
  <1>7. CASE ResumeFails(k)
    <2>1. UNCHANGED <<mic, heard, stable, capturedBy>>
      BY <1>7 DEF ResumeFails, serverVars
    <2>2. Captured'
      BY <1>0, <1>3, <2>1 DEF Captured
    <2>3. Calm'
      BY <1>0, <1>1, <1>3, <1>4, <2>1 DEF Calm
    <2> QED
      BY <1>5, <2>2, <2>3
  <1> QED
    BY <1>6, <1>7

LEMMA OwnPause ==
  ASSUME IInv, OwnInv, NEW k \in Press, PauseArrives(k) \/ PauseFails(k), failures' = 0
  PROVE  Captured' /\ Transcribed' /\ Calm'
  <1>0. /\ at[k] = "pausing" /\ Move(k, "draining")
        /\ UNCHANGED <<presses, enabled, finalizedBuffer, lastDraftText, text, sse, events,
                       server, heard, stable, spokenIn, startedBy, capturedBy,
                       transcriptions>>
    BY DEF PauseArrives, PauseFails, serviceVars, streamVars, serverVars, historyVars
  <1>1. k = presses /\ Stage = "pausing" /\ Stage' = "draining" /\ presses \in Nat
    BY <1>0, OwnMoves DEF Idle, Stages
  <1>2. failures = 0 /\ (PauseFails(k) => server # "up" /\ mic' = mic)
        /\ (PauseArrives(k) => mic' = "off")
    <2>1. \A n \in Nat : n + 1 # 0
      OBVIOUS
    <2> QED
      BY <2>1 DEF PauseArrives, PauseFails, historyVars, serverVars, IInv, Controls
  <1>3. Captured /\ Transcribed /\ Calm
    BY <1>2 DEF OwnInv
  <1>4. mic' = "off"
    BY <1>2, <1>3 DEF Calm
  <1>5. Captured'
    BY <1>0, <1>3 DEF Captured
  <1>6. Transcribed'
    BY <1>0, <1>1, <1>3 DEF Transcribed
  <1>7. Calm'
    BY <1>0, <1>1, <1>3, <1>4 DEF Calm, Idle
  <1> QED
    BY <1>5, <1>6, <1>7

(* The draft that is drained is the end of what was heard.                  *)
LEMMA OwnDrain ==
  ASSUME IInv, OwnInv, NEW k \in Press, Poll(k) \/ Deadline(k), failures' = 0
  PROVE  Captured' /\ Transcribed' /\ Calm'
  <1>0. /\ at[k] = "draining"
        /\ UNCHANGED <<presses, enabled, finalizedBuffer, lastDraftText, sse, events, mic,
                       server, heard, stable, spokenIn, startedBy, capturedBy,
                       transcriptions, failures>>
    BY DEF Poll, Deadline, serviceVars, streamVars, serverVars, historyVars
  <1>1. k = presses /\ Stage = "draining" /\ presses \in Press /\ presses \in Nat
    BY <1>0, AtWork, PressesIs DEF Idle
  <1>2. Captured /\ Transcribed /\ Calm
    BY <1>0 DEF OwnInv
  <1>3. Captured'
    BY <1>0, <1>2 DEF Captured
  <1>4. CASE Move(k, "drained") /\ text' = text
    <2>1. Stage' = "drained"
      BY <1>0, <1>4, OwnMoves DEF Idle, Stages
    <2>2. Transcribed'
      BY <1>0, <1>1, <1>2, <1>4, <2>1 DEF Transcribed
    <2>3. Calm'
      BY <1>0, <1>1, <1>2, <2>1 DEF Calm, Idle
    <2> QED
      BY <1>3, <2>2, <2>3
  <1>5. CASE text' = [text EXCEPT ![k] = draft] /\ at' = at
    <2>1. Stage' = "draining"
      BY <1>0, <1>1, <1>5 DEF Stage
    <2>2. draft \in Seq(Mine(spokenIn, capturedBy))
      <3>1. stable \in 0 .. Len(heard) /\ Len(heard) \in Nat
            /\ heard \in Seq(Mine(spokenIn, capturedBy))
        BY <1>2, LenProperties DEF Captured
      <3>2. stable + 1 \in Nat \ {0} /\ Len(heard) \in 0 .. Len(heard)
        BY <3>1
      <3> QED
        BY <3>1, <3>2, PartOf DEF draft
    <2>3. draft \in Seq(Nat)
      <3>1. Mine(spokenIn, capturedBy) \subseteq Nat
        BY <1>2, LenProperties DEF Captured, Mine
      <3> QED
        BY <2>2, <3>1, SeqOfMore
    <2>4. /\ text' \in [Press -> Seq(Nat)] /\ text'[presses] = draft
          /\ \A j \in Press : j # presses => text'[j] = text[j]
      BY <1>1, <1>2, <1>5, <2>3 DEF Transcribed
    <2>5. Transcribed'
      <3>1. ~(presses > presses)
        BY <1>1
      <3> QED
        BY <1>0, <1>1, <1>2, <2>1, <2>2, <2>4, <3>1 DEF Transcribed
    <2>6. Calm'
      BY <1>0, <1>1, <1>2, <2>1 DEF Calm, Idle
    <2> QED
      BY <1>3, <2>5, <2>6
  <1> QED
    BY <1>4, <1>5 DEF Poll, Deadline

LEMMA OwnCombine ==
  ASSUME IInv, OwnInv, NEW k \in Press, NEW parse \in BOOLEAN, Combine(k, parse),
         failures' = 0
  PROVE  Captured' /\ Transcribed' /\ Calm'
  <1>0. /\ at[k] = "drained" /\ sse' = "closed" /\ events' = <<>>
        /\ finalizedBuffer' = <<>> /\ lastDraftText' = <<>>
        /\ text' = [text EXCEPT ![k] = Combined(k)]
        /\ Move(k, IF Combined(k) = <<>> THEN "over"
                   ELSE IF parse THEN "parsing" ELSE "emitting")
        /\ UNCHANGED <<presses, enabled, mic, server, heard, stable, spokenIn, startedBy,
                       capturedBy, transcriptions, failures>>
    BY DEF Combine, serverVars, historyVars
  <1>1. PICK there \in {"over", "parsing", "emitting"} : Move(k, there)
    BY <1>0
  <1>2. k = presses /\ Stage = "drained" /\ Stage' = there /\ presses \in Press
        /\ presses \in Nat
    BY <1>0, <1>1, OwnMoves DEF Idle, Stages
  <1>3. Captured /\ Transcribed /\ Calm
    BY <1>0 DEF OwnInv
  <1>4. Captured'
    <2>1. \A S : <<>> \in Seq(S)
      BY EmptySeq
    <2> QED
      BY <1>0, <1>3, <2>1 DEF Captured
  <1>5. Transcribed'
    <2>1. Combined(k) \in Seq(Mine(spokenIn, capturedBy))
      <3> DEFINE rest == IF text[k] # <<>> THEN text[k] ELSE lastDraftText
      <3>1. /\ finalizedBuffer \in Seq(Mine(spokenIn, capturedBy))
            /\ rest \in Seq(Mine(spokenIn, capturedBy))
        BY <1>2, <1>3 DEF Captured, Transcribed
      <3> HIDE DEF rest
      <3>2. finalizedBuffer \o rest \in Seq(Mine(spokenIn, capturedBy))
        BY <3>1, ConcatProperties
      <3> QED
        BY <3>2 DEF Combined, rest
    <2>2. Combined(k) \in Seq(Nat)
      <3>1. Mine(spokenIn, capturedBy) \subseteq Nat
        BY <1>3, LenProperties DEF Captured, Mine
      <3> QED
        BY <2>1, <3>1, SeqOfMore
    <2>3. /\ text' \in [Press -> Seq(Nat)] /\ text'[presses] = Combined(k)
          /\ \A j \in Press : j # presses => text'[j] = text[j]
      BY <1>0, <1>2, <1>3, <2>2 DEF Transcribed
    <2>4. startedBy[presses] = capturedBy
      BY <1>2, <1>3 DEF Transcribed
    <2>5. ~(presses > presses)
      BY <1>2
    <2> QED
      BY <1>0, <1>2, <1>3, <2>1, <2>3, <2>4, <2>5 DEF Transcribed
  <1>6. Calm'
    BY <1>0, <1>2, <1>3 DEF Calm, Idle
  <1> QED
    BY <1>4, <1>5, <1>6

LEMMA OwnEmit ==
  ASSUME IInv, OwnInv, NEW k \in Press, Emit(k), failures' = 0
  PROVE  Captured' /\ Transcribed' /\ Calm'
  <1>0. /\ at[k] \in {"parsing", "emitting"} /\ Move(k, "over")
        /\ transcriptions' = Append(transcriptions, <<k, text[k]>>)
        /\ UNCHANGED <<presses, enabled, finalizedBuffer, lastDraftText, text, sse, events,
                       mic, server, heard, stable, spokenIn, startedBy, capturedBy,
                       failures>>
    BY DEF Emit, serverVars, streamVars
  <1>1. k = presses /\ Stage \in {"parsing", "emitting"} /\ Stage' = "over"
        /\ presses \in Nat /\ presses # 0
    BY <1>0, OwnMoves, AtWork DEF Idle, Stages
  <1>2. Captured /\ Transcribed /\ Calm
    BY <1>0 DEF OwnInv
  <1>3. Captured'
    BY <1>0, <1>2 DEF Captured
  <1>4. Transcribed'
    <2>1. text[k] \in Seq(Mine(spokenIn, startedBy[k])) /\ text[k] \in Seq(Nat)
      BY <1>1, <1>2 DEF Transcribed
    <2>2. k \in 1 .. presses
      BY <1>1
    <2> DEFINE p == <<k, text[k]>>
    <2>3. p \in Given(spokenIn, startedBy, presses)
      BY <2>1, <2>2 DEF Given
    <2> HIDE DEF p
    <2>4. Append(transcriptions, p) \in Seq(Given(spokenIn, startedBy, presses))
      BY <1>2, <2>3, AppendProperties DEF Transcribed
    <2> QED
      BY <1>0, <1>1, <1>2, <2>4 DEF Transcribed, p
  <1>5. Calm'
    BY <1>0, <1>1, <1>2 DEF Calm, Idle
  <1> QED
    BY <1>3, <1>4, <1>5

-----------------------------------------------------------------------------
(* The event stream, the server and the speaker.                            *)

LEMMA OwnRead ==
  ASSUME IInv, OwnInv, ReadEvent, failures' = 0
  PROVE  Captured' /\ Transcribed' /\ Calm'
  <1>0. /\ events # <<>> /\ events' = Tail(events)
        /\ finalizedBuffer' \in {finalizedBuffer, Head(events).finalized}
        /\ lastDraftText' \in {lastDraftText, Head(events).draft}
        /\ UNCHANGED <<presses, at, enabled, text, sse, mic, server, heard, stable, spokenIn,
                       startedBy, capturedBy, transcriptions, failures>>
    BY DEF ReadEvent, handlerVars, serverVars, historyVars
  <1>1. Captured /\ Transcribed /\ Calm /\ Stage' = Stage
    BY <1>0 DEF OwnInv, Stage
  <1>2. /\ Head(events) \in Sent(spokenIn, capturedBy)
        /\ Tail(events) \in Seq(Sent(spokenIn, capturedBy))
    BY <1>0, <1>1, HeadTailProperties DEF Captured
  <1>3. /\ Head(events).finalized \in Seq(Mine(spokenIn, capturedBy))
        /\ Head(events).draft \in Seq(Mine(spokenIn, capturedBy))
    BY <1>2 DEF Sent
  <1>4. Captured'
    BY <1>0, <1>1, <1>2, <1>3 DEF Captured
  <1>5. Transcribed'
    BY <1>0, <1>1 DEF Transcribed
  <1>6. Calm'
    BY <1>0, <1>1 DEF Calm, Idle
  <1> QED
    BY <1>4, <1>5, <1>6

(* What is sent is a front and the rest of what was heard.                  *)
LEMMA BroadcastIs ==
  ASSUME NEW s, NEW k, NEW words \in Seq(Mine(s, k)), NEW n \in 0 .. Len(words),
         events \in Seq(Sent(s, k)), Broadcast(words, n)
  PROVE  events' \in Seq(Sent(s, k)) /\ (sse = "closed" => events' = events)
  <1>1. Len(words) \in Nat
    BY LenProperties
  <1>2. /\ n + 1 \in Nat \ {0} /\ 1 \in Nat \ {0}
        /\ Len(words) \in 0 .. Len(words)
    BY <1>1
  <1> DEFINE e == [finalized |-> SubSeq(words, 1, n),
                   draft |-> SubSeq(words, n + 1, Len(words))]
  <1>3. SubSeq(words, 1, n) \in Seq(Mine(s, k))
        /\ SubSeq(words, n + 1, Len(words)) \in Seq(Mine(s, k))
    BY <1>2, PartOf
  <1>4. e \in Sent(s, k)
    BY <1>3 DEF Sent
  <1>5. events' = IF sse = "open" THEN Append(events, e) ELSE events
    BY DEF Broadcast
  <1> HIDE DEF e
  <1> QED
    BY <1>4, <1>5, AppendProperties

LEMMA OwnSpeak ==
  ASSUME IInv, OwnInv, Speak, failures' = 0
  PROVE  Captured' /\ Transcribed' /\ Calm'
  <1>0. /\ mic = "on" /\ heard' = Append(heard, Len(spokenIn) + 1)
        /\ spokenIn' = Append(spokenIn, capturedBy) /\ Broadcast(heard', stable)
        /\ UNCHANGED <<presses, at, enabled, finalizedBuffer, lastDraftText, text, sse, mic,
                       server, stable, startedBy, capturedBy, transcriptions, failures>>
    BY DEF Speak, serviceVars, handlerVars
  <1>1. Captured /\ Transcribed /\ Calm /\ Stage' = Stage /\ presses \in Nat
    BY <1>0, PressesIs DEF OwnInv, Stage
  <1>2. /\ spokenIn' \in Seq(Nat)
        /\ \A k : Mine(spokenIn, k) \subseteq Mine(spokenIn', k)
        /\ Len(spokenIn) + 1 \in Mine(spokenIn', capturedBy)
    BY <1>0, <1>1, MineGrows DEF Captured
  <1>3. /\ \A k : Seq(Mine(spokenIn, k)) \subseteq Seq(Mine(spokenIn', k))
        /\ Seq(Sent(spokenIn, capturedBy)) \subseteq Seq(Sent(spokenIn', capturedBy))
    BY <1>2, SentGrows
  <1>4. heard' \in Seq(Mine(spokenIn', capturedBy)) /\ Len(heard') = Len(heard) + 1
    BY <1>0, <1>1, <1>2, <1>3, AppendProperties DEF Captured
  <1>5. stable \in 0 .. Len(heard')
    <2>1. Len(heard) \in Nat /\ stable \in 0 .. Len(heard)
      BY <1>1, LenProperties DEF Captured
    <2> QED
      BY <1>4, <2>1
  <1>6. /\ events' \in Seq(Sent(spokenIn', capturedBy))
        /\ (sse = "closed" => events' = events)
    <2>1. events \in Seq(Sent(spokenIn', capturedBy))
      BY <1>1, <1>3 DEF Captured
    <2> QED
      BY <1>0, <1>4, <1>5, <2>1, BroadcastIs
  <1>7. Captured'
    BY <1>0, <1>1, <1>2, <1>3, <1>4, <1>5, <1>6 DEF Captured
  <1>8. Transcribed'
    <2>1. Seq(Given(spokenIn, startedBy, presses)) \subseteq
             Seq(Given(spokenIn', startedBy, presses))
      BY <1>1, <1>2, GivenGrows
    <2> QED
      BY <1>0, <1>1, <1>3, <2>1 DEF Transcribed
  <1>9. Calm'
    BY <1>0, <1>1, <1>6 DEF Calm, Idle
  <1> QED
    BY <1>7, <1>8, <1>9

(* Until the server is late, it finalizes while it captures or is drained.  *)
LEMMA OwnFinalize ==
  ASSUME IInv, OwnInv, Finalize, late' = "no", failures' = 0
  PROVE  Captured' /\ Transcribed' /\ Calm'
  <1>0. /\ mic = "on" \/ \E k \in Press : at[k] = "draining"
        /\ stable < Len(heard) /\ stable' = stable + 1 /\ Broadcast(heard, stable')
        /\ UNCHANGED <<presses, at, enabled, finalizedBuffer, lastDraftText, text, sse, mic,
                       server, heard, spokenIn, startedBy, capturedBy, transcriptions,
                       failures>>
    BY DEF Finalize, serviceVars, handlerVars, historyVars
  <1>1. Captured /\ Transcribed /\ Calm /\ Stage' = Stage
    BY <1>0 DEF OwnInv, Stage
  <1>2. stable' \in 0 .. Len(heard)
    <2>1. Len(heard) \in Nat /\ stable \in 0 .. Len(heard)
      BY <1>1, LenProperties DEF Captured
    <2> QED
      BY <1>0, <2>1
  <1>3. /\ events' \in Seq(Sent(spokenIn, capturedBy))
        /\ (sse = "closed" => events' = events)
    BY <1>0, <1>1, <1>2, BroadcastIs DEF Captured
  <1>4. mic = "on" \/ Stage = "draining"
    BY <1>0, AtWork DEF Idle
  <1>5. Captured'
    BY <1>0, <1>1, <1>2, <1>3 DEF Captured
  <1>6. Transcribed'
    BY <1>0, <1>1 DEF Transcribed
  <1>7. Calm'
    BY <1>0, <1>1, <1>3, <1>4 DEF Calm, Idle
  <1> QED
    BY <1>5, <1>6, <1>7

LEMMA OwnOthers ==
  ASSUME IInv, OwnInv, Disable \/ SSEOpens \/ ServerStops \/ UNCHANGED vars, failures' = 0
  PROVE  Captured' /\ Transcribed' /\ Calm'
  <1>0. /\ UNCHANGED <<at, text, heard, stable, presses, failures, spokenIn, startedBy,
                       capturedBy, transcriptions>>
        /\ events' \in {events, <<>>}
        /\ finalizedBuffer' \in {finalizedBuffer, <<>>}
        /\ lastDraftText' \in {lastDraftText, <<>>}
    BY DEF Disable, Abort, SSEOpens, ServerStops, vars, serviceVars, handlerVars, streamVars,
           serverVars, historyVars
  <1>1. Captured /\ Transcribed /\ Calm /\ Stage' = Stage
    BY <1>0 DEF OwnInv, Stage
  <1>2. Captured'
    <2>1. \A S : <<>> \in Seq(S)
      BY EmptySeq
    <2> QED
      BY <1>0, <1>1, <2>1 DEF Captured
  <1>3. Transcribed'
    BY <1>0, <1>1 DEF Transcribed
  <1>4. Calm'
    <2>1. CASE Disable
      BY <1>0, <1>1, <2>1 DEF Disable, Abort, serverVars, Calm, Idle
    <2>2. CASE SSEOpens
      BY <1>0, <1>1, <2>2 DEF SSEOpens, serviceVars, serverVars, Calm, Idle
    <2>3. CASE ServerStops
      BY <1>0, <1>1, <2>3 DEF ServerStops, serviceVars, streamVars, Calm, Idle
    <2>4. CASE UNCHANGED vars
      BY <1>0, <1>1, <2>4 DEF vars, serviceVars, streamVars, serverVars, Calm, Idle
    <2> QED
      BY <2>1, <2>2, <2>3, <2>4
  <1> QED
    BY <1>2, <1>3, <1>4

(* A transcription holds words of its own recording only, until a request   *)
(* fails, a press comes while another is worked on, or the server finalizes *)
(* words after the drain: what resume(), the drain and pause() leave in the *)
(* buffers and in the event stream is never of another recording.           *)
THEOREM TranscriptionsAreOwn == Spec => []OwnWords
  <1> DEFINE Waited == overtaken = "no" => IInv /\ (late = "no" => OwnInv)
  <1>1. Init => OwnInv
    <2> SUFFICES ASSUME Init PROVE Captured /\ Transcribed /\ Calm
      BY DEF OwnInv
    <2>1. (\A S : <<>> \in Seq(S)) /\ Len(<<>>) = 0
      BY EmptySeq
    <2>2. Captured
      BY <2>1 DEF Init, Captured
    <2>3. Transcribed /\ Calm
      BY <2>1 DEF Init, Transcribed, Calm, Stage, Idle
    <2> QED
      BY <2>2, <2>3
  <1>2. IInv /\ OwnInv /\ [Next]_vars /\ overtaken' = "no" /\ late' = "no" => OwnInv'
    <2> SUFFICES ASSUME IInv, OwnInv, [Next]_vars, overtaken' = "no", late' = "no",
                        failures' = 0
                 PROVE  Captured' /\ Transcribed' /\ Calm'
      BY DEF OwnInv
    <2>1. ASSUME NEW k \in Press, Handler(k) \/ Poll(k)
          PROVE  Captured' /\ Transcribed' /\ Calm'
      BY <2>1, OwnResume, OwnPause, OwnDrain, OwnCombine, OwnEmit DEF Handler
    <2> QED
      BY <2>1, OwnStart, OwnStop, OwnRead, OwnSpeak, OwnFinalize, OwnOthers DEF Next
  <1>3. OwnInv => OwnWords
    <2> SUFFICES ASSUME OwnInv, failures = 0, NEW i \in 1 .. Len(transcriptions)
                 PROVE  LET k == transcriptions[i][1]
                            t == transcriptions[i][2]
                        IN  \A j \in 1 .. Len(t) : spokenIn[t[j]] = startedBy[k]
      BY DEF OwnWords
    <2> DEFINE p == transcriptions[i]
    <2>1. p \in Given(spokenIn, startedBy, presses)
      BY ElementOfSeq DEF OwnInv, Transcribed
    <2>2. p[2] \in Seq(Mine(spokenIn, startedBy[p[1]]))
      BY <2>1 DEF Given
    <2>3. \A j \in 1 .. Len(p[2]) : p[2][j] \in Mine(spokenIn, startedBy[p[1]])
      BY <2>2, ElementOfSeq
    <2> QED
      BY <2>3 DEF Mine
  <1>4. Waited /\ [Next]_vars => Waited'
    BY <1>2, StepHolds, StaysSo
  <1>5. Init => Waited
    BY <1>1, InitHolds
  <1>6. Waited => OwnWords
    BY <1>3 DEF OwnWords
  <1> QED
    BY <1>4, <1>5, <1>6, PTL DEF Spec

-----------------------------------------------------------------------------
(* All types, with the bounds, for every user: however the presses come,    *)
(* only the words spoken are drafted, finalized, held and transcribed.      *)

(* A word is spoken into the capture of a press.                            *)
Opened == mic = "on" => capturedBy # 0

TypeInv == TypeOK /\ Opened

ServerTypes ==
    /\ server \in {"up", "down"} /\ mic \in {"on", "off"}
    /\ heard \in Words /\ stable \in 0 .. Len(heard)
    /\ spokenIn \in Seq(Press) /\ capturedBy \in 0 .. MaxPresses
    /\ Opened

StreamTypes == sse \in {"closed", "connecting", "open"} /\ events \in Seq(Event)

ServiceTypes ==
    /\ state \in {"idle", "recording", "transcribing", "parsing"} /\ enabled \in {"yes", "no"}
    /\ finalizedBuffer \in Words /\ lastDraftText \in Words

HandlerTypes == at \in [Press -> Stages] /\ text \in [Press -> Words]

HistoryTypes ==
    /\ presses \in 0 .. MaxPresses /\ failures \in 0 .. MaxFailures
    /\ overtaken \in {"yes", "no"} /\ late \in {"yes", "no"}
    /\ startedBy \in [Press -> 0 .. MaxPresses]
    /\ transcriptions \in Seq(Press \X Words)

LEMMA TypeParts ==
  /\ TypeInv => ServerTypes /\ StreamTypes /\ ServiceTypes /\ HandlerTypes /\ HistoryTypes
  /\ ServerTypes /\ StreamTypes /\ ServiceTypes /\ HandlerTypes /\ HistoryTypes => TypeInv
  /\ (ServerTypes /\ StreamTypes /\ ServiceTypes /\ HandlerTypes /\ HistoryTypes)' => TypeInv'
  BY DEF TypeInv, TypeOK, Words, Stages,
         ServerTypes, StreamTypes, ServiceTypes, HandlerTypes, HistoryTypes

(* A step that leaves one component alone leaves its types.                 *)
LEMMA ServerSame ==
  ASSUME ServerTypes, UNCHANGED <<serverVars, spokenIn, capturedBy>> PROVE ServerTypes'
  BY DEF ServerTypes, serverVars, Opened

LEMMA StreamSame == ASSUME StreamTypes, UNCHANGED streamVars PROVE StreamTypes'
  BY DEF StreamTypes, streamVars

LEMMA ServiceSame == ASSUME ServiceTypes, UNCHANGED serviceVars PROVE ServiceTypes'
  BY DEF ServiceTypes, serviceVars

LEMMA HandlerSame == ASSUME HandlerTypes, UNCHANGED handlerVars PROVE HandlerTypes'
  BY DEF HandlerTypes, handlerVars

LEMMA HistorySame ==
  ASSUME HistoryTypes, UNCHANGED <<presses, failures, startedBy, transcriptions>>,
         overtaken' \in {overtaken, "yes"}, late' \in {late, "yes"}
  PROVE  HistoryTypes'
  BY DEF HistoryTypes

(* A handler that moves on, with another text or the same.                  *)
LEMMA HandlerMoves ==
  ASSUME HandlerTypes, NEW k \in Press, NEW there \in Stages, NEW t \in Words,
         Move(k, there) \/ UNCHANGED at,
         text' = [text EXCEPT ![k] = t] \/ UNCHANGED text
  PROVE  HandlerTypes'
  BY DEF HandlerTypes, Move

LEMMA WordsFacts ==
  /\ <<>> \in Words
  /\ \A s, t \in Words : s \o t \in Words
  BY ConcatProperties DEF Words

LEMMA WordsPart ==
  ASSUME NEW s \in Words, NEW m \in 1 .. (Len(s) + 1), NEW n \in 0 .. Len(s)
  PROVE  SubSeq(s, m, n) \in Words
  <1>1. s \in Seq(1 .. MaxWords) /\ Len(s) \in Nat
    BY LenProperties DEF Words
  <1>2. m \in Nat \ {0} /\ n \in 0 .. Len(s)
    BY <1>1
  <1>3. SubSeq(s, m, n) \in Seq(1 .. MaxWords)
    BY <1>1, <1>2, PartOf
  <1> QED
    BY <1>3 DEF Words

LEMMA TypesOfKeys ==
  ASSUME TypeInv, PressToStart \/ PressToStop \/ Disable
  PROVE  TypeInv'
  <1>0. /\ ServerTypes /\ StreamTypes /\ ServiceTypes /\ HandlerTypes /\ HistoryTypes
        /\ <<>> \in Words /\ MaxPresses \in Nat
    BY TypeParts, WordsFacts, Bounds
  <1>1. ServerTypes'
    BY <1>0, ServerSame DEF PressToStart, PressToStop, Disable, Abort, historyVars
  <1>2. CASE Disable
    BY <1>0, <1>1, <1>2, HandlerSame, HistorySame, TypeParts
    DEF Disable, Abort, ServiceTypes, StreamTypes, historyVars
  <1>3. CASE PressToStart \/ PressToStop
    <2>1. /\ presses \in 0 .. MaxPresses /\ presses < MaxPresses /\ presses' = presses + 1
          /\ presses' \in Press /\ presses' \in 0 .. MaxPresses
      BY <1>0, <1>3 DEF PressToStart, PressToStop, MayPress, HistoryTypes, Press
    <2>2. HandlerTypes'
      BY <1>0, <1>3, <2>1, HandlerMoves DEF PressToStart, PressToStop, Stages
    <2>3. ServiceTypes' /\ StreamTypes'
      BY <1>0, <1>3, StreamSame DEF PressToStart, PressToStop, ServiceTypes, StreamTypes
    <2>4. HistoryTypes'
      <3>1. overtaken' \in {overtaken, "yes"} /\ late' = late
        BY <1>3 DEF PressToStart, PressToStop, MayPress
      <3> QED
        BY <1>0, <1>3, <2>1, <3>1 DEF PressToStart, PressToStop, HistoryTypes
    <2> QED
      BY <1>1, <2>2, <2>3, <2>4, TypeParts
  <1> QED
    BY <1>2, <1>3

LEMMA TypesOfRequests ==
  ASSUME TypeInv, NEW k \in Press,
         ResumeArrives(k) \/ ResumeFails(k) \/ PauseArrives(k) \/ PauseFails(k)
  PROVE  TypeInv'
  <1>0. /\ ServerTypes /\ StreamTypes /\ ServiceTypes /\ HandlerTypes /\ HistoryTypes
        /\ <<>> \in Words /\ MaxPresses \in Nat /\ MaxFailures \in Nat
    BY TypeParts, WordsFacts, Bounds
  <1>1. StreamTypes'
    BY <1>0, StreamSame DEF ResumeArrives, ResumeFails, PauseArrives, PauseFails
  <1>2. HandlerTypes'
    BY <1>0, HandlerMoves DEF ResumeArrives, ResumeFails, PauseArrives, PauseFails, Stages
  <1>3. ServiceTypes'
    BY <1>0, ServiceSame
    DEF ResumeArrives, ResumeFails, PauseArrives, PauseFails, ServiceTypes
  <1>4. HistoryTypes'
    <2>1. failures \in 0 .. MaxFailures
          /\ (failures' = failures \/ (failures < MaxFailures /\ failures' = failures + 1))
      BY <1>0 DEF ResumeArrives, ResumeFails, PauseArrives, PauseFails, HistoryTypes, historyVars
    <2>2. failures' \in 0 .. MaxFailures
      BY <1>0, <2>1
    <2>3. UNCHANGED <<presses, overtaken, late, startedBy, transcriptions>>
      BY DEF ResumeArrives, ResumeFails, PauseArrives, PauseFails, historyVars
    <2> QED
      BY <1>0, <2>2, <2>3 DEF HistoryTypes
  <1>5. ServerTypes'
    <2>1. CASE ResumeArrives(k)
      <3>1. k \in 0 .. MaxPresses /\ k # 0
        BY <1>0 DEF Press
      <3>2. /\ server' = server /\ spokenIn' = spokenIn /\ mic' = "on"
            /\ heard' \in Words /\ stable' \in 0 .. Len(heard')
        <4>1. CASE mic = "on"
          BY <1>0, <2>1, <4>1 DEF ResumeArrives, Open, ServerTypes
        <4>2. CASE mic # "on"
          BY <1>0, <2>1, <4>2 DEF ResumeArrives, Open
        <4> QED
          BY <2>1, <4>1, <4>2 DEF ResumeArrives, Open
      <3>3. capturedBy' \in 0 .. MaxPresses /\ capturedBy' # 0
        BY <1>0, <2>1, <3>1 DEF ResumeArrives, ServerTypes, Opened
      <3> QED
        BY <1>0, <3>2, <3>3 DEF ServerTypes, Opened
    <2>2. CASE PauseArrives(k)
      BY <1>0, <2>2 DEF PauseArrives, ServerTypes, Opened, historyVars
    <2>3. CASE ResumeFails(k) \/ PauseFails(k)
      BY <1>0, <2>3, ServerSame DEF ResumeFails, PauseFails
    <2> QED
      BY <2>1, <2>2, <2>3
  <1> QED
    BY <1>1, <1>2, <1>3, <1>4, <1>5, TypeParts

LEMMA TypesOfDrain ==
  ASSUME TypeInv, NEW k \in Press, Poll(k) \/ Deadline(k)
  PROVE  TypeInv'
  <1>0. ServerTypes /\ StreamTypes /\ ServiceTypes /\ HandlerTypes /\ HistoryTypes
    BY TypeParts
  <1>1. draft \in Words
    BY <1>0, WordsPart, LenProperties DEF draft, ServerTypes, Words
  <1>2. HandlerTypes'
    BY <1>0, <1>1, HandlerMoves DEF Poll, Deadline, Stages
  <1> QED
    BY <1>0, <1>2, ServerSame, StreamSame, ServiceSame, HistorySame, TypeParts
    DEF Poll, Deadline, historyVars

LEMMA TypesOfText ==
  ASSUME TypeInv, NEW k \in Press,
         Emit(k) \/ \E parse \in BOOLEAN : Combine(k, parse)
  PROVE  TypeInv'
  <1>0. /\ ServerTypes /\ StreamTypes /\ ServiceTypes /\ HandlerTypes /\ HistoryTypes
        /\ <<>> \in Words
    BY TypeParts, WordsFacts
  <1>1. CASE Emit(k)
    <2>1. HandlerTypes'
      BY <1>0, <1>1, HandlerMoves DEF Emit, Stages
    <2>2. text[k] \in Words /\ <<k, text[k]>> \in Press \X Words
      BY <1>0 DEF HandlerTypes
    <2>3. transcriptions' \in Seq(Press \X Words)
      BY <1>0, <1>1, <2>2, AppendProperties DEF Emit, HistoryTypes
    <2>4. HistoryTypes' /\ ServiceTypes'
      BY <1>0, <1>1, <2>3 DEF Emit, HistoryTypes, ServiceTypes
    <2> QED
      BY <1>0, <1>1, <2>1, <2>4, ServerSame, StreamSame, TypeParts DEF Emit
  <1>2. ASSUME NEW parse \in BOOLEAN, Combine(k, parse) PROVE TypeInv'
    <2>1. Combined(k) \in Words
      BY <1>0, WordsFacts DEF Combined, ServiceTypes, HandlerTypes
    <2>2. PICK there \in Stages : Move(k, there)
      BY <1>2 DEF Combine, Stages
    <2>3. HandlerTypes'
      BY <1>0, <1>2, <2>1, <2>2, HandlerMoves DEF Combine
    <2>4. ServiceTypes' /\ StreamTypes'
      BY <1>0, <1>2 DEF Combine, ServiceTypes, StreamTypes
    <2> QED
      BY <1>0, <1>2, <2>3, <2>4, ServerSame, HistorySame, TypeParts DEF Combine, historyVars
  <1> QED
    BY <1>1, <1>2

(* What is broadcast of the words heard.                                    *)
LEMMA Broadcasts ==
  ASSUME NEW words \in Words, NEW n \in 0 .. Len(words)
  PROVE  [finalized |-> SubSeq(words, 1, n), draft |-> SubSeq(words, n + 1, Len(words))] \in Event
  <1>1. Len(words) \in Nat
    BY LenProperties DEF Words
  <1>2. SubSeq(words, 1, n) \in Words /\ SubSeq(words, n + 1, Len(words)) \in Words
    BY SMTT(30), <1>1, WordsPart
  <1> QED
    BY <1>2 DEF Event

LEMMA TypesOfServer ==
  ASSUME TypeInv, SSEOpens \/ ReadEvent \/ Speak \/ Finalize \/ ServerStops
  PROVE  TypeInv'
  <1>0. /\ ServerTypes /\ StreamTypes /\ ServiceTypes /\ HandlerTypes /\ HistoryTypes
        /\ <<>> \in Words /\ MaxPresses \in Nat /\ MaxWords \in Nat
    BY TypeParts, WordsFacts, Bounds
  <1>1. HandlerTypes' /\ HistoryTypes'
    BY <1>0, HandlerSame, HistorySame
    DEF SSEOpens, ReadEvent, Speak, Finalize, ServerStops, historyVars
  <1>2. CASE SSEOpens
    BY <1>0, <1>1, <1>2, ServerSame, ServiceSame, TypeParts DEF SSEOpens, StreamTypes, historyVars
  <1>3. CASE ReadEvent
    <2>1. Head(events) \in Event /\ Tail(events) \in Seq(Event)
      BY <1>0, <1>3, HeadTailProperties DEF ReadEvent, StreamTypes
    <2>2. ServiceTypes' /\ StreamTypes'
      BY <1>0, <1>3, <2>1 DEF ReadEvent, ServiceTypes, StreamTypes, Event
    <2> QED
      BY <1>0, <1>1, <1>3, <2>2, ServerSame, TypeParts DEF ReadEvent, historyVars
  <1>4. CASE Speak
    <2>1. Len(spokenIn) \in Nat /\ Len(spokenIn) + 1 \in 1 .. MaxWords
      BY <1>0, <1>4, LenProperties DEF Speak, ServerTypes
    <2>2. heard' \in Words /\ Len(heard') = Len(heard) + 1
      BY <1>0, <1>4, <2>1, AppendProperties DEF Speak, ServerTypes, Words
    <2>3. capturedBy \in Press
      BY <1>0, <1>4 DEF Speak, ServerTypes, Opened, Press
    <2>4. spokenIn' \in Seq(Press)
      BY <1>0, <1>4, <2>3, AppendProperties DEF Speak, ServerTypes
    <2>5. Len(heard) \in Nat /\ stable \in 0 .. Len(heard)
      BY <1>0, LenProperties DEF ServerTypes, Words
    <2>6. ServerTypes'
      BY <1>0, <1>4, <2>2, <2>4, <2>5 DEF Speak, ServerTypes, Opened
    <2>7. StreamTypes'
      <3>1. stable \in 0 .. Len(heard')
        BY <2>2, <2>5
      <3>2. [finalized |-> SubSeq(heard', 1, stable),
             draft |-> SubSeq(heard', stable + 1, Len(heard'))] \in Event
        BY <2>2, <3>1, Broadcasts
      <3> QED
        BY <1>0, <1>4, <3>2, AppendProperties DEF Speak, Broadcast, StreamTypes
    <2> QED
      BY <1>0, <1>1, <1>4, <2>6, <2>7, ServiceSame, TypeParts DEF Speak
  <1>5. CASE Finalize
    <2>1. /\ stable' \in Nat /\ stable' <= Len(heard) /\ heard \in Words
          /\ stable' \in 0 .. Len(heard)
      BY <1>0, <1>5, LenProperties DEF Finalize, ServerTypes, Words
    <2>2. ServerTypes'
      BY <1>0, <1>5, <2>1 DEF Finalize, ServerTypes, Opened, historyVars
    <2>3. StreamTypes'
      <3>1. [finalized |-> SubSeq(heard, 1, stable'),
             draft |-> SubSeq(heard, stable' + 1, Len(heard))] \in Event
        BY <2>1, Broadcasts
      <3> QED
        BY <1>0, <1>5, <3>1, AppendProperties DEF Finalize, Broadcast, StreamTypes
    <2> QED
      BY <1>0, <1>1, <1>5, <2>2, <2>3, ServiceSame, TypeParts DEF Finalize
  <1>6. CASE ServerStops
    <2>1. ServerTypes'
      BY <1>0, <1>6 DEF ServerStops, ServerTypes, Opened, historyVars
    <2> QED
      BY <1>0, <1>1, <1>6, <2>1, ServiceSame, StreamSame, TypeParts DEF ServerStops
  <1> QED
    BY <1>2, <1>3, <1>4, <1>5, <1>6

(* However the key is pressed, requests fail and the server is stopped,     *)
(* every variable keeps its type: the buffers, the events, the texts of the *)
(* handlers and the transcriptions are sequences of words, and a word is    *)
(* spoken into the capture of a press.                                      *)
THEOREM TypeCorrect == Spec => []TypeOK
  <1>1. Init => TypeInv
    <2> SUFFICES ASSUME Init PROVE TypeInv
      OBVIOUS
    <2>1. HandlerTypes /\ HistoryTypes
      BY Bounds, WordsFacts DEF Init, HandlerTypes, HistoryTypes, Stages
    <2>2. ServerTypes /\ StreamTypes /\ ServiceTypes
      BY Bounds, WordsFacts DEF Init, ServerTypes, StreamTypes, ServiceTypes, Opened
    <2> QED
      BY <2>1, <2>2, TypeParts
  <1>2. TypeInv /\ [Next]_vars => TypeInv'
    <2> SUFFICES ASSUME TypeInv, [Next]_vars PROVE TypeInv'
      OBVIOUS
    <2>1. CASE UNCHANGED vars
      BY <2>1, TypeParts, ServerSame, StreamSame, ServiceSame, HandlerSame, HistorySame
      DEF vars, historyVars
    <2>2. ASSUME NEW k \in Press, Handler(k) \/ Poll(k) PROVE TypeInv'
      BY <2>2, TypesOfRequests, TypesOfDrain, TypesOfText DEF Handler
    <2> QED
      BY <2>1, <2>2, TypesOfKeys, TypesOfServer DEF Next
  <1>3. TypeInv => TypeOK
    BY DEF TypeInv
  <1> QED
    BY <1>1, <1>2, <1>3, PTL DEF Spec

-----------------------------------------------------------------------------
(* What is shown is under way, however presses overtake each other.         *)

At(stages) == \E k \in Press : at[k] \in stages

Shown ==
    /\ state = "recording" =>
          enabled = "yes" /\ (mic = "on" \/ At({"resuming", "draining", "drained"}))
    /\ state = "transcribing" => At({"pausing", "draining", "drained"})
    /\ state = "parsing" => At({"parsing"})

(* Who is at a stage stays there, but for the handler that moves.           *)
LEMMA AtMoves ==
  ASSUME Controls, NEW k \in Press, NEW there \in Stages, Move(k, there)
  PROVE  /\ at' \in [Press -> Stages]
         /\ \A S : there \in S => At(S)'
         /\ \A S : at[k] \notin S /\ At(S) => At(S)'
  <1>1. /\ at \in [Press -> Stages] /\ at' \in [Press -> Stages] /\ at'[k] = there
        /\ \A j \in Press : j # k => at'[j] = at[j]
    BY DEF Controls, Move
  <1> QED
    BY <1>1 DEF At

LEMMA ShownByKeys ==
  ASSUME Controls, Shown, PressToStart \/ PressToStop
  PROVE  Controls' /\ Shown'
  <1>1. /\ presses' = presses + 1 /\ presses < MaxPresses /\ presses \in 0 .. MaxPresses
        /\ MaxPresses \in Nat /\ enabled = "yes"
        /\ UNCHANGED <<enabled, mic, failures>>
    BY Bounds DEF PressToStart, PressToStop, MayPress, Controls, serverVars
  <1>2. presses' \in Press /\ presses' \in 0 .. MaxPresses
    BY <1>1 DEF Press
  <1>3. CASE PressToStart
    <2>1. state' = "recording" /\ Move(presses', "resuming")
      BY <1>3 DEF PressToStart
    <2>2. at' \in [Press -> Stages] /\ At({"resuming", "draining", "drained"})'
      BY <1>2, <2>1, AtMoves DEF Stages
    <2> QED
      BY <1>1, <1>2, <2>1, <2>2 DEF Shown, Controls
  <1>4. CASE PressToStop
    <2>1. state' = "transcribing" /\ Move(presses', "pausing")
      BY <1>4 DEF PressToStop
    <2>2. at' \in [Press -> Stages] /\ At({"pausing", "draining", "drained"})'
      BY <1>2, <2>1, AtMoves DEF Stages
    <2> QED
      BY <1>1, <1>2, <2>1, <2>2 DEF Shown, Controls
  <1> QED
    BY <1>3, <1>4

LEMMA ShownByResume ==
  ASSUME Controls, Shown, NEW k \in Press, ResumeArrives(k) \/ ResumeFails(k)
  PROVE  Controls' /\ Shown'
  <1>1. /\ at[k] = "resuming" /\ Move(k, "over") /\ UNCHANGED <<enabled, presses>>
        /\ failures' \in Nat
    BY DEF ResumeArrives, ResumeFails, Controls, serviceVars
  <1>2. /\ at' \in [Press -> Stages]
        /\ At({"pausing", "draining", "drained"}) => At({"pausing", "draining", "drained"})'
        /\ At({"parsing"}) => At({"parsing"})'
    BY <1>1, AtMoves DEF Stages
  <1>3. CASE ResumeArrives(k)
    <2>1. mic' = "on" /\ state' = state
      BY <1>3 DEF ResumeArrives, Open, serviceVars
    <2> QED
      BY <1>1, <1>2, <2>1 DEF Shown, Controls
  <1>4. CASE ResumeFails(k)
    <2>1. state' = "idle" /\ mic' = mic
      BY <1>4 DEF ResumeFails, serverVars
    <2> QED
      BY <1>1, <1>2, <2>1 DEF Shown, Controls
  <1> QED
    BY <1>3, <1>4

LEMMA ShownByPause ==
  ASSUME Controls, Shown, NEW k \in Press,
         PauseArrives(k) \/ PauseFails(k) \/ Poll(k) \/ Deadline(k)
  PROVE  Controls' /\ Shown'
  <1>1. /\ UNCHANGED <<state, enabled, presses>> /\ failures' \in Nat
        /\ mic' \in {"on", "off"}
    BY DEF PauseArrives, PauseFails, Poll, Deadline, Controls, serviceVars, serverVars,
           historyVars
  <1>2. CASE UNCHANGED at
    <2>1. Poll(k)
      BY <1>2, AtMoves DEF PauseArrives, PauseFails, Deadline, Move, Controls
    <2>2. mic' = mic
      BY <2>1 DEF Poll, serverVars
    <2> QED
      BY <1>1, <1>2, <2>2 DEF Shown, Controls, At
  <1>3. ASSUME NEW there \in {"draining", "drained"}, Move(k, there),
               at[k] \in {"pausing", "draining"}
        PROVE  Controls' /\ Shown'
    <2>1. /\ at' \in [Press -> Stages]
          /\ At({"resuming", "draining", "drained"})'
          /\ At({"pausing", "draining", "drained"})'
          /\ At({"parsing"}) => At({"parsing"})'
      BY <1>3, AtMoves DEF Stages
    <2> QED
      BY <1>1, <2>1 DEF Shown, Controls
  <1> QED
    BY <1>2, <1>3 DEF PauseArrives, PauseFails, Poll, Deadline

LEMMA ShownByText ==
  ASSUME Controls, Shown, NEW k \in Press,
         Emit(k) \/ \E parse \in BOOLEAN : Combine(k, parse)
  PROVE  Controls' /\ Shown'
  <1>1. UNCHANGED <<enabled, presses, failures, mic>>
    BY DEF Emit, Combine, serverVars, historyVars
  <1>2. CASE Emit(k)
    <2>1. /\ at[k] \in {"parsing", "emitting"} /\ Move(k, "over")
          /\ state' = IF at[k] = "parsing" THEN "idle" ELSE state
      BY <1>2 DEF Emit
    <2>2. /\ at' \in [Press -> Stages]
          /\ At({"resuming", "draining", "drained"}) => At({"resuming", "draining", "drained"})'
          /\ At({"pausing", "draining", "drained"}) => At({"pausing", "draining", "drained"})'
          /\ at[k] # "parsing" /\ At({"parsing"}) => At({"parsing"})'
      BY <2>1, AtMoves DEF Stages
    <2> QED
      BY <1>1, <2>1, <2>2 DEF Shown, Controls
  <1>3. ASSUME NEW parse \in BOOLEAN, Combine(k, parse) PROVE Controls' /\ Shown'
    <2>1. \/ state' = "parsing" /\ Move(k, "parsing")
          \/ state' = "idle" /\ \E there \in {"over", "emitting"} : Move(k, there)
      <3>1. CASE Combined(k) # <<>> /\ parse
        BY <1>3, <3>1 DEF Combine
      <3>2. CASE Combined(k) = <<>>
        BY <1>3, <3>2 DEF Combine
      <3>3. CASE Combined(k) # <<>> /\ ~parse
        BY <1>3, <3>3 DEF Combine
      <3> QED
        BY <3>1, <3>2, <3>3
    <2>2. at' \in [Press -> Stages] /\ (state' = "parsing" => At({"parsing"})')
      BY <2>1, AtMoves DEF Stages
    <2> QED
      BY <1>1, <2>1, <2>2 DEF Shown, Controls
  <1> QED
    BY <1>2, <1>3

LEMMA ShownByOthers ==
  ASSUME Controls, Shown,
         \/ Disable \/ SSEOpens \/ ReadEvent \/ Speak \/ Finalize \/ ServerStops
         \/ UNCHANGED vars
  PROVE  Controls' /\ Shown'
  <1>1. UNCHANGED <<at, presses, failures>>
    BY DEF Disable, Abort, SSEOpens, ReadEvent, Speak, Finalize, ServerStops, vars, handlerVars,
           historyVars
  <1>2. CASE Disable
    BY <1>1, <1>2 DEF Disable, Abort, Shown, Controls, serverVars
  <1>3. CASE ServerStops
    BY <1>1, <1>3 DEF ServerStops, Shown, Controls, At, serviceVars
  <1>4. CASE SSEOpens \/ ReadEvent \/ Speak \/ Finalize \/ UNCHANGED vars
    <2>1. UNCHANGED <<state, enabled, mic>>
      BY <1>4 DEF SSEOpens, ReadEvent, Speak, Finalize, vars, serviceVars, serverVars
    <2> QED
      BY <1>1, <2>1 DEF Shown, Controls, At
  <1> QED
    BY <1>2, <1>3, <1>4

LEMMA ShownHolds == Controls /\ Shown /\ [Next]_vars => Controls' /\ Shown'
  <1> SUFFICES ASSUME Controls, Shown, [Next]_vars PROVE Controls' /\ Shown'
    OBVIOUS
  <1>1. ASSUME NEW k \in Press, Handler(k) \/ Poll(k) PROVE Controls' /\ Shown'
    BY <1>1, ShownByResume, ShownByPause, ShownByText DEF Handler
  <1> QED
    BY <1>1, ShownByKeys, ShownByOthers DEF Next

(* For every user, server and number of failures: once no press is being    *)
(* worked on, "transcribing" and "parsing" are not shown, nor "recording"   *)
(* without an open microphone, and until a request fails or a press comes   *)
(* while another is worked on the microphone is open only while it is shown.*)
THEOREM MicrophoneIsShown == Spec => []MicIsShown
  <1> DEFINE Waited == overtaken = "no" => IInv
  <1>1. Init => Controls /\ Shown /\ Waited
    BY InitHolds, Bounds DEF Init, Controls, Shown, Stages
  <1>2. Controls /\ Shown /\ Waited /\ [Next]_vars => Controls' /\ Shown' /\ Waited'
    BY ShownHolds, StepHolds, StaysSo
  <1>3. Controls /\ Shown /\ Waited => MicIsShown
    <2> SUFFICES ASSUME Controls, Shown, Waited, Settled PROVE MicIsShown
      BY DEF MicIsShown
    <2>1. state \in {"idle", "recording"} /\ (state = "recording" => mic = "on")
      BY DEF Controls, Shown, At, Settled
    <2>2. ASSUME enabled = "yes", failures = 0, overtaken = "no", mic = "on"
          PROVE  state = "recording"
      <3>1. Stage \in Idle
        BY <2>2, Bounds DEF IInv, Controls, Settled, Stage, Idle, Press
      <3> QED
        BY <2>2, <3>1 DEF IInv, Fits
    <2> QED
      BY <2>1, <2>2 DEF MicIsShown
  <1> QED
    BY <1>1, <1>2, <1>3, PTL DEF Spec
=============================================================================
