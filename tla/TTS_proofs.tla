----------------------------- MODULE TTS_proofs -----------------------------
(* The promise slot of TTSService, its types and, for a worker that answers *)
(* every request, what its answers match and the order in which they are    *)
(* played, for every number of sentences, workers, kills and crashes.       *)
EXTENDS TTS, TLAPS

(* What SlotIsOfLink needs to be inductive: only the link that spawned a    *)
(* worker awaits its "ready", so a link that fails there holds no slot.     *)
IInv ==
    /\ finished \in Nat
    /\ awaited # 0 => link = "ready"
    /\ SlotIsOfLink

(* SendText hands the slot to the link that called it.                      *)
LEMMA SendTextHolds ==
    ASSUME IInv, NEW w, SendText(w)
    PROVE  IInv'
  BY DEF IInv, SlotIsOfLink, SendText, current

(* A link that settles while it holds no slot leaves none behind.           *)
LEMMA FinishLinkHolds ==
    ASSUME IInv, FinishLink, slot' = 0, state' # "speaking"
    PROVE  IInv'
  BY DEF IInv, SlotIsOfLink, FinishLink

(* Dropping the slot, the link unchanged, as killWorker does.               *)
LEMMA DropHolds ==
    ASSUME IInv, slot' = 0, state' = "idle",
           UNCHANGED <<finished, link, awaited>>
    PROVE  IInv'
  BY DEF IInv, SlotIsOfLink

(* What does not touch the chain nor the slot.                              *)
LEMMA FrameHolds ==
    ASSUME IInv, UNCHANGED <<finished, link, awaited, slot, state>>
    PROVE  IInv'
  BY DEF IInv, SlotIsOfLink, current

(* A link that does not hold the slot: it is free and the service idle.     *)
LEMMA NotHeld ==
    ASSUME IInv, link # "done"
    PROVE  slot = 0 /\ state # "speaking"
  BY DEF IInv, SlotIsOfLink

(* Each step of the service, the worker processes and the user keeps IInv.  *)
LEMMA StepHolds ==
    ASSUME IInv, [Next]_vars
    PROVE  IInv'
  <1>1. CASE SpeakNothing \/ StartupTimeout
    BY <1>1, NotHeld, FinishLinkHolds DEF SpeakNothing, StartupTimeout
  <1>2. CASE BeginLink
    BY <1>2 DEF BeginLink, IInv, SlotIsOfLink, serviceVars
  <1>3. CASE SpeakReuse
    BY <1>3, SendTextHolds DEF SpeakReuse
  <1>4. CASE SpeakSpawn
    BY <1>4 DEF SpeakSpawn, IInv, SlotIsOfLink
  <1>5. ASSUME NEW w \in Workers, ReadReady(w) PROVE IInv'
    <2>1. CASE awaited # w
      BY <1>5, <2>1, FrameHolds DEF ReadReady
    <2>2. CASE awaited = w /\ worker # 0 /\ status[worker] \notin {"exited", "closed"}
      BY <1>5, <2>2, SendTextHolds DEF ReadReady
    <2>3. CASE awaited = w /\ ~ (worker # 0 /\ status[worker] \notin {"exited", "closed"})
      <3>1. FinishLink /\ UNCHANGED <<slot, state>>
        BY <1>5, <2>3 DEF ReadReady
      <3>2. link # "done"
        BY <1>5, <2>3 DEF IInv, Workers
      <3> QED
        BY <3>1, <3>2, NotHeld, FinishLinkHolds
    <2> QED
      BY <2>1, <2>2, <2>3
  <1>6. ASSUME NEW w \in Workers, ReadAnswer(w) \/ Close(w) PROVE IInv'
    <2>1. slot' = 0 /\ state' = "idle" /\ (FinishLink \/ UNCHANGED <<finished, link, awaited>>)
      BY <1>6 DEF ReadAnswer, Close
    <2> QED
      BY <2>1, FinishLinkHolds, DropHolds
  <1>7. CASE Disable \/ StopForRecording \/ ChangeVoice
    <2>1. KillWorker
      BY <1>7 DEF Disable, StopForRecording, ChangeVoice
    <2> QED
      BY <2>1, DropHolds DEF KillWorker, chainVars
  <1>8. CASE Process \/ Flush \/ Enable \/ UNCHANGED vars
             \/ (\E w \in Workers : Exit(w) \/ BootFails(w) \/ Crash(w))
    <2>1. UNCHANGED <<finished, link, awaited, slot, state>>
      BY <1>8 DEF Process, Boot, Play, PlayFails, Flush, Enable, Exit, BootFails,
                  Crash, vars, chainVars, serviceVars
    <2> QED
      BY <2>1, FrameHolds
  <1> QED
    BY <1>1, <1>2, <1>3, <1>4, <1>5, <1>6, <1>7, <1>8
       DEF Next, Service, Process, Host, Failure

(* The one promise slot of TTSService always belongs to the link of the     *)
(* chain that waits for it (tts.ts, pendingResolve and pendingReject;       *)
(* interactive-mode.ts, ttsSpeakChain), whatever workers die, are killed or *)
(* answer late.                                                            *)
THEOREM SlotCorrect == Spec => []SlotIsOfLink
  <1>1. Init => IInv
    BY DEF Init, IInv, SlotIsOfLink
  <1>2. IInv /\ [Next]_vars => IInv'
    BY StepHolds
  <1>3. IInv => SlotIsOfLink
    BY DEF IInv
  <1> QED
    BY <1>1, <1>2, <1>3, PTL DEF Spec

-----------------------------------------------------------------------------
(* No stale answers, and the order of what is played, for workers of piper, *)
(* as long as none dies on its own.                                        *)

Messages == {"ready", "done", "error"} \X Nat

Typed ==
    /\ finished \in Nat /\ crashes \in Nat
    /\ spawned \in 0 .. MaxWorkers /\ worker \in 0 .. MaxWorkers
    /\ link \in {"none", "polisher", "ready", "done"}
    /\ status \in [Workers -> {"unborn", "starting", "ready", "dead", "exited", "closed"}]
    /\ stdin \in [Workers -> Seq(Nat)]
    /\ stdout \in [Workers -> Seq(Messages)]
    /\ played \in Seq(Nat)

(* Nothing but "ready" to be read; and an answer to n, and no other.        *)
Calm(q) == \A i \in 1 .. Len(q) : q[i][1] = "ready"

Answered(q, n) ==
    \E i \in 1 .. Len(q) : /\ q[i][1] # "ready" /\ q[i][2] = n
                           /\ \A j \in 1 .. Len(q) : j # i => q[j][1] = "ready"

Quiet(w) == stdin[w] = <<>> /\ Calm(stdout[w])

(* this.worker is the last one spawned, and runs; once its "ready" is not   *)
(* awaited any more no earlier one is still to be closed.                   *)
Single ==
    /\ worker \in {0, spawned}
    /\ link = "ready" => awaited = spawned
    /\ \A w \in Workers : w > spawned => status[w] = "unborn"
    /\ \A w \in Workers : status[w] \in {"unborn", "starting"} => stdout[w] = <<>>
    /\ worker # 0 => Running(worker)
    /\ worker # 0 /\ (link # "ready" \/ status[worker] = "ready") => SlowStart(worker)

(* The sentence in the slot is with this.worker, once: to be played, or     *)
(* answered.  A slot that was dropped is that of a worker that was killed.  *)
OneAsked ==
    /\ slot # 0 => worker # 0
    /\ link # "done" => \A w \in Workers : Quiet(w)
    /\ link = "done" /\ slot = 0 => \A w \in Workers : Running(w) => stdin[w] = <<>>
    /\ slot # 0 => \A w \in Workers : w # worker => Quiet(w)
    /\ slot # 0 => \/ stdin[worker] = <<slot>> /\ Calm(stdout[worker])
                   \/ stdin[worker] = <<>> /\ Answered(stdout[worker], slot)

ToPlay == link # "done" \/ (slot # 0 /\ stdin[worker] # <<>>)

Order ==
    /\ \A i, j \in 1 .. Len(played) : i < j => played[i] < played[j]
    /\ \A i \in 1 .. Len(played) : played[i] <= current
    /\ ToPlay => \A i \in 1 .. Len(played) : played[i] <= finished

OwnInv == IInv /\ Typed /\ (crashes = 0 => Single /\ OneAsked /\ Order)

-----------------------------------------------------------------------------
(* Pipes.                                                                   *)

LEMMA AppendFacts ==
  ASSUME NEW S, NEW q \in Seq(S), NEW e \in S
  PROVE  /\ Append(q, e) \in Seq(S) /\ Len(q) \in Nat /\ Len(Append(q, e)) = Len(q) + 1
         /\ \A i \in 1 .. Len(q) : Append(q, e)[i] = q[i]
         /\ Append(q, e)[Len(q) + 1] = e
         /\ q \o <<e>> = Append(q, e)
  OBVIOUS

LEMMA TailFacts ==
  ASSUME NEW S, NEW q \in Seq(S), q # <<>>
  PROVE  /\ Tail(q) \in Seq(S) /\ Len(q) \in Nat \ {0} /\ Len(Tail(q)) = Len(q) - 1
         /\ \A i \in 1 .. Len(Tail(q)) : Tail(q)[i] = q[i + 1]
         /\ Head(q) = q[1] /\ Head(q) \in S
  OBVIOUS

LEMMA AppendReady ==
  ASSUME NEW q \in Seq(Messages)
  PROVE  /\ Append(q, <<"ready", 0>>) \in Seq(Messages)
         /\ Calm(q) => Calm(Append(q, <<"ready", 0>>))
         /\ \A n : Answered(q, n) => Answered(Append(q, <<"ready", 0>>), n)
  <1> DEFINE e == <<"ready", 0>>
             p == Append(q, e)
  <1>1. e \in Messages /\ e[1] = "ready"
    BY DEF Messages
  <1> HIDE DEF e
  <1>2. /\ p \in Seq(Messages) /\ Len(q) \in Nat /\ Len(p) = Len(q) + 1
        /\ \A i \in 1 .. Len(q) : p[i] = q[i]
        /\ p[Len(q) + 1] = e
    BY <1>1, AppendFacts
  <1> HIDE DEF p
  <1>3. Calm(q) => Calm(p)
    BY <1>1, <1>2 DEF Calm
  <1>4. \A n : Answered(q, n) => Answered(p, n)
    BY <1>1, <1>2 DEF Answered
  <1> QED
    BY <1>2, <1>3, <1>4 DEF p, e

LEMMA AppendAnswer ==
  ASSUME NEW q \in Seq(Messages), NEW n \in Nat, NEW kind \in {"done", "error"}
  PROVE  /\ Append(q, <<kind, n>>) \in Seq(Messages)
         /\ q \o <<<<kind, n>>>> = Append(q, <<kind, n>>)
         /\ Calm(q) => Answered(Append(q, <<kind, n>>), n)
  <1> DEFINE e == <<kind, n>>
             p == Append(q, e)
  <1>1. e \in Messages /\ e[1] # "ready" /\ e[2] = n
    BY DEF Messages
  <1> HIDE DEF e
  <1>2. /\ p \in Seq(Messages) /\ Len(q) \in Nat /\ Len(p) = Len(q) + 1
        /\ \A i \in 1 .. Len(q) : p[i] = q[i]
        /\ p[Len(q) + 1] = e /\ q \o <<e>> = p
    BY <1>1, AppendFacts
  <1> HIDE DEF p
  <1>3. ASSUME Calm(q) PROVE Answered(p, n)
    <2>1. Len(p) \in 1 .. Len(p) /\ \A j \in 1 .. Len(p) : j # Len(p) => p[j][1] = "ready"
      BY <1>2, <1>3 DEF Calm
    <2> QED
      BY <1>1, <1>2, <2>1 DEF Answered
  <1> QED
    BY <1>2, <1>3 DEF p, e

LEMMA ReadHead ==
  ASSUME NEW q \in Seq(Messages), q # <<>>
  PROVE  /\ Tail(q) \in Seq(Messages)
         /\ Calm(q) => Calm(Tail(q)) /\ Head(q)[1] = "ready"
         /\ \A n : Answered(q, n) => IF Head(q)[1] = "ready" THEN Answered(Tail(q), n)
                                     ELSE Calm(Tail(q))
  <1> DEFINE p == Tail(q)
  <1>1. /\ p \in Seq(Messages) /\ Len(q) \in Nat \ {0} /\ Len(p) = Len(q) - 1
        /\ \A i \in 1 .. Len(p) : p[i] = q[i + 1]
        /\ Head(q) = q[1]
    BY TailFacts
  <1> HIDE DEF p
  <1>2. Calm(q) => Calm(p) /\ Head(q)[1] = "ready"
    BY <1>1 DEF Calm
  <1>3. ASSUME NEW n, Answered(q, n)
        PROVE  IF Head(q)[1] = "ready" THEN Answered(p, n) ELSE Calm(p)
    <2>1. PICK i \in 1 .. Len(q) : /\ q[i][1] # "ready" /\ q[i][2] = n
                                   /\ \A j \in 1 .. Len(q) : j # i => q[j][1] = "ready"
      BY <1>3 DEF Answered
    <2>2. CASE i = 1
      BY <1>1, <2>1, <2>2 DEF Calm
    <2>3. CASE i # 1
      <3>1. i - 1 \in 1 .. Len(p) /\ p[i - 1] = q[i] /\ q[1][1] = "ready"
        BY <1>1, <2>1, <2>3
      <3>2. \A j \in 1 .. Len(p) : j # i - 1 => p[j][1] = "ready"
        BY <1>1, <2>1
      <3> QED
        BY <1>1, <2>1, <3>1, <3>2 DEF Answered
    <2> QED
      BY <2>2, <2>3
  <1> QED
    BY <1>1, <1>2, <1>3 DEF p

-----------------------------------------------------------------------------
(* The types.                                                               *)

LEMMA SendTextTyped ==
  ASSUME Typed, NEW w \in Workers, SendText(w)
  PROVE  finished' \in Nat /\ link' = "done" /\ stdin' \in [Workers -> Seq(Nat)]
  <1>1. current \in Nat /\ stdin[w] \in Seq(Nat)
    BY DEF Typed, current
  <1>2. Append(stdin[w], current) \in Seq(Nat)
    BY <1>1, AppendFacts
  <1> QED
    BY <1>2 DEF SendText, Typed

LEMMA FinishLinkTyped ==
  ASSUME Typed, FinishLink
  PROVE  finished' \in Nat /\ link' = "none"
  BY DEF Typed, FinishLink

LEMMA ServiceTyped ==
  ASSUME Typed, Service \/ StartupTimeout
  PROVE  Typed'
  <1>1. CASE BeginLink \/ SpeakNothing \/ StartupTimeout
    BY <1>1, FinishLinkTyped
       DEF BeginLink, SpeakNothing, StartupTimeout, Typed, serviceVars, processVars, countVars
  <1>2. CASE SpeakReuse
    <2>1. worker \in Workers
      BY <1>2 DEF SpeakReuse, Typed, Workers
    <2> QED
      BY <1>2, <2>1, SendTextTyped DEF SpeakReuse, Typed, countVars
  <1>3. CASE SpeakSpawn
    BY <1>3, Bounds DEF SpeakSpawn, Typed, Workers
  <1>4. ASSUME NEW w \in Workers, ReadReady(w) \/ ReadAnswer(w)
        PROVE  Typed'
    <2>1. stdout[w] \in Seq(Messages) /\ stdout[w] # <<>>
      BY <1>4 DEF Typed, ReadReady, ReadAnswer
    <2>2. Tail(stdout[w]) \in Seq(Messages)
      BY <2>1, ReadHead
    <2>3. stdout' \in [Workers -> Seq(Messages)]
      BY <1>4, <2>2 DEF Typed, ReadReady, ReadAnswer, Consume
    <2>4. /\ finished' \in Nat /\ link' \in {"none", "polisher", "ready", "done"}
          /\ stdin' \in [Workers -> Seq(Nat)]
      <3>1. CASE UNCHANGED <<finished, link, stdin>>
        BY <3>1 DEF Typed
      <3>2. CASE FinishLink /\ UNCHANGED stdin
        BY <3>2, FinishLinkTyped DEF Typed
      <3>3. CASE worker # 0 /\ SendText(worker)
        BY <3>3, SendTextTyped DEF Typed, Workers
      <3> QED
        BY <1>4, <3>1, <3>2, <3>3 DEF ReadReady, ReadAnswer
    <2> QED
      BY <1>4, <2>3, <2>4 DEF Typed, ReadReady, ReadAnswer, countVars
  <1>5. ASSUME NEW w \in Workers, Exit(w)
        PROVE  Typed'
    BY <1>5 DEF Exit, Typed, chainVars, serviceVars, countVars
  <1>6. ASSUME NEW w \in Workers, Close(w)
        PROVE  Typed'
    <2>1. finished' \in Nat /\ link' \in {"none", "polisher", "ready", "done"}
      BY <1>6, FinishLinkTyped DEF Close, Typed
    <2> QED
      BY <1>6, <2>1, Bounds DEF Close, Typed, countVars
  <1> QED
    BY <1>1, <1>2, <1>3, <1>4, <1>5, <1>6 DEF Service

LEMMA ProcessTyped ==
  ASSUME Typed, NEW w \in Workers, Boot(w) \/ BootFails(w) \/ Play(w) \/ PlayFails(w) \/ Crash(w)
  PROVE  Typed'
  <1>0. stdin[w] \in Seq(Nat) /\ stdout[w] \in Seq(Messages) /\ <<"error", 0>> \in Messages
    BY DEF Typed, Messages
  <1>1. CASE Boot(w) \/ BootFails(w)
    <2>1. /\ Append(stdout[w], <<"ready", 0>>) \in Seq(Messages)
          /\ Append(stdout[w], <<"error", 0>>) \in Seq(Messages)
      BY <1>0, AppendReady, AppendFacts
    <2>2. UNCHANGED <<finished, link, spawned, worker, stdin, played>> /\ crashes' \in Nat
      BY <1>1 DEF Boot, BootFails, chainVars, serviceVars, countVars, Typed
    <2>3. stdout' \in [Workers -> Seq(Messages)]
      BY <1>1, <2>1 DEF Boot, BootFails, Typed
    <2>4. status' \in [Workers -> {"unborn", "starting", "ready", "dead", "exited", "closed"}]
      BY <1>1 DEF Boot, BootFails, Typed
    <2> QED
      BY <2>2, <2>3, <2>4 DEF Typed
  <1>2. CASE Play(w) \/ PlayFails(w)
    <2>1. Head(stdin[w]) \in Nat /\ Tail(stdin[w]) \in Seq(Nat)
      BY <1>0, <1>2, TailFacts DEF Play, PlayFails
    <2>2. UNCHANGED <<finished, link, spawned, worker, status, crashes>>
      BY <1>2 DEF Play, PlayFails, chainVars, serviceVars, countVars
    <2>3. stdin' \in [Workers -> Seq(Nat)]
      BY <1>2, <2>1 DEF Play, PlayFails, Typed
    <2>4. played' \in Seq(Nat)
      <3>1. played \in Seq(Nat) /\ Append(played, Head(stdin[w])) \in Seq(Nat)
        BY <2>1, AppendFacts DEF Typed
      <3> QED
        BY <1>2, <3>1 DEF Play, PlayFails
    <2>5. stdout' \in [Workers -> Seq(Messages)]
      <3>1. <<"done", Head(stdin[w])>> \in Messages /\ <<"error", Head(stdin[w])>> \in Messages
        BY <2>1 DEF Messages
      <3> DEFINE d == <<"done", Head(stdin[w])>>
                 e == <<"error", Head(stdin[w])>>
      <3>2. /\ Append(stdout[w], d) \in Seq(Messages) /\ stdout[w] \o <<e>> \in Seq(Messages)
            /\ stdout[w] \o <<e, d>> \in Seq(Messages)
        <4> HIDE DEF d, e
        <4>1. d \in Messages /\ e \in Messages
          BY <3>1 DEF d, e
        <4>2. <<e>> \in Seq(Messages) /\ <<e, d>> \in Seq(Messages)
          BY <4>1
        <4> QED
          BY <1>0, <4>1, <4>2
      <3> HIDE DEF d, e
      <3>3. \E q \in Seq(Messages) : stdout' = [stdout EXCEPT ![w] = q]
        <4>1. CASE Play(w)
          BY <3>2, <4>1 DEF Play, d
        <4>2. CASE PlayFails(w) /\ Provider = "piper"
          BY <3>2, <4>2 DEF PlayFails, e
        <4>3. CASE PlayFails(w) /\ Provider # "piper"
          BY <3>2, <4>3 DEF PlayFails, d, e
        <4> QED
          BY <1>2, <4>1, <4>2, <4>3
      <3> QED
        BY <3>3 DEF Typed
    <2> QED
      BY <2>2, <2>3, <2>4, <2>5 DEF Typed
  <1>3. CASE Crash(w)
    BY <1>3 DEF Crash, Typed, chainVars, serviceVars
  <1> QED
    BY <1>1, <1>2, <1>3

LEMMA TypedHolds ==
  ASSUME Typed, [Next]_vars
  PROVE  Typed'
  <1>1. CASE Host \/ UNCHANGED vars
    <2>1. /\ UNCHANGED <<finished, link, spawned, stdin, stdout, played, crashes>>
          /\ worker' \in {0, worker}
      BY <1>1 DEF Host, Flush, Disable, Enable, StopForRecording, ChangeVoice, KillWorker,
                  vars, chainVars, serviceVars, processVars, countVars
    <2>2. status' \in [Workers -> {"unborn", "starting", "ready", "dead", "exited", "closed"}]
      BY <1>1 DEF Host, Flush, Disable, Enable, StopForRecording, ChangeVoice, KillWorker,
                  vars, processVars, Typed
    <2> QED
      BY <2>1, <2>2, Bounds DEF Typed
  <1> QED
    BY <1>1, ServiceTyped, ProcessTyped DEF Next, Process, Failure

-----------------------------------------------------------------------------
(* One sentence at a time.                                                  *)

Own == IInv /\ Typed /\ Single /\ OneAsked /\ Order

(* A link begins, or settles without having sent anything.                  *)
LEMMA LinkOwn ==
  ASSUME Own, BeginLink \/ SpeakNothing \/ StartupTimeout
  PROVE  Single' /\ OneAsked' /\ Order'
  <1>1. /\ UNCHANGED <<worker, slot, status, stdin, stdout, played, spawned>>
        /\ link # "done" /\ link' \notin {"done", "ready"}
        /\ finished' \in {finished, finished + 1}
    BY DEF BeginLink, SpeakNothing, StartupTimeout, FinishLink, serviceVars, processVars, countVars
  <1>2. worker # 0 => SlowStart(worker)
    BY DEF Own, Single, BeginLink, SpeakNothing, StartupTimeout
  <1>3. Single'
    BY <1>1, <1>2 DEF Own, Single, Running, SlowStart
  <1>4. OneAsked'
    BY <1>1 DEF Own, IInv, SlotIsOfLink, OneAsked, Quiet
  <1>5. Order'
    <2>1. \A i \in 1 .. Len(played) : played[i] <= finished /\ played[i] \in Nat
      BY <1>1 DEF Own, Order, ToPlay, Typed
    <2>2. finished' \in Nat /\ finished <= finished'
      BY <1>1 DEF Own, Typed
    <2> QED
      BY <1>1, <2>1, <2>2 DEF Own, Order, current
  <1> QED
    BY <1>3, <1>4, <1>5

(* The sentence goes to the worker, while nothing else is anywhere.         *)
LEMMA SendOwn ==
  ASSUME Own, link # "done", worker # 0, SendText(worker), SlowStart(worker),
         UNCHANGED <<worker, status, spawned, played>>,
         stdout' \in [Workers -> Seq(Messages)], \A v \in Workers : Calm(stdout[v]) => Calm(stdout'[v]),
         \A v \in Workers : stdout[v] = <<>> => stdout'[v] = <<>>
  PROVE  Single' /\ OneAsked' /\ Order'
  <1>1. /\ slot' = current /\ link' = "done" /\ finished' = finished /\ current \in Nat \ {0}
        /\ stdin' = [stdin EXCEPT ![worker] = Append(@, current)]
    BY DEF SendText, Own, Typed, current
  <1>2. \A v \in Workers : Quiet(v)
    BY DEF Own, OneAsked
  <1>3. worker \in Workers
    BY DEF Own, Typed, Workers
  <1>4. stdin'[worker] = <<current>> /\ \A v \in Workers : v # worker => stdin'[v] = <<>>
    <2>1. Append(<<>>, current) = <<current>>
      BY <1>1
    <2>2. /\ stdin'[worker] = Append(stdin[worker], current)
          /\ \A v \in Workers : v # worker => stdin'[v] = stdin[v]
      BY <1>1, <1>3 DEF Own, Typed
    <2> QED
      BY <1>2, <1>3, <2>1, <2>2 DEF Quiet
  <1>5. Single'
    BY <1>1, <1>3 DEF Own, Single, Running, SlowStart
  <1>6. OneAsked'
    BY <1>1, <1>2, <1>3, <1>4 DEF OneAsked, Quiet
  <1>7. Order'
    BY <1>1 DEF Own, Order, ToPlay, current
  <1> QED
    BY <1>5, <1>6, <1>7

LEMMA ReuseOwn ==
  ASSUME Own, SpeakReuse
  PROVE  Single' /\ OneAsked' /\ Order'
  <1>1. /\ link = "polisher" /\ worker # 0 /\ SendText(worker)
        /\ UNCHANGED <<worker, status, spawned, played, stdout>>
    BY DEF SpeakReuse, countVars
  <1>2. SlowStart(worker)
    BY <1>1 DEF Own, Single
  <1>3. stdout' \in [Workers -> Seq(Messages)]
    BY <1>1 DEF Own, Typed
  <1> QED
    BY <1>1, <1>2, <1>3, SendOwn

LEMMA SpawnOwn ==
  ASSUME Own, SpeakSpawn
  PROVE  Single' /\ OneAsked' /\ Order'
  <1>1. /\ link = "polisher" /\ link' = "ready" /\ awaited' = spawned' /\ worker' = spawned'
        /\ spawned' = spawned + 1 /\ spawned < MaxWorkers
        /\ status' = [status EXCEPT ![spawned'] = "starting"]
        /\ UNCHANGED <<finished, slot, stdin, stdout, played>>
    BY DEF SpeakSpawn
  <1>2. spawned \in Nat /\ MaxWorkers \in Nat
    BY Bounds DEF Own, Typed
  <1>3. spawned' \in Workers /\ spawned' # 0 /\ spawned' > spawned
    BY <1>1, <1>2 DEF Workers
  <1>4. status[spawned'] = "unborn" /\ stdout[spawned'] = <<>>
    BY <1>3 DEF Own, Single
  <1>5. Single'
    <2>1. \A w \in Workers : w > spawned' => status'[w] = "unborn"
      BY <1>1, <1>2 DEF Own, Single, Typed, Workers
    <2>2. \A w \in Workers : status'[w] \in {"unborn", "starting"} => stdout'[w] = <<>>
      BY <1>1, <1>3, <1>4 DEF Own, Single, Typed
    <2>3. status'[worker'] = "starting"
      BY <1>1, <1>3 DEF Own, Typed
    <2> QED
      BY <1>1, <2>1, <2>2, <2>3 DEF Single, Running
  <1>6. OneAsked'
    BY <1>1 DEF Own, IInv, SlotIsOfLink, OneAsked, Quiet
  <1>7. Order'
    BY <1>1 DEF Own, Order, ToPlay, current
  <1> QED
    BY <1>5, <1>6, <1>7

(* What reading the pipe of w leaves in it.                                 *)
LEMMA Consumed ==
  ASSUME Own, NEW w \in Workers, stdout[w] # <<>>, Consume(w)
  PROVE  /\ stdout' \in [Workers -> Seq(Messages)]
         /\ \A v \in Workers : v # w => stdout'[v] = stdout[v]
         /\ stdout'[w] = Tail(stdout[w]) /\ stdout[w] \in Seq(Messages)
         /\ \A v \in Workers : Calm(stdout[v]) => Calm(stdout'[v])
         /\ \A v \in Workers : stdout[v] = <<>> => stdout'[v] = <<>>
         /\ status[w] \notin {"unborn", "starting"}
  <1>1. stdout[w] \in Seq(Messages) /\ Tail(stdout[w]) \in Seq(Messages)
    BY ReadHead DEF Own, Typed
  <1>2. /\ stdout' \in [Workers -> Seq(Messages)]
        /\ \A v \in Workers : v # w => stdout'[v] = stdout[v]
        /\ stdout'[w] = Tail(stdout[w])
    BY <1>1 DEF Consume, Own, Typed
  <1>3. Calm(stdout[w]) => Calm(Tail(stdout[w]))
    BY <1>1, ReadHead
  <1>4. status[w] \notin {"unborn", "starting"}
    BY DEF Own, Single
  <1> QED
    BY <1>1, <1>2, <1>3, <1>4

LEMMA ReadReadyOwn ==
  ASSUME Own, NEW w \in Workers, ReadReady(w)
  PROVE  Single' /\ OneAsked' /\ Order'
  <1>1. /\ stdout[w] # <<>> /\ Head(stdout[w])[1] = "ready" /\ Consume(w)
        /\ UNCHANGED <<worker, status, spawned, played>>
    BY DEF ReadReady, Message, countVars
  <1>2. /\ stdout' \in [Workers -> Seq(Messages)]
        /\ \A v \in Workers : v # w => stdout'[v] = stdout[v]
        /\ stdout'[w] = Tail(stdout[w]) /\ stdout[w] \in Seq(Messages)
        /\ \A v \in Workers : Calm(stdout[v]) => Calm(stdout'[v])
        /\ \A v \in Workers : stdout[v] = <<>> => stdout'[v] = <<>>
        /\ status[w] \notin {"unborn", "starting"}
    BY <1>1, Consumed
  <1>3. CASE awaited # w
    <2>1. UNCHANGED <<finished, link, awaited, slot, stdin>>
      BY <1>3 DEF ReadReady
    <2>2. \A n : Answered(stdout[w], n) => Answered(stdout'[w], n)
      BY <1>1, <1>2, ReadHead
    <2>3. Single'
      BY <1>1, <1>2, <2>1 DEF Own, Single, Running, SlowStart
    <2>4. OneAsked'
      <3>1. \A v \in Workers : Quiet(v) => Quiet(v)'
        BY <1>2, <2>1 DEF Quiet
      <3>2. \A v \in Workers : Answered(stdout[v], slot) => Answered(stdout'[v], slot)
        BY <1>2, <2>2
      <3>3. worker # 0 => worker \in Workers
        BY DEF Own, Typed, Workers
      <3> QED
        BY <1>1, <1>2, <2>1, <3>1, <3>2, <3>3 DEF Own, OneAsked, Running
    <2>5. Order'
      BY <1>1, <2>1 DEF Own, Order, ToPlay, current
    <2> QED
      BY <2>3, <2>4, <2>5
  <1>4. ASSUME awaited = w PROVE link = "ready" /\ spawned = w
    BY <1>4 DEF Own, IInv, Single, Workers
  <1>5. CASE awaited = w /\ worker # 0
    <2>1. worker = w /\ status[w] = "ready" /\ SlowStart(worker)
      BY <1>2, <1>4, <1>5 DEF Own, Single, Running
    <2>2. SendText(worker)
      BY <1>5, <2>1 DEF ReadReady
    <2> QED
      BY <1>1, <1>2, <1>4, <1>5, <2>1, <2>2, SendOwn
  <1>6. CASE awaited = w /\ worker = 0
    <2>1. FinishLink /\ UNCHANGED <<slot, stdin>>
      BY <1>6 DEF ReadReady
    <2>2. link' = "none" /\ finished' = finished + 1 /\ finished \in Nat /\ slot = 0
      BY <2>1, <1>4, <1>6 DEF FinishLink, Own, Typed, OneAsked
    <2>3. Single'
      BY <1>1, <1>2, <1>6, <2>2 DEF Own, Single
    <2>4. OneAsked'
      BY <1>1, <1>2, <1>4, <1>6, <2>1, <2>2 DEF Own, OneAsked, Quiet
    <2>5. Order'
      <3>1. \A i \in 1 .. Len(played) : played[i] <= finished /\ played[i] \in Nat
        BY <1>4, <1>6 DEF Own, Order, ToPlay, Typed
      <3> QED
        BY <1>1, <2>2, <3>1 DEF Own, Order, current
    <2> QED
      BY <2>3, <2>4, <2>5
  <1> QED
    BY <1>3, <1>5, <1>6

(* An answer can only be to the sentence in the slot, and is the only one.  *)
LEMMA ReadAnswerOwn ==
  ASSUME Own, NEW w \in Workers, ReadAnswer(w)
  PROVE  Single' /\ OneAsked' /\ Order'
  <1>1. /\ stdout[w] # <<>> /\ Head(stdout[w])[1] # "ready" /\ Consume(w) /\ slot' = 0
        /\ UNCHANGED <<worker, status, spawned, played, stdin>>
    BY DEF ReadAnswer, Message, countVars
  <1>2. /\ stdout' \in [Workers -> Seq(Messages)]
        /\ \A v \in Workers : v # w => stdout'[v] = stdout[v]
        /\ stdout'[w] = Tail(stdout[w]) /\ stdout[w] \in Seq(Messages)
        /\ \A v \in Workers : Calm(stdout[v]) => Calm(stdout'[v])
        /\ \A v \in Workers : stdout[v] = <<>> => stdout'[v] = <<>>
        /\ status[w] \notin {"unborn", "starting"}
    BY <1>1, Consumed
  <1>3. ~Calm(stdout[w])
    BY <1>1, <1>2, ReadHead
  <1>4. link = "done"
    BY <1>3 DEF Own, OneAsked, Quiet
  <1>5. CASE slot = 0
    <2>1. UNCHANGED <<finished, link, awaited>>
      BY <1>5 DEF ReadAnswer
    <2>2. Single'
      BY <1>1, <1>2, <2>1 DEF Own, Single, Running, SlowStart
    <2>3. OneAsked'
      BY <1>1, <1>4, <1>5, <2>1 DEF Own, OneAsked, Running
    <2>4. Order'
      BY <1>1, <1>4, <1>5, <2>1 DEF Own, Order, ToPlay, current
    <2> QED
      BY <2>2, <2>3, <2>4
  <1>6. CASE slot # 0
    <2>1. link' = "none" /\ finished' = finished + 1 /\ finished \in Nat
      BY <1>6 DEF ReadAnswer, FinishLink, Own, Typed
    <2>2. w = worker /\ stdin[w] = <<>> /\ Answered(stdout[w], slot)
      BY <1>3, <1>6 DEF Own, OneAsked, Quiet
    <2>3. Calm(stdout'[w])
      BY <1>1, <1>2, <2>2, ReadHead
    <2>4. Single'
      BY <1>1, <1>2, <1>4, <2>1 DEF Own, Single, Running, SlowStart
    <2>5. OneAsked'
      BY <1>1, <1>2, <1>6, <2>1, <2>2, <2>3 DEF Own, OneAsked, Quiet
    <2>6. Order'
      <3>1. \A i \in 1 .. Len(played) : played[i] <= finished + 1 /\ played[i] \in Nat
        BY DEF Own, Order, Typed, current
      <3> QED
        BY <1>1, <2>1, <3>1 DEF Own, Order, current
    <2> QED
      BY <2>4, <2>5, <2>6
  <1> QED
    BY <1>5, <1>6

(* No pipe is closed while a sentence is in the slot: the processes before  *)
(* this.worker are gone, and it runs.                                      *)
LEMMA CloseOwn ==
  ASSUME Own, NEW w \in Workers, Close(w)
  PROVE  Single' /\ OneAsked' /\ Order'
  <1>1. /\ status[w] \in {"dead", "exited"} /\ status' = [status EXCEPT ![w] = "closed"]
        /\ worker' = 0 /\ slot' = 0 /\ UNCHANGED <<spawned, played, stdin, stdout>>
    BY DEF Close, countVars
  <1>2. slot = 0
    <2> SUFFICES ASSUME slot # 0 PROVE FALSE
      OBVIOUS
    <2>1. worker # 0 /\ link = "done"
      BY DEF Own, OneAsked, IInv, SlotIsOfLink
    <2>2. worker = spawned /\ Running(worker) /\ SlowStart(worker)
      BY <2>1 DEF Own, Single
    <2>3. w \in Nat /\ worker \in Nat /\ w > 0
      BY <2>2 DEF Own, Typed, Workers
    <2>4. w # worker /\ ~(w > worker) /\ ~(w < worker)
      BY <1>1, <2>2, <2>3 DEF Own, Single, Running, SlowStart
    <2> QED
      BY <2>3, <2>4
  <1>3. \/ FinishLink /\ link = "ready"
        \/ UNCHANGED <<finished, link, awaited>>
    BY <1>2 DEF Close, Own, IInv, Workers
  <1>4. finished' \in {finished, finished + 1} /\ link' \in {link, "none"}
        /\ (link' = "ready" => UNCHANGED <<link, awaited>>) /\ (link' = "done" => link = "done")
        /\ (link = "done" => link' = "done" /\ finished' = finished)
    BY <1>3 DEF FinishLink
  <1>5. Single'
    BY <1>1, <1>4 DEF Own, Single, Typed
  <1>6. OneAsked'
    BY <1>1, <1>2, <1>4 DEF Own, OneAsked, Quiet, Running, Typed
  <1>7. Order'
    <2>1. link # "done" => \A i \in 1 .. Len(played) : played[i] <= finished /\ played[i] \in Nat
      BY DEF Own, Order, ToPlay, Typed
    <2>2. finished \in Nat /\ finished <= finished' /\ finished' \in Nat
      BY <1>4 DEF Own, Typed
    <2> QED
      BY <1>1, <1>4, <2>1, <2>2 DEF Own, Order, ToPlay, current
  <1> QED
    BY <1>5, <1>6, <1>7

(* The sentence of a worker that is killed is never waited for again.       *)
LEMMA KillOwn ==
  ASSUME Own, KillWorker
  PROVE  Single' /\ OneAsked' /\ Order'
  <1>1. /\ worker' = 0 /\ slot' = 0 /\ UNCHANGED <<finished, link, awaited, spawned, played, stdin, stdout>>
        /\ status' = IF worker # 0 /\ Running(worker)
                       THEN [status EXCEPT ![worker] = "dead"] ELSE status
    BY DEF KillWorker, chainVars
  <1>2. worker # 0 => worker \in Workers /\ Running(worker) /\ worker = spawned /\ spawned \in Nat
    BY DEF Own, Single, Typed, Workers
  <1>3. \A w \in Workers : w # worker => status'[w] = status[w]
    BY <1>1, <1>2 DEF Own, Typed
  <1>4. worker # 0 => status'[worker] = "dead"
    BY <1>1, <1>2 DEF Own, Typed
  <1>5. Single'
    <2>1. \A w \in Workers : w > spawned => w # worker
      BY <1>2 DEF Workers
    <2>2. \A w \in Workers : status'[w] \in {"unborn", "starting"} => w # worker
      BY <1>2, <1>4 DEF Workers
    <2> QED
      BY <1>1, <1>3, <2>1, <2>2 DEF Own, Single
  <1>6. OneAsked'
    <2>1. \A w \in Workers : Running(w)' => w # worker /\ Running(w)
      BY <1>2, <1>3, <1>4 DEF Running, Workers
    <2>2. link = "done" => \A w \in Workers : Running(w)' => stdin[w] = <<>>
      BY <2>1 DEF Own, OneAsked, Quiet
    <2> QED
      BY <1>1, <2>2 DEF Own, OneAsked, Quiet
  <1>7. Order'
    BY <1>1 DEF Own, Order, ToPlay, current
  <1> QED
    BY <1>5, <1>6, <1>7

LEMMA FrameOwn ==
  ASSUME Own, UNCHANGED <<finished, link, worker, awaited, slot, stdin, stdout, played, spawned, status>>
  PROVE  Single' /\ OneAsked' /\ Order'
  <1>1. Single'
    BY DEF Own, Single, Running, SlowStart
  <1>2. OneAsked'
    BY DEF Own, OneAsked, Quiet, Running
  <1>3. Order'
    BY DEF Own, Order, ToPlay, current
  <1> QED
    BY <1>1, <1>2, <1>3

LEMMA ExitOwn ==
  ASSUME Own, NEW w \in Workers, Exit(w)
  PROVE  Single' /\ OneAsked' /\ Order'
  <1>1. /\ status[w] = "dead" /\ status' = [status EXCEPT ![w] = "exited"]
        /\ UNCHANGED <<finished, link, worker, awaited, slot, stdin, stdout, played, spawned>>
    BY DEF Exit, chainVars, serviceVars, countVars
  <1>2. \A v \in Workers : status'[v] = IF v = w THEN "exited" ELSE status[v]
    BY <1>1 DEF Own, Typed
  <1>3. \A v \in Workers : Running(v)' <=> Running(v)
    BY <1>1, <1>2 DEF Running
  <1>4. worker # 0 => worker \in Workers
    BY DEF Own, Typed, Workers
  <1>5. Single'
    <2>1. worker # 0 /\ SlowStart(worker) => SlowStart(worker)'
      BY <1>1, <1>2, <1>4 DEF SlowStart, Workers, Own, Typed
    <2>2. \A v \in Workers : status'[v] \in {"unborn", "starting", "ready"} => status'[v] = status[v]
      BY <1>2
    <2>3. \A v \in Workers : status[v] = "unborn" => status'[v] = "unborn"
      BY <1>1, <1>2
    <2> QED
      BY <1>1, <1>3, <1>4, <2>1, <2>2, <2>3 DEF Own, Single
  <1>6. OneAsked'
    BY <1>1, <1>3 DEF Own, OneAsked, Quiet
  <1>7. Order'
    BY <1>1 DEF Own, Order, ToPlay, current
  <1> QED
    BY <1>5, <1>6, <1>7

LEMMA BootOwn ==
  ASSUME Own, NEW w \in Workers, Boot(w)
  PROVE  Single' /\ OneAsked' /\ Order'
  <1>1. /\ status[w] = "starting" /\ SlowStart(w) /\ status' = [status EXCEPT ![w] = "ready"]
        /\ stdout' = [stdout EXCEPT ![w] = Append(@, <<"ready", 0>>)]
        /\ UNCHANGED <<finished, link, worker, awaited, slot, stdin, played, spawned>>
    BY DEF Boot, chainVars, serviceVars, countVars
  <1>2. \A v \in Workers : /\ status'[v] = IF v = w THEN "ready" ELSE status[v]
                           /\ v # w => stdout'[v] = stdout[v]
                           /\ Calm(stdout[v]) => Calm(stdout'[v])
                           /\ \A n : Answered(stdout[v], n) => Answered(stdout'[v], n)
    BY <1>1, AppendReady DEF Own, Typed
  <1>3. \A v \in Workers : Running(v)' <=> Running(v)
    BY <1>1, <1>2 DEF Running
  <1>4. worker # 0 => worker \in Workers
    BY DEF Own, Typed, Workers
  <1>5. Single'
    <2>0. \A u \in Workers : \A v \in 1 .. u - 1 : v \in Workers
      BY Bounds DEF Workers
    <2>1. \A u \in Workers : SlowStart(u) => SlowStart(u)'
      BY <1>2, <2>0 DEF SlowStart
    <2>2. worker # 0 /\ (link # "ready" \/ status'[worker] = "ready") => SlowStart(worker)
      BY <1>1, <1>2, <1>4 DEF Own, Single
    <2>3. \A v \in Workers : status'[v] \in {"unborn", "starting"} => v # w
      BY <1>2
    <2>4. \A v \in Workers : status[v] = "unborn" => status'[v] = "unborn"
      BY <1>1, <1>2
    <2> QED
      BY <1>1, <1>2, <1>3, <1>4, <2>1, <2>2, <2>3, <2>4 DEF Own, Single
  <1>6. OneAsked'
    BY <1>1, <1>2, <1>3, <1>4 DEF Own, OneAsked, Quiet
  <1>7. Order'
    BY <1>1 DEF Own, Order, ToPlay, current
  <1> QED
    BY <1>5, <1>6, <1>7

(* What a worker has to play is the sentence in the slot.                   *)
LEMMA PlayOwn ==
  ASSUME Own, Provider = "piper", NEW w \in Workers, Play(w) \/ PlayFails(w)
  PROVE  Single' /\ OneAsked' /\ Order'
  <1>1. /\ status[w] = "ready" /\ stdin[w] # <<>> /\ stdin' = [stdin EXCEPT ![w] = Tail(@)]
        /\ UNCHANGED <<finished, link, worker, awaited, slot, spawned, status>>
    BY DEF Play, PlayFails, chainVars, serviceVars, countVars
  <1>2. /\ slot # 0 /\ slot \in Nat /\ link = "done" /\ slot = finished + 1
        /\ w = worker /\ stdin[w] = <<slot>> /\ Calm(stdout[w]) /\ finished \in Nat
    BY <1>1 DEF Own, OneAsked, Quiet, Running, IInv, SlotIsOfLink, current, Typed
  <1>3. Head(stdin[w]) = slot /\ Tail(stdin[w]) = <<>>
    BY <1>2
  <1>4. \E kind \in {"done", "error"} : stdout' = [stdout EXCEPT ![w] = Append(@, <<kind, slot>>)]
    <2>1. CASE Play(w)
      BY <1>3, <2>1 DEF Play
    <2>2. CASE PlayFails(w)
      <3>1. stdout[w] \o <<<<"error", slot>>>> = Append(stdout[w], <<"error", slot>>)
        BY <1>2, AppendAnswer DEF Own, Typed
      <3> QED
        BY <1>3, <2>2, <3>1 DEF PlayFails
    <2> QED
      BY <2>1, <2>2
  <1>5. Answered(stdout'[w], slot) /\ \A v \in Workers : v # w => stdout'[v] = stdout[v]
    <2>1. PICK kind \in {"done", "error"} : stdout' = [stdout EXCEPT ![w] = Append(@, <<kind, slot>>)]
      BY <1>4
    <2>2. stdout[w] \in Seq(Messages) /\ stdout'[w] = Append(stdout[w], <<kind, slot>>)
      BY <2>1 DEF Own, Typed
    <2>3. \A v \in Workers : v # w => stdout'[v] = stdout[v]
      BY <2>1 DEF Own, Typed
    <2> QED
      BY ZenonT(60), <1>2, <2>2, <2>3, AppendAnswer
  <1>6. stdin'[w] = <<>> /\ \A v \in Workers : v # w => stdin'[v] = stdin[v]
    BY <1>1, <1>3 DEF Own, Typed
  <1>7. Single'
    BY <1>1, <1>5 DEF Own, Single, Running, SlowStart
  <1>8. OneAsked'
    BY <1>1, <1>2, <1>5, <1>6 DEF Own, OneAsked, Quiet
  <1>9. Order'
    <2>1. ~ToPlay'
      BY <1>1, <1>2, <1>6 DEF ToPlay
    <2>2. CASE played' = played
      BY <1>1, <2>1, <2>2 DEF Own, Order, current
    <2>3. CASE played' = Append(played, slot)
      <3>1. \A i \in 1 .. Len(played) : played[i] <= finished /\ played[i] \in Nat
        BY <1>2 DEF Own, Order, ToPlay, Typed
      <3>2. /\ Len(played) \in Nat /\ Len(played') = Len(played) + 1 /\ played'[Len(played) + 1] = slot
            /\ \A i \in 1 .. Len(played) : played'[i] = played[i]
        BY <1>2, <2>3, AppendFacts DEF Own, Typed
      <3>3. \A i \in 1 .. Len(played') : i = Len(played) + 1 \/ i \in 1 .. Len(played)
        BY <3>2
      <3>4. \A i \in 1 .. Len(played') : played'[i] <= finished + 1
        BY <1>2, <3>1, <3>2, <3>3
      <3>5. \A i, j \in 1 .. Len(played') : i < j => played'[i] < played'[j]
        <4> SUFFICES ASSUME NEW i \in 1 .. Len(played'), NEW j \in 1 .. Len(played'), i < j
                     PROVE  played'[i] < played'[j]
          OBVIOUS
        <4>1. i \in 1 .. Len(played)
          BY <3>2
        <4>2. CASE j \in 1 .. Len(played)
          BY <3>2, <4>1, <4>2 DEF Own, Order
        <4>3. CASE j = Len(played) + 1
          BY <1>2, <3>1, <3>2, <4>1, <4>3
        <4> QED
          BY <3>3, <4>2, <4>3
      <3> QED
        BY <1>1, <2>1, <3>4, <3>5 DEF Order, current
    <2> QED
      BY <1>3, <2>2, <2>3 DEF Play, PlayFails
  <1> QED
    BY <1>7, <1>8, <1>9

LEMMA OwnStep ==
  ASSUME OwnInv, Provider = "piper", [Next]_vars
  PROVE  OwnInv'
  <1>1. IInv' /\ Typed'
    BY StepHolds, TypedHolds DEF OwnInv
  <1>2. ASSUME crashes' = 0 PROVE Single' /\ OneAsked' /\ Order'
    <2>1. crashes = 0 /\ \A w \in Workers : ~BootFails(w) /\ ~Crash(w)
      <3>1. \A w \in Workers : ~BootFails(w) /\ ~Crash(w)
        BY <1>2 DEF BootFails, Crash, OwnInv, Typed
      <3>2. CASE Service \/ Process \/ StartupTimeout \/ UNCHANGED vars
        BY <1>2, <3>1, <3>2 DEF Service, BeginLink, SpeakNothing, SpeakReuse, SpeakSpawn, ReadReady,
           ReadAnswer, Exit, Close, Process, Boot, Play, PlayFails, StartupTimeout, vars, countVars
      <3>3. CASE Host
        BY <1>2, <3>1, <3>3 DEF Host, Flush, Disable, Enable, StopForRecording, ChangeVoice, KillWorker,
           countVars
      <3> QED
        BY <3>1, <3>2, <3>3 DEF Next, Failure
    <2>2. Own
      BY <2>1 DEF OwnInv, Own
    <2>3. CASE Disable \/ StopForRecording \/ ChangeVoice
      BY <2>2, <2>3, KillOwn DEF Disable, StopForRecording, ChangeVoice
    <2>4. CASE Flush \/ Enable \/ UNCHANGED vars
      BY <2>2, <2>4, FrameOwn
         DEF Flush, Enable, vars, chainVars, serviceVars, processVars, countVars
    <2>5. CASE Service
      BY <2>2, <2>5, LinkOwn, ReuseOwn, SpawnOwn, ReadReadyOwn, ReadAnswerOwn, ExitOwn, CloseOwn
         DEF Service
    <2>6. CASE Process
      BY <2>2, <2>6, BootOwn, PlayOwn DEF Process
    <2> QED
      BY <2>1, <2>2, <2>3, <2>4, <2>5, <2>6, LinkOwn DEF Next, Host, Failure
  <1> QED
    BY <1>1, <1>2 DEF OwnInv

LEMMA OwnInit == Init => OwnInv
  BY Bounds DEF Init, OwnInv, IInv, SlotIsOfLink, Typed, Single, OneAsked, Order, ToPlay, current,
     Quiet, Calm, Running, Workers

LEMMA OwnAlways ==
  ASSUME Provider = "piper" PROVE Spec => []OwnInv
  <1>1. OwnInv /\ [Next]_vars => OwnInv'
    BY OwnStep
  <1> QED
    BY <1>1, OwnInit, PTL DEF Spec

(* While a sentence is waited for, no answer of another is under way, and   *)
(* no worker that runs has another to play: what "done" resolves is the     *)
(* promise of the sentence it is about (tts.ts, handleLine), with piper's   *)
(* one answer for each, until a worker dies on its own.                     *)
THEOREM AnswersMatch ==
  ASSUME Provider = "piper" PROVE Spec => []AnswersAreOwn
  <1>1. OwnInv => AnswersAreOwn
    <2> SUFFICES ASSUME OwnInv, crashes = 0, slot # 0, NEW w \in Workers
                 PROVE  /\ \A i \in 1 .. Len(stdout[w]) :
                              stdout[w][i][1] = "done" => stdout[w][i][2] = slot
                        /\ Running(w) => \A i \in 1 .. Len(stdin[w]) : stdin[w][i] = slot
      BY DEF AnswersAreOwn
    <2>1. OneAsked
      BY DEF OwnInv
    <2>2. CASE Quiet(w)
      BY <2>2 DEF Quiet, Calm
    <2>3. CASE stdin[w] = <<slot>> /\ Calm(stdout[w])
      BY <2>3 DEF Calm
    <2>4. CASE stdin[w] = <<>> /\ Answered(stdout[w], slot)
      BY <2>4 DEF Answered
    <2> QED
      BY <2>1, <2>2, <2>3, <2>4 DEF OneAsked
  <1> QED
    BY <1>1, OwnAlways, PTL

(* Sentences are played in the order in which they were flushed             *)
(* (interactive-mode.ts, flushTtsBuffer), each at most once, over all       *)
(* workers, until one dies on its own.                                     *)
THEOREM PlaysInOrder ==
  ASSUME Provider = "piper" PROVE Spec => []PlayedInOrder
  <1>1. OwnInv => PlayedInOrder
    BY DEF OwnInv, Order, PlayedInOrder
  <1> QED
    BY <1>1, OwnAlways, PTL

-----------------------------------------------------------------------------
(* All types, with the bounds: a link is only begun for a sentence that was *)
(* flushed, so what is sent, answered and played is one of the sentences.   *)

Texts == 1 .. MaxTexts
Replies == {"ready", "done", "error"} \X (0 .. MaxTexts)

Due == link # "none" => finished < flushed

(* What Typed leaves open.                                                  *)
InBounds ==
    /\ flushed \in 0 .. MaxTexts /\ finished \in 0 .. flushed
    /\ enabled \in {"yes", "no"} /\ awaited \in 0 .. MaxWorkers
    /\ slot \in 0 .. MaxTexts /\ state \in {"idle", "speaking"}
    /\ \A w \in Workers : stdin[w] \in Seq(Texts) /\ stdout[w] \in Seq(Replies)
    /\ played \in Seq(Texts)

TypeInv == IInv /\ Typed /\ InBounds /\ Due

LEMMA TypeFacts ==
  ASSUME TypeInv
  PROVE  /\ IInv /\ Typed /\ InBounds /\ Due
         /\ MaxTexts \in Nat /\ MaxWorkers \in Nat
         /\ 0 \in 0 .. MaxTexts /\ 0 \in 0 .. MaxWorkers
         /\ flushed \in 0 .. MaxTexts /\ finished \in 0 .. flushed
         /\ enabled \in {"yes", "no"} /\ awaited \in 0 .. MaxWorkers
         /\ slot \in 0 .. MaxTexts /\ state \in {"idle", "speaking"}
         /\ worker \in 0 .. MaxWorkers
         /\ \A w \in Workers : stdin[w] \in Seq(Texts) /\ stdout[w] \in Seq(Replies)
         /\ played \in Seq(Texts)
         /\ link # "none" => finished < flushed
  BY Bounds DEF TypeInv, InBounds, Typed, Due

LEMMA Parts ==
  ASSUME IInv', Typed',
         flushed' \in 0 .. MaxTexts, finished' \in 0 .. flushed',
         enabled' \in {"yes", "no"}, awaited' \in 0 .. MaxWorkers,
         slot' \in 0 .. MaxTexts, state' \in {"idle", "speaking"},
         \A w \in Workers : stdin'[w] \in Seq(Texts) /\ stdout'[w] \in Seq(Replies),
         played' \in Seq(Texts), link' # "none" => finished' < flushed'
  PROVE  TypeInv'
  BY DEF TypeInv, InBounds, Due

(* The sentence of the link in hand, and what a link leaves when it settles. *)
LEMMA LinkDue ==
  ASSUME TypeInv, link # "none"
  PROVE  /\ current \in Texts /\ (slot = 0 \/ slot = current)
         /\ FinishLink => finished' \in 0 .. flushed /\ link' = "none" /\ awaited' = 0
  <1>1. flushed \in 0 .. MaxTexts /\ finished \in 0 .. flushed /\ finished < flushed
        /\ MaxTexts \in Nat
    BY TypeFacts
  <1>2. current \in Texts /\ finished + 1 \in 0 .. flushed
    BY <1>1 DEF current, Texts
  <1>3. slot = 0 \/ slot = current
    BY DEF TypeInv, IInv, SlotIsOfLink
  <1> QED
    BY <1>2, <1>3 DEF FinishLink

LEMMA SendTextInBounds ==
  ASSUME TypeInv, link # "none", NEW w \in Workers, SendText(w)
  PROVE  /\ slot' \in 0 .. MaxTexts /\ state' = "speaking" /\ link' = "done" /\ awaited' = 0
         /\ finished' = finished /\ finished < flushed
         /\ \A v \in Workers : stdin'[v] \in Seq(Texts)
  <1>1. current \in Texts /\ finished < flushed /\ MaxTexts \in Nat
    BY LinkDue, TypeFacts
  <1>2. current \in 0 .. MaxTexts
    BY <1>1 DEF Texts
  <1>3. stdin \in [Workers -> Seq(Nat)] /\ \A v \in Workers : stdin[v] \in Seq(Texts)
    BY TypeFacts DEF Typed
  <1>4. Append(stdin[w], current) \in Seq(Texts)
    BY <1>1, <1>3, AppendFacts
  <1>5. \A v \in Workers : stdin'[v] \in Seq(Texts)
    BY <1>3, <1>4 DEF SendText
  <1> QED
    BY <1>1, <1>2, <1>5 DEF SendText

LEMMA ServiceInBounds ==
  ASSUME TypeInv, Service \/ StartupTimeout, IInv', Typed'
  PROVE  TypeInv'
  <1>1. CASE BeginLink
    BY <1>1, TypeFacts, Parts DEF BeginLink, serviceVars, processVars
  <1>2. CASE SpeakNothing \/ StartupTimeout
    <2>1. link # "none" /\ FinishLink
          /\ UNCHANGED <<flushed, enabled, worker, slot, state, stdin, stdout, played>>
      BY <1>2 DEF SpeakNothing, StartupTimeout, processVars
    <2>2. finished' \in 0 .. flushed /\ link' = "none" /\ awaited' = 0
      BY <2>1, LinkDue
    <2> QED
      BY <2>1, <2>2, TypeFacts, Parts
  <1>3. CASE SpeakReuse
    <2>1. link # "none" /\ worker \in Workers
      BY <1>3, TypeFacts DEF SpeakReuse, Workers
    <2>2. /\ slot' \in 0 .. MaxTexts /\ state' = "speaking" /\ awaited' = 0
          /\ finished' = finished /\ finished < flushed
          /\ \A v \in Workers : stdin'[v] \in Seq(Texts)
      BY <1>3, <2>1, SendTextInBounds DEF SpeakReuse
    <2>3. UNCHANGED <<flushed, enabled, stdout, played>>
      BY <1>3 DEF SpeakReuse
    <2> QED
      BY <2>1, <2>2, <2>3, TypeFacts, Parts
  <1>4. CASE SpeakSpawn
    <2>1. spawned \in 0 .. MaxWorkers /\ MaxWorkers \in Nat
      BY TypeFacts DEF Typed
    <2>2. /\ awaited' \in 0 .. MaxWorkers /\ link # "none"
          /\ UNCHANGED <<flushed, finished, enabled, slot, state, stdin, stdout, played>>
      BY <1>4, <2>1 DEF SpeakSpawn
    <2> QED
      BY <2>2, TypeFacts, Parts
  <1>5. ASSUME NEW w \in Workers, ReadReady(w) \/ ReadAnswer(w)
        PROVE  TypeInv'
    <2>1. /\ UNCHANGED <<flushed, enabled, played>> /\ stdout' = [stdout EXCEPT ![w] = Tail(@)]
          /\ stdout[w] # <<>>
      BY <1>5 DEF ReadReady, ReadAnswer, Consume
    <2>2. \A v \in Workers : stdout'[v] \in Seq(Replies)
      <3>1. stdout \in [Workers -> Seq(Messages)] /\ \A v \in Workers : stdout[v] \in Seq(Replies)
        BY TypeFacts DEF Typed
      <3>2. Tail(stdout[w]) \in Seq(Replies)
        BY <2>1, <3>1, TailFacts
      <3> QED
        BY <2>1, <3>1, <3>2
    <2>3. \/ UNCHANGED <<finished, link, awaited, stdin>>
             /\ (UNCHANGED <<slot, state>> \/ (slot' = 0 /\ state' = "idle"))
          \/ link # "none" /\ worker \in Workers /\ SendText(worker)
          \/ link # "none" /\ FinishLink /\ UNCHANGED stdin
             /\ (UNCHANGED <<slot, state>> \/ (slot' = 0 /\ state' = "idle"))
      <3>1. awaited = w => link # "none"
        BY TypeFacts DEF IInv, Workers
      <3>2. slot # 0 => link # "none"
        BY TypeFacts DEF IInv, SlotIsOfLink
      <3>3. worker # 0 => worker \in Workers
        BY TypeFacts DEF Workers
      <3> QED
        BY <1>5, <3>1, <3>2, <3>3 DEF ReadReady, ReadAnswer
    <2>4. CASE UNCHANGED <<finished, link, awaited, stdin>>
               /\ (UNCHANGED <<slot, state>> \/ (slot' = 0 /\ state' = "idle"))
      BY <2>1, <2>2, <2>4, TypeFacts, Parts
    <2>5. CASE link # "none" /\ worker \in Workers /\ SendText(worker)
      BY <2>1, <2>2, <2>5, SendTextInBounds, TypeFacts, Parts
    <2>6. CASE link # "none" /\ FinishLink /\ UNCHANGED stdin
               /\ (UNCHANGED <<slot, state>> \/ (slot' = 0 /\ state' = "idle"))
      BY <2>1, <2>2, <2>6, LinkDue, TypeFacts, Parts
    <2> QED
      BY <2>3, <2>4, <2>5, <2>6
  <1>6. ASSUME NEW w \in Workers, Exit(w)
        PROVE  TypeInv'
    BY <1>6, TypeFacts, Parts DEF Exit, chainVars, serviceVars
  <1>7. ASSUME NEW w \in Workers, Close(w)
        PROVE  TypeInv'
    <2>1. /\ UNCHANGED <<flushed, enabled, stdin, stdout, played>> /\ slot' = 0 /\ state' = "idle"
          /\ (UNCHANGED <<finished, link, awaited>> \/ (link # "none" /\ FinishLink))
      <3>1. awaited = w => link # "none"
        BY TypeFacts DEF IInv, Workers
      <3>2. slot # 0 => link # "none"
        BY TypeFacts DEF IInv, SlotIsOfLink
      <3> QED
        BY <1>7, <3>1, <3>2 DEF Close
    <2>2. CASE UNCHANGED <<finished, link, awaited>>
      BY <2>1, <2>2, TypeFacts, Parts
    <2>3. CASE link # "none" /\ FinishLink
      BY <2>1, <2>3, LinkDue, TypeFacts, Parts
    <2> QED
      BY <2>1, <2>2, <2>3
  <1> QED
    BY <1>1, <1>2, <1>3, <1>4, <1>5, <1>6, <1>7 DEF Service

LEMMA ProcessInBounds ==
  ASSUME TypeInv, IInv', Typed', NEW w \in Workers,
         Boot(w) \/ BootFails(w) \/ Play(w) \/ PlayFails(w) \/ Crash(w)
  PROVE  TypeInv'
  <1>0. /\ UNCHANGED <<flushed, finished, link, enabled, awaited, slot, state>>
        /\ stdin \in [Workers -> Seq(Nat)] /\ stdout \in [Workers -> Seq(Messages)]
        /\ \A v \in Workers : stdin[v] \in Seq(Texts) /\ stdout[v] \in Seq(Replies)
    BY TypeFacts DEF Boot, BootFails, Play, PlayFails, Crash, chainVars, serviceVars, Typed
  <1>1. CASE Boot(w) \/ BootFails(w)
    <2>1. <<"ready", 0>> \in Replies /\ <<"error", 0>> \in Replies
      BY TypeFacts DEF Replies
    <2>2. Append(stdout[w], <<"ready", 0>>) \in Seq(Replies)
          /\ Append(stdout[w], <<"error", 0>>) \in Seq(Replies)
      BY <1>0, <2>1, AppendFacts
    <2>3. \A v \in Workers : stdout'[v] \in Seq(Replies)
      BY <1>0, <1>1, <2>2 DEF Boot, BootFails
    <2>4. UNCHANGED <<stdin, played>>
      BY <1>1 DEF Boot, BootFails
    <2> QED
      BY <1>0, <2>3, <2>4, TypeFacts, Parts
  <1>2. CASE Play(w) \/ PlayFails(w)
    <2>1. Head(stdin[w]) \in Texts /\ Tail(stdin[w]) \in Seq(Texts)
      BY <1>0, <1>2, TailFacts DEF Play, PlayFails
    <2>2. \A v \in Workers : stdin'[v] \in Seq(Texts)
      BY <1>0, <1>2, <2>1 DEF Play, PlayFails
    <2>3. played' \in Seq(Texts)
      <3>1. played \in Seq(Texts) /\ Append(played, Head(stdin[w])) \in Seq(Texts)
        BY <2>1, TypeFacts, AppendFacts
      <3> QED
        BY <1>2, <3>1 DEF Play, PlayFails
    <2>4. \A v \in Workers : stdout'[v] \in Seq(Replies)
      <3> DEFINE d == <<"done", Head(stdin[w])>>
                 e == <<"error", Head(stdin[w])>>
      <3>1. d \in Replies /\ e \in Replies
        BY SMTT(30), <2>1, TypeFacts DEF Replies, Texts
      <3>2. /\ Append(stdout[w], d) \in Seq(Replies) /\ stdout[w] \o <<e>> \in Seq(Replies)
            /\ stdout[w] \o <<e, d>> \in Seq(Replies)
        <4> HIDE DEF d, e
        <4>1. <<e>> \in Seq(Replies) /\ <<e, d>> \in Seq(Replies)
          BY <3>1
        <4> QED
          BY <1>0, <3>1, <4>1
      <3> HIDE DEF d, e
      <3>3. \E q \in Seq(Replies) : stdout' = [stdout EXCEPT ![w] = q]
        <4>1. CASE Play(w)
          BY <3>2, <4>1 DEF Play, d
        <4>2. CASE PlayFails(w) /\ Provider = "piper"
          BY <3>2, <4>2 DEF PlayFails, e
        <4>3. CASE PlayFails(w) /\ Provider # "piper"
          BY <3>2, <4>3 DEF PlayFails, d, e
        <4> QED
          BY <1>2, <4>1, <4>2, <4>3
      <3> QED
        BY <1>0, <3>3
    <2> QED
      BY <1>0, <2>2, <2>3, <2>4, TypeFacts, Parts
  <1>3. CASE Crash(w)
    <2>1. UNCHANGED <<stdin, stdout, played>>
      BY <1>3 DEF Crash
    <2> QED
      BY <1>0, <2>1, TypeFacts, Parts
  <1> QED
    BY <1>1, <1>2, <1>3

LEMMA HostInBounds ==
  ASSUME TypeInv, Host \/ UNCHANGED vars, IInv', Typed'
  PROVE  TypeInv'
  <1>1. CASE Flush
    <2>1. flushed' \in 0 .. MaxTexts /\ finished \in 0 .. flushed'
          /\ (link # "none" => finished < flushed')
      BY <1>1, TypeFacts DEF Flush
    <2>2. UNCHANGED <<finished, link, enabled, awaited, slot, state, stdin, stdout, played>>
      BY <1>1 DEF Flush, serviceVars, processVars
    <2> QED
      BY <2>1, <2>2, TypeFacts, Parts
  <1>2. CASE KillWorker /\ enabled' \in {"yes", "no"}
    BY <1>2, TypeFacts, Parts DEF KillWorker, chainVars
  <1>3. CASE Enable
    BY <1>3, TypeFacts, Parts DEF Enable, chainVars, processVars
  <1>4. CASE UNCHANGED vars
    BY <1>4, TypeFacts, Parts DEF vars, chainVars, serviceVars, processVars
  <1>5. CASE Disable \/ StopForRecording \/ ChangeVoice
    <2>1. KillWorker /\ enabled' \in {"yes", "no"}
      BY <1>5, TypeFacts DEF Disable, StopForRecording, ChangeVoice
    <2> QED
      BY <1>2, <2>1
  <1> QED
    BY <1>1, <1>3, <1>4, <1>5 DEF Host

(* Whatever fails: the chain never finishes more links than were flushed,   *)
(* and the slot, the pipes and what is played hold numbers of sentences and *)
(* nothing else.                                                            *)
THEOREM TypeCorrect == Spec => []TypeOK
  <1>1. Init => TypeInv
    <2> SUFFICES ASSUME Init PROVE TypeInv
      OBVIOUS
    <2>1. IInv /\ Typed
      BY OwnInit DEF OwnInv
    <2>2. \A w \in Workers : stdin[w] = <<>> /\ stdout[w] = <<>>
      BY DEF Init
    <2> QED
      BY <2>1, <2>2, Bounds DEF Init, TypeInv, InBounds, Due
  <1>2. TypeInv /\ [Next]_vars => TypeInv'
    <2> SUFFICES ASSUME TypeInv, [Next]_vars PROVE TypeInv'
      OBVIOUS
    <2>1. IInv' /\ Typed'
      BY TypeFacts, StepHolds, TypedHolds
    <2> QED
      BY <2>1, ServiceInBounds, ProcessInBounds, HostInBounds DEF Next, Process, Failure
  <1>3. TypeInv => TypeOK
    BY DEF TypeInv, InBounds, Typed, TypeOK, Texts, Replies
  <1> QED
    BY <1>1, <1>2, <1>3, PTL DEF Spec
=============================================================================
