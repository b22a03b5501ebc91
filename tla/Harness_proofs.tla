--------------------------- MODULE Harness_proofs ---------------------------
(* The types of the agent harness; at most one operation changes the        *)
(* session, and no message is lost or doubled, for every host as long as    *)
(* nothing fails; and for a host that awaits what it starts, what becomes   *)
(* of its session writes whatever fails: for every number of operations,    *)
(* turns, writes, messages and aborts.                                     *)
EXTENDS Harness, FiniteSetTheorems, TLAPS

Operation == [pc : Location, hand : Seq(1 .. MaxMsgs), from : Queues,
              detached : {"yes", "no"}, writing : 0 .. MaxWrites,
              more : {"tools", "text", "stop"}, turns : Nat,
              outcome : {"ok", "error", "early", "unflushed"}]

Entry == {"write", "user", "prompt", "assistant", "result", "failure", "structural"} \X Nat

-----------------------------------------------------------------------------
(* Sequences.                                                               *)

LEMMA AppendFacts ==
  ASSUME NEW S, NEW q \in Seq(S), NEW e \in S
  PROVE  /\ Append(q, e) \in Seq(S) /\ Len(q) \in Nat /\ Len(Append(q, e)) = Len(q) + 1
         /\ \A i \in 1 .. Len(q) : Append(q, e)[i] = q[i]
         /\ Append(q, e)[Len(q) + 1] = e
  OBVIOUS

LEMMA TailFacts ==
  ASSUME NEW S, NEW q \in Seq(S), q # <<>>
  PROVE  /\ Tail(q) \in Seq(S) /\ Len(q) \in Nat \ {0} /\ Len(Tail(q)) = Len(q) - 1
         /\ \A i \in 1 .. Len(Tail(q)) : Tail(q)[i] = q[i + 1]
         /\ Head(q) = q[1] /\ Head(q) \in S
  OBVIOUS

LEMMA SubSeqFacts ==
  ASSUME NEW S, NEW q \in Seq(S), NEW n \in 0 .. Len(q)
  PROVE  /\ SubSeq(q, 1, n) \in Seq(S) /\ Len(SubSeq(q, 1, n)) = n
         /\ \A i \in 1 .. n : SubSeq(q, 1, n)[i] = q[i]
         /\ SubSeq(q, n + 1, Len(q)) \in Seq(S) /\ Len(SubSeq(q, n + 1, Len(q))) = Len(q) - n
         /\ \A i \in 1 .. Len(q) - n : SubSeq(q, n + 1, Len(q))[i] = q[n + i]
  OBVIOUS

LEMMA ElementsIn ==
  ASSUME NEW S, NEW q \in Seq(S)
  PROVE  Elements(q) \subseteq S
  BY DEF Elements

-----------------------------------------------------------------------------
(* The types.                                                               *)

LEMMA OperationStep ==
  ASSUME NEW f \in [Ops -> Operation], NEW r \in Ops, NEW o \in Operation
  PROVE  [f EXCEPT ![r] = o] \in [Ops -> Operation]
  OBVIOUS

LEMMA IdleTyped == Idle \in Operation /\ Idle.pc = "none"
  BY Bounds DEF Idle, Operation, Location, Queues

LEMMA OperationFields ==
  ASSUME NEW o \in Operation
  PROVE  /\ o.pc \in Location /\ o.hand \in Seq(1 .. MaxMsgs) /\ o.from \in Queues
         /\ o.detached \in {"yes", "no"} /\ o.writing \in 0 .. MaxWrites
         /\ o.more \in {"tools", "text", "stop"} /\ o.turns \in Nat
         /\ o.outcome \in {"ok", "error", "early", "unflushed"}
  BY DEF Operation

LEMMA Constants ==
  /\ <<>> \in Seq(1 .. MaxMsgs) /\ 0 \in 0 .. MaxWrites
  /\ "notify" \in Location /\ "failing" \in Location /\ "over" \in Location
  BY Bounds DEF Location

(* What becomes of operation r in a step of its own.                        *)
Becomes(r, pc, hand, writing, outcome) ==
  /\ op' \in [Ops -> Operation]
  /\ op'[r].pc = pc /\ op'[r].hand = hand
  /\ op'[r].writing = writing /\ op'[r].outcome = outcome
  /\ \A s \in Ops : s # r => op'[s] = op[s]

LEMMA OperationChange ==
  ASSUME op \in [Ops -> Operation], NEW r \in Ops, NEW o \in Operation,
         op' = [op EXCEPT ![r] = o]
  PROVE  Becomes(r, o.pc, o.hand, o.writing, o.outcome)
  BY DEF Becomes

LEMMA GoBecomes ==
  ASSUME op \in [Ops -> Operation], NEW r \in Ops, NEW l \in Location, Go(r, l)
  PROVE  Becomes(r, l, op[r].hand, op[r].writing, op[r].outcome)
  <1> DEFINE o == [op[r] EXCEPT !.pc = l]
  <1>1. /\ o \in Operation /\ o.pc = l /\ o.hand = op[r].hand
        /\ o.writing = op[r].writing /\ o.outcome = op[r].outcome
    BY DEF Operation
  <1>2. op' = [op EXCEPT ![r] = o]
    BY DEF Go
  <1> HIDE DEF o
  <1> QED
    BY <1>1, <1>2, OperationChange

LEMMA EarlyBecomes ==
  ASSUME op \in [Ops -> Operation], NEW r \in Ops, EndEarly(r)
  PROVE  Becomes(r, "over", <<>>, op[r].writing, "early")
  <1> DEFINE o == [op[r] EXCEPT !.pc = "over", !.hand = <<>>, !.outcome = "early"]
  <1>1. /\ o \in Operation /\ o.pc = "over" /\ o.hand = <<>>
        /\ o.writing = op[r].writing /\ o.outcome = "early"
    BY Constants DEF Operation
  <1>2. op' = [op EXCEPT ![r] = o]
    BY DEF EndEarly
  <1> HIDE DEF o
  <1> QED
    BY <1>1, <1>2, OperationChange

LEMMA TakeBecomes ==
  ASSUME op \in [Ops -> Operation], NEW r \in Ops, NEW q \in Queues,
         NEW hand \in Seq(1 .. MaxMsgs),
         op' = [op EXCEPT ![r].pc = "notify", ![r].from = q, ![r].detached = "no",
                          ![r].hand = hand]
  PROVE  Becomes(r, "notify", hand, op[r].writing, op[r].outcome)
  <1> DEFINE o == [op[r] EXCEPT !.pc = "notify", !.from = q, !.detached = "no", !.hand = hand]
  <1>1. /\ o \in Operation /\ o.pc = "notify" /\ o.hand = hand
        /\ o.writing = op[r].writing /\ o.outcome = op[r].outcome
    BY Constants DEF Operation
  <1>2. op' = [op EXCEPT ![r] = o]
    OBVIOUS
  <1> HIDE DEF o
  <1>3. Becomes(r, o.pc, o.hand, o.writing, o.outcome)
    BY <1>1, <1>2, OperationChange
  <1> QED
    BY <1>1, <1>3, Zenon

LEMMA DropBecomes ==
  ASSUME op \in [Ops -> Operation], NEW r \in Ops,
         op' = [op EXCEPT ![r].pc = "failing", ![r].hand = <<>>]
  PROVE  Becomes(r, "failing", <<>>, op[r].writing, op[r].outcome)
  <1> DEFINE o == [op[r] EXCEPT !.pc = "failing", !.hand = <<>>]
  <1>1. /\ o \in Operation /\ o.pc = "failing" /\ o.hand = <<>>
        /\ o.writing = op[r].writing /\ o.outcome = op[r].outcome
    BY Constants DEF Operation
  <1>2. op' = [op EXCEPT ![r] = o]
    OBVIOUS
  <1> HIDE DEF o
  <1>3. Becomes(r, o.pc, o.hand, o.writing, o.outcome)
    BY <1>1, <1>2, OperationChange
  <1> QED
    BY <1>1, <1>3, Zenon

LEMMA PersistBecomes ==
  ASSUME op \in [Ops -> Operation], NEW r \in Ops, op[r].hand # <<>>,
         op' = [op EXCEPT ![r].hand = Tail(@)]
  PROVE  Becomes(r, op[r].pc, Tail(op[r].hand), op[r].writing, op[r].outcome)
  <1> DEFINE o == [op[r] EXCEPT !.hand = Tail(op[r].hand)]
  <1>0. Tail(op[r].hand) \in Seq(1 .. MaxMsgs)
    BY OperationFields, TailFacts
  <1>1. /\ o \in Operation /\ o.pc = op[r].pc /\ o.hand = Tail(op[r].hand)
        /\ o.writing = op[r].writing /\ o.outcome = op[r].outcome
    BY <1>0 DEF Operation
  <1>2. op' = [op EXCEPT ![r] = o]
    OBVIOUS
  <1> HIDE DEF o
  <1> QED
    BY <1>1, <1>2, OperationChange

LEMMA GoMoreBecomes ==
  ASSUME op \in [Ops -> Operation], NEW r \in Ops, NEW l \in Location,
         NEW more \in {"tools", "text", "stop"},
         op' = [op EXCEPT ![r].pc = l, ![r].more = more]
  PROVE  Becomes(r, l, op[r].hand, op[r].writing, op[r].outcome)
  <1> DEFINE o == [op[r] EXCEPT !.pc = l, !.more = more]
  <1>1. /\ o \in Operation /\ o.pc = l /\ o.hand = op[r].hand
        /\ o.writing = op[r].writing /\ o.outcome = op[r].outcome
    BY DEF Operation
  <1>2. op' = [op EXCEPT ![r] = o]
    OBVIOUS
  <1> HIDE DEF o
  <1> QED
    BY <1>1, <1>2, OperationChange

LEMMA RespondBecomes ==
  ASSUME op \in [Ops -> Operation], NEW r \in Ops, NEW more \in {"tools", "text", "stop"},
         Respond(r, more)
  PROVE  Becomes(r, IF more = "tools" THEN "tools" ELSE "turnEnd",
                 op[r].hand, op[r].writing, op[r].outcome)
  <1> DEFINE l == IF more = "tools" THEN "tools" ELSE "turnEnd"
             o == [op[r] EXCEPT !.more = more, !.turns = op[r].turns + 1, !.pc = l]
  <1>1. l \in Location
    BY DEF Location
  <1>2. op' = [op EXCEPT ![r] = o]
    BY DEF Respond
  <1> HIDE DEF l
  <1>3. op[r].turns + 1 \in Nat
    BY OperationFields
  <1>4. /\ o \in Operation /\ o.pc = l /\ o.hand = op[r].hand
        /\ o.writing = op[r].writing /\ o.outcome = op[r].outcome
    BY ZenonT(60), <1>1, <1>3 DEF Operation
  <1> HIDE DEF o
  <1>5. Becomes(r, l, op[r].hand, op[r].writing, op[r].outcome)
    BY <1>2, <1>4, OperationChange
  <1> QED
    BY <1>5 DEF l

LEMMA WritingBecomes ==
  ASSUME op \in [Ops -> Operation], NEW r \in Ops, NEW w \in 0 .. MaxWrites,
         op' = [op EXCEPT ![r].writing = w]
  PROVE  Becomes(r, op[r].pc, op[r].hand, w, op[r].outcome)
  <1> DEFINE o == [op[r] EXCEPT !.writing = w]
  <1>1. /\ o \in Operation /\ o.pc = op[r].pc /\ o.hand = op[r].hand
        /\ o.writing = w /\ o.outcome = op[r].outcome
    BY DEF Operation
  <1>2. op' = [op EXCEPT ![r] = o]
    OBVIOUS
  <1> HIDE DEF o
  <1> QED
    BY <1>1, <1>2, OperationChange

LEMMA ThrowBecomes ==
  ASSUME op \in [Ops -> Operation], NEW r \in Ops, Throw(r)
  PROVE  Becomes(r, "failing", <<>>, 0, op[r].outcome)
  <1> DEFINE o == [op[r] EXCEPT !.pc = "failing", !.hand = <<>>, !.writing = 0]
  <1>1. /\ o \in Operation /\ o.pc = "failing" /\ o.hand = <<>>
        /\ o.writing = 0 /\ o.outcome = op[r].outcome
    BY Constants DEF Operation
  <1>2. op' = [op EXCEPT ![r] = o]
    BY DEF Throw
  <1> HIDE DEF o
  <1> QED
    BY <1>1, <1>2, OperationChange

LEMMA RejectBecomes ==
  ASSUME op \in [Ops -> Operation], NEW r \in Ops, NEW l \in Location,
         NEW outcome \in {"ok", "error", "early", "unflushed"},
         op' = [op EXCEPT ![r].pc = l, ![r].outcome = outcome, ![r].writing = 0]
  PROVE  Becomes(r, l, op[r].hand, 0, outcome)
  <1> DEFINE o == [op[r] EXCEPT !.pc = l, !.outcome = outcome, !.writing = 0]
  <1>1. /\ o \in Operation /\ o.pc = l /\ o.hand = op[r].hand
        /\ o.writing = 0 /\ o.outcome = outcome
    BY Constants DEF Operation
  <1>2. op' = [op EXCEPT ![r] = o]
    OBVIOUS
  <1> HIDE DEF o
  <1> QED
    BY <1>1, <1>2, OperationChange

(* abort() leaves of an operation everything but detached.                  *)
LEMMA AbortKeeps ==
  ASSUME op \in [Ops -> Operation], Abort
  PROVE  /\ op' \in [Ops -> Operation]
         /\ \A r \in Ops : /\ op'[r].pc = op[r].pc /\ op'[r].hand = op[r].hand
                           /\ op'[r].writing = op[r].writing
                           /\ op'[r].outcome = op[r].outcome
  <1>1. ASSUME NEW r \in Ops
        PROVE  /\ op'[r] \in Operation
               /\ op'[r].pc = op[r].pc /\ op'[r].hand = op[r].hand
               /\ op'[r].writing = op[r].writing /\ op'[r].outcome = op[r].outcome
    <2>1. op'[r] = op[r] \/ op'[r] = [op[r] EXCEPT !.detached = "yes"]
      BY DEF Abort
    <2> QED
      BY <2>1 DEF Operation
  <1>2. op' = [r \in Ops |-> op'[r]]
    BY DEF Abort
  <1> QED
    BY <1>1, <1>2

-----------------------------------------------------------------------------
(* Rest: the types of everything but the operations.                        *)
Rest ==
  /\ phase \in {"idle", "turn", "structural"}
  /\ runPromise \in 0 .. MaxOps /\ controller \in 0 .. MaxOps
  /\ aborted \subseteq Ops
  /\ pending \in Seq(1 .. MaxWrites)
  /\ queue \in [Queues -> Seq(1 .. MaxMsgs)]
  /\ direct \subseteq 1 .. MaxWrites /\ returned \subseteq 1 .. MaxMsgs
  /\ session \in Seq(Entry)
  /\ ops \in 0 .. MaxOps /\ writes \in 0 .. MaxWrites /\ msgs \in 0 .. MaxMsgs
  /\ aborts \in Nat /\ fails \in Nat

LEMMA TypeParts ==
  /\ TypeOK => op \in [Ops -> Operation] /\ Rest
  /\ op' \in [Ops -> Operation] /\ Rest' => TypeOK'
  BY DEF TypeOK, Rest, Operation, Entry

(* What is persisted is an entry.                                           *)
LEMMA PersistTyped ==
  ASSUME Rest, NEW kind \in {"write", "user", "prompt", "assistant", "result",
                             "failure", "structural"}, NEW n \in Nat,
         Persist(kind, n)
  PROVE  session' \in Seq(Entry)
  BY AppendFacts DEF Rest, Persist, Entry

LEMMA InitTyped == Init => TypeOK
  <1> SUFFICES ASSUME Init PROVE TypeOK
    OBVIOUS
  <1>1. op \in [Ops -> Operation]
    BY IdleTyped DEF Init
  <1>2. Rest
    BY Bounds DEF Init, Rest, Queues
  <1> QED
    BY <1>1, <1>2 DEF TypeOK, Rest, Operation, Entry

LEMMA StartTyped ==
  ASSUME TypeOK, Prompt \/ StartStructural
  PROVE  TypeOK'
  <1>1. op \in [Ops -> Operation] /\ Rest
    BY TypeParts
  <1>2. ops' \in Ops /\ "snapshot" \in Location /\ "working" \in Location
    <2>1. ops' \in Ops
      BY Bounds, <1>1 DEF Prompt, StartStructural, MayStart, Rest, Ops
    <2> QED
      BY <2>1 DEF Location
  <1>3. op' \in [Ops -> Operation]
    BY <1>1, <1>2, GoBecomes DEF Prompt, StartStructural, Becomes
  <1>4. Rest'
    <2>1. ops' \in 0 .. MaxOps /\ (runPromise' = ops' \/ runPromise' = runPromise)
      BY Bounds, <1>2 DEF Prompt, StartStructural, Ops
    <2>2. /\ phase' \in {"turn", "structural"}
          /\ UNCHANGED <<controller, aborted, pending, queue, direct, session,
                         writes, msgs, aborts, fails, returned>>
      BY DEF Prompt, StartStructural
    <2> QED
      BY <1>1, <2>1, <2>2 DEF Rest
  <1> QED
    BY <1>3, <1>4, TypeParts

LEMMA HostTyped ==
  ASSUME TypeOK, RequestWrite \/ Abort \/ (\E w \in direct : DirectWrite(w))
                 \/ \E q \in Queues : Enqueue(q)
  PROVE  TypeOK'
  <1>1. op \in [Ops -> Operation] /\ Rest
    BY TypeParts
  <1>2. CASE RequestWrite
    <2>1. writes' \in 1 .. MaxWrites
      BY Bounds, <1>1, <1>2 DEF RequestWrite, Rest
    <2>2. pending' \in Seq(1 .. MaxWrites) /\ direct' \subseteq 1 .. MaxWrites
      <3>1. CASE phase = "idle"
        BY <1>1, <1>2, <2>1, <3>1 DEF RequestWrite, Rest
      <3>2. CASE phase # "idle"
        <4>1. pending' = Append(pending, writes') /\ direct' = direct
          BY <1>2, <3>2 DEF RequestWrite
        <4> QED
          BY <1>1, <2>1, <4>1, AppendFacts DEF Rest
      <3> QED
        BY <3>1, <3>2
    <2>3. Rest'
      BY Bounds, <1>1, <1>2, <2>1, <2>2 DEF RequestWrite, Rest, guardVars
    <2> QED
      BY <1>1, <1>2, <2>3, TypeParts DEF RequestWrite
  <1>3. CASE Abort
    <2>1. queue' \in [Queues -> Seq(1 .. MaxMsgs)]
      BY <1>1, <1>3, Constants DEF Abort, Rest
    <2>2. returned' \subseteq 1 .. MaxMsgs
      BY <1>1, <1>3, ElementsIn DEF Abort, Rest, Queues
    <2>3. aborted' \subseteq Ops
      BY <1>1, <1>3 DEF Abort, Rest, Ops
    <2>4. Rest'
      BY <1>1, <1>3, <2>1, <2>2, <2>3 DEF Abort, Rest
    <2> QED
      BY <1>1, <1>3, <2>4, AbortKeeps, TypeParts
  <1>4. CASE \E w \in direct : DirectWrite(w)
    <2>1. PICK w \in direct : DirectWrite(w)
      BY <1>4
    <2>2. session' \in Seq(Entry)
      BY <1>1, <2>1, PersistTyped DEF DirectWrite, Rest
    <2>3. Rest'
      BY <1>1, <2>1, <2>2 DEF DirectWrite, Rest, guardVars, histVars
    <2> QED
      BY <1>1, <2>1, <2>3, TypeParts DEF DirectWrite
  <1>5. CASE \E q \in Queues : Enqueue(q)
    <2>1. PICK q \in Queues : Enqueue(q)
      BY <1>5
    <2>2. msgs' \in 1 .. MaxMsgs
      BY Bounds, <1>1, <2>1 DEF Enqueue, Rest
    <2>3. queue' \in [Queues -> Seq(1 .. MaxMsgs)]
      BY <1>1, <2>1, <2>2, AppendFacts DEF Enqueue, Rest
    <2>4. Rest'
      BY <1>1, <2>1, <2>2, <2>3 DEF Enqueue, Rest, guardVars
    <2> QED
      BY <1>1, <2>1, <2>4, TypeParts DEF Enqueue
  <1> QED
    BY <1>2, <1>3, <1>4, <1>5

(* The operation taken from is left with the messages in hand.              *)
LEMMA TakeTyped ==
  ASSUME TypeOK, NEW r \in Ops, NEW q \in Queues, NEW n, Take(r, q, n)
  PROVE  /\ TypeOK'
         /\ Becomes(r, "notify", SubSeq(queue[q], 1, n), op[r].writing, op[r].outcome)
  <1>0. op \in [Ops -> Operation] /\ Rest
    BY TypeParts
  <1>1. queue[q] \in Seq(1 .. MaxMsgs) /\ n \in 0 .. Len(queue[q])
    BY <1>0 DEF Rest, Take
  <1>2. /\ SubSeq(queue[q], 1, n) \in Seq(1 .. MaxMsgs)
        /\ SubSeq(queue[q], n + 1, Len(queue[q])) \in Seq(1 .. MaxMsgs)
    BY <1>1, SubSeqFacts
  <1>3. queue' \in [Queues -> Seq(1 .. MaxMsgs)]
    BY <1>0, <1>2 DEF Rest, Take
  <1>4. Becomes(r, "notify", SubSeq(queue[q], 1, n), op[r].writing, op[r].outcome)
    BY <1>0, <1>2, TakeBecomes DEF Take
  <1>5. Rest'
    BY <1>0, <1>3 DEF Rest, Take, guardVars, histVars
  <1> QED
    BY <1>4, <1>5, TypeParts DEF Becomes

-----------------------------------------------------------------------------
(* The steps of an operation, by what they leave of it.                     *)

(* It goes on from one of src to one of dst, and keeps the rest.            *)
Moves(r, src, dst) ==
  /\ op[r].pc \in src
  /\ \E l \in dst : Becomes(r, l, op[r].hand, op[r].writing, op[r].outcome)

LEMMA MovesIntro ==
  ASSUME op \in [Ops -> Operation], NEW r \in Ops, NEW src, NEW dst, op[r].pc \in src,
         NEW l \in dst, l \in Location, Go(r, l)
  PROVE  Moves(r, src, dst)
  BY GoBecomes DEF Moves

LEMMA Moving ==
  ASSUME op \in [Ops -> Operation], NEW r \in Ops
  PROVE
    /\ Snapshot(r) /\ queue["nextTurn"] = <<>> => Moves(r, {"snapshot"}, {"hook"})
    /\ Notified(r) => Moves(r, {"notify"}, {"hook", "inject"})
    /\ StartLoop(r) => Moves(r, {"hook"}, {"prompts"})
    /\ PersistPrompt(r) => Moves(r, {"prompts"}, {"drain"})
    /\ DrainSteering(r) /\ queue["steer"] = <<>>
         => Moves(r, {"drain"}, {"inject", "drainFollowUp"})
    /\ DrainFollowUp(r) /\ queue["followUp"] = <<>>
         => Moves(r, {"drainFollowUp"}, {"agentEnd"})
    /\ Request(r) => Moves(r, {"inject"}, {"stream"})
    /\ \A more \in {"tools", "text", "stop"} :
         Respond(r, more) => Moves(r, {"stream"}, {"tools", "turnEnd"})
    /\ \A more \in {"tools", "text"} :
         PersistResult(r, more) => Moves(r, {"tools"}, {"turnEnd"})
    /\ SavePoint(r) => Moves(r, {"turnEnd"}, {"agentEnd", "prepare"})
    /\ PrepareNextTurn(r) => Moves(r, {"prepare"}, {"drain"})
    /\ AgentEnd(r) => Moves(r, {"agentEnd", "failAgentEnd"}, {"settling", "failSettling"})
    /\ SettledOk(r) => Moves(r, {"settling", "failSettling"}, {"finally"})
    /\ Finally(r) => Moves(r, {"finally"}, {"over"})
    /\ RunFailure(r) => Moves(r, {"failing"}, {"failTurnEnd"})
    /\ FailTurnEnd(r) => Moves(r, {"failTurnEnd"}, {"failAgentEnd"})
    /\ EndStructural(r) => Moves(r, {"working"}, {"over"})
  <1> USE MovesIntro DEF Location
  <1>1. Snapshot(r) /\ queue["nextTurn"] = <<>> => Moves(r, {"snapshot"}, {"hook"})
    BY DEF Snapshot
  <1>2. Notified(r) => Moves(r, {"notify"}, {"hook", "inject"})
    BY DEF Notified
  <1>3. StartLoop(r) => Moves(r, {"hook"}, {"prompts"})
    BY DEF StartLoop
  <1>4. DrainSteering(r) /\ queue["steer"] = <<>>
        => Moves(r, {"drain"}, {"inject", "drainFollowUp"})
    BY DEF DrainSteering
  <1>5. DrainFollowUp(r) /\ queue["followUp"] = <<>>
        => Moves(r, {"drainFollowUp"}, {"agentEnd"})
    BY DEF DrainFollowUp
  <1>6. SavePoint(r) => Moves(r, {"turnEnd"}, {"agentEnd", "prepare"})
    BY DEF SavePoint
  <1>7. PrepareNextTurn(r) => Moves(r, {"prepare"}, {"drain"})
    BY DEF PrepareNextTurn
  <1>8. AgentEnd(r) => Moves(r, {"agentEnd", "failAgentEnd"}, {"settling", "failSettling"})
    BY DEF AgentEnd
  <1>9. SettledOk(r) => Moves(r, {"settling", "failSettling"}, {"finally"})
    BY DEF SettledOk
  <1>10. Finally(r) => Moves(r, {"finally"}, {"over"})
    BY DEF Finally
  <1>11. RunFailure(r) => Moves(r, {"failing"}, {"failTurnEnd"})
    BY DEF RunFailure
  <1>12. FailTurnEnd(r) => Moves(r, {"failTurnEnd"}, {"failAgentEnd"})
    BY DEF FailTurnEnd
  <1>13. EndStructural(r) => Moves(r, {"working"}, {"over"})
    BY DEF EndStructural
  <1>14. PersistPrompt(r) => Moves(r, {"prompts"}, {"drain"})
    BY GoMoreBecomes DEF PersistPrompt, Moves
  <1>15. Request(r) => Moves(r, {"inject"}, {"stream"})
    BY GoMoreBecomes DEF Request, Moves
  <1>16. ASSUME NEW more \in {"tools", "text"}, PersistResult(r, more)
        PROVE  Moves(r, {"tools"}, {"turnEnd"})
    BY <1>16, GoMoreBecomes DEF PersistResult, Moves
  <1>17. ASSUME NEW more \in {"tools", "text", "stop"}, Respond(r, more)
        PROVE  Moves(r, {"stream"}, {"tools", "turnEnd"})
    BY <1>17, RespondBecomes DEF Respond, Moves
  <1> QED
    BY <1>1, <1>2, <1>3, <1>4, <1>5, <1>6, <1>7, <1>8, <1>9, <1>10, <1>11,
       <1>12, <1>13, <1>14, <1>15, <1>16, <1>17

(* Its other steps: with a message, with a write, and the failures.         *)
LEMMA Handling ==
  ASSUME op \in [Ops -> Operation], Rest, NEW r \in Ops
  PROVE
    /\ PersistMessage(r)
         => Becomes(r, op[r].pc, Tail(op[r].hand), op[r].writing, op[r].outcome)
    /\ FlushFirst(r)
         => Becomes(r, op[r].pc, op[r].hand, Head(pending), op[r].outcome)
    /\ FlushNext(r) => Becomes(r, op[r].pc, op[r].hand, 0, op[r].outcome)
  <1>1. PersistMessage(r)
          => Becomes(r, op[r].pc, Tail(op[r].hand), op[r].writing, op[r].outcome)
    BY PersistBecomes DEF PersistMessage
  <1>2. ASSUME FlushFirst(r)
        PROVE  Becomes(r, op[r].pc, op[r].hand, Head(pending), op[r].outcome)
    <2>1. Head(pending) \in 0 .. MaxWrites
      BY SMTT(30), <1>2, Bounds, TailFacts DEF FlushFirst, Rest
    <2> QED
      BY <1>2, <2>1, WritingBecomes DEF FlushFirst
  <1>3. FlushNext(r) => Becomes(r, op[r].pc, op[r].hand, 0, op[r].outcome)
    BY WritingBecomes, Constants DEF FlushNext
  <1> QED
    BY <1>1, <1>2, <1>3

LEMMA Failing ==
  ASSUME op \in [Ops -> Operation], NEW r \in Ops
  PROVE
    /\ StartFails(r) => Becomes(r, "over", <<>>, op[r].writing, "early")
    /\ NotifyFails(r) /\ op[r].from = "nextTurn"
         => Becomes(r, "over", <<>>, op[r].writing, "early")
    /\ NotifyFails(r) /\ op[r].from # "nextTurn"
         => Becomes(r, "failing", <<>>, op[r].writing, op[r].outcome)
    /\ Throw(r) => Becomes(r, "failing", <<>>, 0, op[r].outcome)
    /\ FailureThrows(r) => Becomes(r, "finally", op[r].hand, 0, "error")
    /\ FinallyThrows(r) => Becomes(r, "over", op[r].hand, 0, "unflushed")
  <1>1. StartFails(r) => Becomes(r, "over", <<>>, op[r].writing, "early")
    BY EarlyBecomes DEF StartFails
  <1>2. NotifyFails(r) /\ op[r].from = "nextTurn"
          => Becomes(r, "over", <<>>, op[r].writing, "early")
    BY EarlyBecomes DEF NotifyFails
  <1>3. NotifyFails(r) /\ op[r].from # "nextTurn"
          => Becomes(r, "failing", <<>>, op[r].writing, op[r].outcome)
    BY DropBecomes DEF NotifyFails
  <1>4. Throw(r) => Becomes(r, "failing", <<>>, 0, op[r].outcome)
    BY ThrowBecomes
  <1>5. "finally" \in Location /\ "over" \in Location
    BY DEF Location
  <1>6. FailureThrows(r) => Becomes(r, "finally", op[r].hand, 0, "error")
    BY <1>5, RejectBecomes DEF FailureThrows
  <1>7. FinallyThrows(r) => Becomes(r, "over", op[r].hand, 0, "unflushed")
    BY <1>5, RejectBecomes DEF FinallyThrows
  <1> QED
    BY <1>1, <1>2, <1>3, <1>4, <1>6, <1>7

LEMMA StepTyped ==
  ASSUME TypeOK, NEW r \in Ops, Step(r)
  PROVE  TypeOK'
  <1>0. op \in [Ops -> Operation] /\ Rest /\ r \in Nat /\ r \in 0 .. MaxOps
    BY TypeParts, Bounds DEF Ops
  <1> USE <1>0, TypeParts, Moving, Handling DEF Moves, Becomes
  <1>1. CASE Snapshot(r)
    <2>1. CASE queue["nextTurn"] = <<>>
      <3>1. Rest'
        BY <1>1, <2>1 DEF Snapshot, Rest, guardVars, histVars
      <3> QED
        BY <1>1, <2>1, <3>1
    <2>2. CASE queue["nextTurn"] # <<>>
      BY <1>1, <2>2, TakeTyped DEF Snapshot, Queues
    <2> QED
      BY <2>1, <2>2
  <1>2. CASE Notified(r)
    <2>1. Rest'
      BY <1>2, Bounds DEF Notified, Rest, guardVars, histVars
    <2> QED
      BY <1>2, <2>1
  <1>3. CASE StartLoop(r)
    <2>1. Rest'
      BY <1>3, Bounds DEF StartLoop, Rest, guardVars, histVars
    <2> QED
      BY <1>3, <2>1
  <1>4. CASE PersistMessage(r)
    <2>0. Head(op[r].hand) \in Nat
      <3>1. op[r].hand \in Seq(1 .. MaxMsgs) /\ op[r].hand # <<>>
        BY <1>4, OperationFields DEF PersistMessage
      <3>2. Head(op[r].hand) \in 1 .. MaxMsgs
        BY <3>1, TailFacts
      <3> QED
        BY <3>2, Bounds
    <2>1. session' \in Seq(Entry)
      BY <1>4, <2>0, PersistTyped DEF PersistMessage
    <2>2. Rest'
      BY <1>4, <2>0, <2>1 DEF PersistMessage, Rest, guardVars, histVars
    <2> QED
      BY <1>4, <2>2
  <1>5. CASE PersistPrompt(r)
    <2>1. session' \in Seq(Entry)
      BY <1>5, PersistTyped DEF PersistPrompt
    <2>2. Rest'
      BY <1>5, <2>1 DEF PersistPrompt, Rest, guardVars, histVars
    <2> QED
      BY <1>5, <2>2
  <1>6. CASE DrainSteering(r)
    <2>1. CASE queue["steer"] = <<>>
      <3>1. Rest'
        BY <1>6, <2>1 DEF DrainSteering, Rest, guardVars, histVars
      <3> QED
        BY <1>6, <2>1, <3>1
    <2>2. CASE queue["steer"] # <<>>
      BY <1>6, <2>2, TakeTyped DEF DrainSteering, Queues
    <2> QED
      BY <2>1, <2>2
  <1>7. CASE DrainFollowUp(r)
    <2>1. CASE queue["followUp"] = <<>>
      <3>1. Rest'
        BY <1>7, <2>1 DEF DrainFollowUp, Rest, guardVars, histVars
      <3> QED
        BY <1>7, <2>1, <3>1
    <2>2. CASE queue["followUp"] # <<>>
      BY <1>7, <2>2, TakeTyped DEF DrainFollowUp, Queues
    <2> QED
      BY <2>1, <2>2
  <1>8. CASE Request(r)
    <2>1. Rest'
      BY <1>8, Bounds DEF Request, Rest, guardVars, histVars
    <2> QED
      BY <1>8, <2>1
  <1>9. ASSUME NEW more \in {"tools", "text", "stop"}, Respond(r, more) PROVE TypeOK'
    <2>1. session' \in Seq(Entry)
      BY <1>9, PersistTyped DEF Respond
    <2>2. Rest'
      BY <1>9, <2>1 DEF Respond, Rest, guardVars, histVars
    <2> QED
      BY <1>9, <2>2
  <1>10. ASSUME NEW more \in {"tools", "text"}, PersistResult(r, more) PROVE TypeOK'
    <2>1. session' \in Seq(Entry)
      BY <1>10, PersistTyped DEF PersistResult
    <2>2. Rest'
      BY <1>10, <2>1 DEF PersistResult, Rest, guardVars, histVars
    <2> QED
      BY <1>10, <2>2
  <1>11. CASE FlushFirst(r)
    <2>1. Rest'
      BY <1>11, Bounds DEF FlushFirst, Rest, guardVars, histVars
    <2> QED
      BY <1>11, <2>1
  <1>12. CASE FlushNext(r)
    <2>0. op[r].writing \in Nat /\ pending' \in Seq(1 .. MaxWrites)
      <3>1. op[r].writing \in 0 .. MaxWrites
        BY OperationFields
      <3>2. pending' = pending \/ (pending # <<>> /\ pending' = Tail(pending))
        BY <1>12 DEF FlushNext
      <3>3. pending' \in Seq(1 .. MaxWrites)
        <4>1. pending \in Seq(1 .. MaxWrites)
          BY DEF Rest
        <4> QED
          BY ONLY <3>2, <4>1, TailFacts
      <3> QED
        BY <3>1, <3>3, Bounds
    <2>1. session' \in Seq(Entry)
      BY <1>12, <2>0, PersistTyped DEF FlushNext
    <2>2. Rest'
      BY <1>12, <2>0, <2>1 DEF FlushNext, Rest, guardVars, histVars
    <2> QED
      BY <1>12, <2>2
  <1>13. CASE SavePoint(r)
    <2>1. Rest'
      BY <1>13, Bounds DEF SavePoint, Rest, guardVars, histVars
    <2> QED
      BY <1>13, <2>1
  <1>14. CASE PrepareNextTurn(r)
    <2>1. Rest'
      BY <1>14, Bounds DEF PrepareNextTurn, Rest, guardVars, histVars
    <2> QED
      BY <1>14, <2>1
  <1>15. CASE AgentEnd(r)
    <2>1. Rest'
      BY <1>15, Bounds DEF AgentEnd, Rest, guardVars, histVars
    <2> QED
      BY <1>15, <2>1
  <1>16. CASE SettledOk(r)
    <2>1. Rest'
      BY <1>16, Bounds DEF SettledOk, Rest, guardVars, histVars
    <2> QED
      BY <1>16, <2>1
  <1>17. CASE Finally(r)
    <2>1. Rest'
      BY <1>17, Bounds DEF Finally, Rest, guardVars, histVars
    <2> QED
      BY <1>17, <2>1
  <1>18. CASE RunFailure(r)
    <2>1. session' \in Seq(Entry)
      BY <1>18, PersistTyped DEF RunFailure
    <2>2. Rest'
      BY <1>18, <2>1 DEF RunFailure, Rest, guardVars, histVars
    <2> QED
      BY <1>18, <2>2
  <1>19. CASE FailTurnEnd(r)
    <2>1. Rest'
      BY <1>19, Bounds DEF FailTurnEnd, Rest, guardVars, histVars
    <2> QED
      BY <1>19, <2>1
  <1>20. CASE EndStructural(r)
    <2>1. Append(session, <<"structural", r>>) \in Seq(Entry)
      BY AppendFacts DEF Rest, Entry
    <2>2. Rest'
      BY <1>20, <2>1 DEF EndStructural, Rest, guardVars, histVars
    <2> QED
      BY <1>20, <2>2
  <1> QED
    BY <1>1, <1>2, <1>3, <1>4, <1>5, <1>6, <1>7, <1>8, <1>9, <1>10, <1>11,
       <1>12, <1>13, <1>14, <1>15, <1>16, <1>17, <1>18, <1>19, <1>20 DEF Step

LEMMA FailureTyped ==
  ASSUME TypeOK, NEW r \in Ops, Failure(r)
  PROVE  TypeOK'
  <1>0. op \in [Ops -> Operation] /\ Rest
    BY TypeParts
  <1> USE <1>0, TypeParts, Failing DEF Becomes
  <1>1. CASE StartFails(r) \/ Throw(r) \/ FailureThrows(r) \/ FinallyThrows(r)
    <2>1. /\ fails' = fails + 1
          /\ UNCHANGED <<pending, queue, direct, session, ops, writes, msgs, aborts, returned>>
      BY <1>1 DEF StartFails, Throw, FailureThrows, FinallyThrows, Fail
    <2>2. UNCHANGED aborted /\ phase' \in {phase, "idle"} /\ runPromise' \in {runPromise, 0}
          /\ controller' \in {controller, 0}
      BY <1>1 DEF StartFails, EndEarly, Throw, FailureThrows, FinallyThrows, guardVars
    <2>3. Rest'
      <3>1. fails' \in Nat
        BY <2>1 DEF Rest
      <3> QED
        BY <2>1, <2>2, <3>1, Bounds DEF Rest
    <2> QED
      BY <1>1, <2>3
  <1>2. CASE NotifyFails(r)
    <2>1. queue' \in [Queues -> Seq(1 .. MaxMsgs)]
      <3>1. op[r].hand \in Seq(1 .. MaxMsgs)
        BY OperationFields
      <3>2. \A q \in Queues : op[r].hand \o queue[q] \in Seq(1 .. MaxMsgs)
        BY <3>1 DEF Rest
      <3> QED
        BY <1>2, <3>2, OperationFields DEF NotifyFails, Rest
    <2>2. fails' \in Nat /\ UNCHANGED <<pending, direct, session, ops, writes, msgs,
                                       aborts, returned>>
      BY <1>2 DEF NotifyFails, Fail, Rest
    <2>3. UNCHANGED <<controller, aborted>> /\ phase' \in {phase, "idle"}
          /\ runPromise' \in {runPromise, 0}
      BY <1>2 DEF NotifyFails, EndEarly, guardVars
    <2>4. Rest'
      BY <2>1, <2>2, <2>3, Bounds DEF Rest
    <2> QED
      BY <1>2, <2>4
  <1> QED
    BY <1>1, <1>2 DEF Failure

LEMMA StutterTyped == TypeOK /\ UNCHANGED vars => TypeOK'
  BY DEF TypeOK, vars, guardVars, histVars

(* The state of the harness keeps its types.                                *)
THEOREM TypeCorrect == Spec => []TypeOK
  <1>1. Init => TypeOK
    BY InitTyped
  <1>2. TypeOK /\ [Next]_vars => TypeOK'
    <2> SUFFICES ASSUME TypeOK, [Next]_vars PROVE TypeOK'
      OBVIOUS
    <2>1. CASE Prompt \/ StartStructural
      BY <2>1, StartTyped
    <2>2. CASE RequestWrite \/ Abort \/ (\E w \in direct : DirectWrite(w))
               \/ \E q \in Queues : Enqueue(q)
      BY <2>2, HostTyped
    <2>3. CASE \E r \in Ops : Step(r) \/ Failure(r)
      BY <2>3, StepTyped, FailureTyped
    <2>4. CASE UNCHANGED vars
      BY <2>4, StutterTyped
    <2> QED
      BY <2>1, <2>2, <2>3, <2>4 DEF Next
  <1> QED
    BY <1>1, <1>2, PTL DEF Spec

-----------------------------------------------------------------------------
(* One operation at a time.                                                 *)

(* Operations are started in order.                                         *)
Fresh == \A r \in Ops : r > ops => op[r] = Idle

(* As long as nothing failed, the operation that changes the session holds  *)
(* the phase, and the outcomes of those under way are not yet spoilt.       *)
Guarded ==
  fails = 0 => /\ \A r \in Ops : Changing(r) => phase # "idle"
               /\ \A r, s \in Ops : Changing(r) /\ Changing(s) => r = s
               /\ \A r \in Ops : Active(r) => op[r].outcome = "ok"

OneInv == TypeOK /\ Fresh /\ Guarded

Busy(pc) == pc \notin {"none", "over", "settling", "failSettling", "finally"}

LEMMA Started ==
  ASSUME OneInv, NEW r \in Ops, op[r].pc # "none" \/ op[r].writing # 0
  PROVE  r <= ops
  <1>1. r \in Nat /\ ops \in Nat
    BY TypeParts, Bounds DEF OneInv, Rest, Ops
  <1> QED
    BY <1>1 DEF OneInv, Fresh, Idle

LEMMA FreshStep ==
  ASSUME OneInv, NEW r \in Ops, op[r].pc # "none" \/ op[r].writing # 0, ops' = ops,
         NEW pc, NEW hand, NEW writing, NEW outcome,
         Becomes(r, pc, hand, writing, outcome)
  PROVE  Fresh'
  <1>1. r <= ops /\ r \in Nat /\ ops \in Nat
    BY Started, TypeParts, Bounds DEF OneInv, Rest, Ops
  <1>2. SUFFICES ASSUME NEW s \in Ops, s > ops PROVE op'[s] = Idle
    BY DEF Fresh
  <1>3. s # r
    BY <1>1, <1>2
  <1> QED
    BY <1>2, <1>3 DEF OneInv, Fresh, Becomes

(* A step of an operation that does not fail: it may let go of the phase as *)
(* it stops changing the session.                                           *)
LEMMA OneStep ==
  ASSUME OneInv, NEW r \in Ops, op[r].pc # "none" \/ op[r].writing # 0,
         ops' = ops, fails' = fails,
         NEW pc, NEW hand, NEW writing, Becomes(r, pc, hand, writing, op[r].outcome),
         pc \notin {"none", "over"} => op[r].pc \notin {"none", "over"},
         Busy(pc) => Busy(op[r].pc),
         fails = 0 => phase' = phase \/ (Busy(op[r].pc) /\ ~Busy(pc))
  PROVE  Fresh' /\ Guarded'
  <1>1. Fresh'
    BY FreshStep
  <1>2. ASSUME fails = 0, NEW s \in Ops, Changing(s)' PROVE Changing(s) /\ phase' # "idle"
    <2>1. CASE s = r
      BY <1>2, <2>1 DEF OneInv, Guarded, Changing, Active, Busy, Becomes
    <2>2. CASE s # r
      BY <1>2, <2>2 DEF OneInv, Guarded, Changing, Active, Busy, Becomes
    <2> QED
      BY <2>1, <2>2
  <1>3. ASSUME fails = 0, NEW s \in Ops, Active(s)' PROVE op'[s].outcome = "ok"
    BY <1>3 DEF OneInv, Guarded, Active, Becomes
  <1>4. Guarded'
    BY <1>2, <1>3 DEF OneInv, Guarded
  <1> QED
    BY <1>1, <1>4

(* A step of an operation that fails.                                       *)
LEMMA OneFailure ==
  ASSUME OneInv, NEW r \in Ops, Failure(r)
  PROVE  Fresh' /\ Guarded'
  <1>0. op \in [Ops -> Operation] /\ Rest
    BY TypeParts DEF OneInv
  <1>1. /\ op[r].pc # "none" /\ ops' = ops /\ fails' = fails + 1
        /\ \E pc, hand, writing, outcome : Becomes(r, pc, hand, writing, outcome)
    <2>1. CASE StartFails(r)
      BY <1>0, <2>1, Failing DEF StartFails, Fail
    <2>2. CASE NotifyFails(r)
      BY <1>0, <2>2, Failing DEF NotifyFails, Fail
    <2>3. CASE Throw(r)
      BY <1>0, <2>3, Failing DEF Throw, Fail, MayThrow
    <2>4. CASE FailureThrows(r)
      BY <1>0, <2>4, Failing DEF FailureThrows, Fail
    <2>5. CASE FinallyThrows(r)
      BY <1>0, <2>5, Failing DEF FinallyThrows, Fail
    <2> QED
      BY <2>1, <2>2, <2>3, <2>4, <2>5 DEF Failure
  <1>2. Fresh'
    BY <1>1, FreshStep
  <1>3. fails' # 0
    BY <1>0, <1>1 DEF Rest
  <1> QED
    BY <1>2, <1>3 DEF Guarded

(* A step that moves on, within the part of an operation that changes the   *)
(* session or out of it.                                                    *)
LEMMA OneMove ==
  ASSUME OneInv, NEW r \in Ops, ops' = ops, fails' = fails,
         NEW src, NEW dst, Moves(r, src, dst),
         \A pc \in src : pc \notin {"none", "over"},
         \A pc \in src, l \in dst : Busy(l) => Busy(pc),
         fails = 0 => phase' = phase \/ \A pc \in src, l \in dst : Busy(pc) /\ ~Busy(l)
  PROVE  Fresh' /\ Guarded'
  <1>1. PICK l \in dst : Becomes(r, l, op[r].hand, op[r].writing, op[r].outcome)
    BY DEF Moves
  <1>2. op[r].pc \in src
    BY DEF Moves
  <1> QED
    BY <1>1, <1>2, OneStep

LEMMA OneStart ==
  ASSUME OneInv, Prompt \/ StartStructural
  PROVE  Fresh' /\ Guarded'
  <1>0. op \in [Ops -> Operation] /\ Rest
    BY TypeParts DEF OneInv
  <1>1. /\ ops' \in Ops /\ ops' = ops + 1 /\ phase = "idle" /\ phase' # "idle"
        /\ fails' = fails
    BY <1>0, Bounds DEF Prompt, StartStructural, MayStart, Rest, Ops
  <1>2. PICK l \in {"snapshot", "working"} :
          Becomes(ops', l, op[ops'].hand, op[ops'].writing, op[ops'].outcome)
    <2>1. "snapshot" \in Location /\ "working" \in Location
      BY DEF Location
    <2> QED
      BY <1>0, <1>1, <2>1, GoBecomes DEF Prompt, StartStructural
  <1>3. op[ops'].outcome = "ok"
    BY <1>0, <1>1 DEF OneInv, Fresh, Idle, Rest
  <1>4. Fresh'
    BY <1>0, <1>1, <1>2 DEF OneInv, Fresh, Becomes, Rest, Ops
  <1>5. Guarded'
    <2>1. SUFFICES ASSUME fails = 0 PROVE Guarded'
      BY <1>1 DEF Guarded
    <2>2. \A s \in Ops : Changing(s)' => s = ops'
      BY <1>1, <1>2, <2>1 DEF OneInv, Guarded, Changing, Active, Becomes
    <2>3. \A s \in Ops : Active(s)' => op'[s].outcome = "ok"
      BY <1>1, <1>2, <1>3, <2>1 DEF OneInv, Guarded, Active, Becomes
    <2> QED
      BY <1>1, <2>2, <2>3 DEF Guarded
  <1> QED
    BY <1>4, <1>5

(* Steps of the host leave the operations where they are.                   *)
LEMMA OneHost ==
  ASSUME OneInv,
         RequestWrite \/ Abort \/ (\E w \in direct : DirectWrite(w))
           \/ \E q \in Queues : Enqueue(q)
  PROVE  Fresh' /\ Guarded'
  <1>0. op \in [Ops -> Operation]
    BY TypeParts DEF OneInv
  <1>1. phase' = phase /\ ops' = ops /\ fails' = fails
    BY DEF RequestWrite, Abort, DirectWrite, Enqueue, guardVars, histVars
  <1>2. \A r \in Ops : op'[r].pc = op[r].pc /\ op'[r].outcome = op[r].outcome
    BY <1>0, AbortKeeps DEF RequestWrite, DirectWrite, Enqueue
  <1>3. \A r \in Ops : op[r] = Idle => op'[r] = Idle
    BY DEF RequestWrite, Abort, DirectWrite, Enqueue, Idle
  <1>4. Fresh'
    BY <1>1, <1>3 DEF OneInv, Fresh
  <1>5. Guarded'
    BY <1>1, <1>2 DEF OneInv, Guarded, Changing, Active
  <1> QED
    BY <1>4, <1>5

LEMMA OneProgress ==
  ASSUME OneInv, NEW r \in Ops, Step(r)
  PROVE  Fresh' /\ Guarded'
  <1>0. op \in [Ops -> Operation] /\ Rest
    BY TypeParts DEF OneInv
  <1>t. ASSUME NEW q \in Queues, NEW n, Take(r, q, n), op[r].pc # "none", Busy(op[r].pc)
        PROVE  Fresh' /\ Guarded'
    <2>1. Becomes(r, "notify", SubSeq(queue[q], 1, n), op[r].writing, op[r].outcome)
      BY <1>t, TakeTyped DEF OneInv
    <2>2. phase' = phase /\ ops' = ops /\ fails' = fails
      BY <1>t DEF Take, guardVars, histVars
    <2> QED
      BY <1>t, <2>1, <2>2, OneStep DEF Busy
  <1>1. CASE Snapshot(r)
    <2>1. CASE queue["nextTurn"] = <<>>
      <3>1. ops' = ops /\ fails' = fails /\ phase' = phase
        BY <1>1, <2>1 DEF Snapshot, guardVars, histVars
      <3>2. Moves(r, {"snapshot"}, {"hook"})
        BY <1>0, <1>1, <2>1, Moving
      <3> QED
        BY <3>1, <3>2, OneMove DEF Busy
    <2>2. CASE queue["nextTurn"] # <<>>
      BY <1>1, <1>t, <2>2 DEF Snapshot, Queues, Busy
    <2> QED
      BY <2>1, <2>2
  <1>2. CASE Notified(r)
    <2>1. ops' = ops /\ fails' = fails /\ phase' = phase
      BY <1>2 DEF Notified, guardVars, histVars
    <2>2. Moves(r, {"notify"}, {"hook", "inject"})
      BY <1>0, <1>2, Moving
    <2> QED
      BY <2>1, <2>2, OneMove DEF Busy
  <1>3. CASE StartLoop(r)
    <2>1. ops' = ops /\ fails' = fails /\ phase' = phase
      BY <1>3 DEF StartLoop, guardVars, histVars
    <2>2. Moves(r, {"hook"}, {"prompts"})
      BY <1>0, <1>3, Moving
    <2> QED
      BY <2>1, <2>2, OneMove DEF Busy
  <1>4. CASE PersistMessage(r)
    <2>1. ops' = ops /\ fails' = fails /\ phase' = phase
      BY <1>4 DEF PersistMessage, guardVars, histVars
    <2>2. op[r].pc # "none" \/ op[r].writing # 0
      BY <1>4 DEF PersistMessage, Flushing
    <2> QED
      BY <1>0, <1>4, <2>1, <2>2, Handling, OneStep
  <1>5. CASE PersistPrompt(r)
    <2>1. ops' = ops /\ fails' = fails /\ phase' = phase
      BY <1>5 DEF PersistPrompt, guardVars, histVars
    <2>2. Moves(r, {"prompts"}, {"drain"})
      BY <1>0, <1>5, Moving
    <2> QED
      BY <2>1, <2>2, OneMove DEF Busy
  <1>6. CASE DrainSteering(r)
    <2>1. CASE queue["steer"] = <<>>
      <3>1. ops' = ops /\ fails' = fails /\ phase' = phase
        BY <1>6, <2>1 DEF DrainSteering, guardVars, histVars
      <3>2. Moves(r, {"drain"}, {"inject", "drainFollowUp"})
        BY <1>0, <1>6, <2>1, Moving
      <3> QED
        BY <3>1, <3>2, OneMove DEF Busy
    <2>2. CASE queue["steer"] # <<>>
      BY <1>6, <1>t, <2>2 DEF DrainSteering, Queues, Busy
    <2> QED
      BY <2>1, <2>2
  <1>7. CASE DrainFollowUp(r)
    <2>1. CASE queue["followUp"] = <<>>
      <3>1. ops' = ops /\ fails' = fails /\ phase' = phase
        BY <1>7, <2>1 DEF DrainFollowUp, guardVars, histVars
      <3>2. Moves(r, {"drainFollowUp"}, {"agentEnd"})
        BY <1>0, <1>7, <2>1, Moving
      <3> QED
        BY <3>1, <3>2, OneMove DEF Busy
    <2>2. CASE queue["followUp"] # <<>>
      BY <1>7, <1>t, <2>2 DEF DrainFollowUp, Queues, Busy
    <2> QED
      BY <2>1, <2>2
  <1>8. CASE Request(r)
    <2>1. ops' = ops /\ fails' = fails /\ phase' = phase
      BY <1>8 DEF Request, guardVars, histVars
    <2>2. Moves(r, {"inject"}, {"stream"})
      BY <1>0, <1>8, Moving
    <2> QED
      BY <2>1, <2>2, OneMove DEF Busy
  <1>9. ASSUME NEW more \in {"tools", "text", "stop"}, Respond(r, more) PROVE Fresh' /\ Guarded'
    <2>1. ops' = ops /\ fails' = fails /\ phase' = phase
      BY <1>9 DEF Respond, guardVars, histVars
    <2>2. Moves(r, {"stream"}, {"tools", "turnEnd"})
      BY <1>0, <1>9, Moving
    <2> QED
      BY <2>1, <2>2, OneMove DEF Busy
  <1>10. ASSUME NEW more \in {"tools", "text"}, PersistResult(r, more) PROVE Fresh' /\ Guarded'
    <2>1. ops' = ops /\ fails' = fails /\ phase' = phase
      BY <1>10 DEF PersistResult, guardVars, histVars
    <2>2. Moves(r, {"tools"}, {"turnEnd"})
      BY <1>0, <1>10, Moving
    <2> QED
      BY <2>1, <2>2, OneMove DEF Busy
  <1>11. CASE FlushFirst(r)
    <2>1. ops' = ops /\ fails' = fails /\ phase' = phase
      BY <1>11 DEF FlushFirst, guardVars, histVars
    <2>2. op[r].pc # "none" \/ op[r].writing # 0
      BY <1>11 DEF FlushFirst, Flushing
    <2> QED
      BY <1>0, <1>11, <2>1, <2>2, Handling, OneStep
  <1>12. CASE FlushNext(r)
    <2>1. ops' = ops /\ fails' = fails /\ phase' = phase
      BY <1>12 DEF FlushNext, guardVars, histVars
    <2>2. op[r].pc # "none" \/ op[r].writing # 0
      BY <1>12 DEF FlushNext, Flushing
    <2> QED
      BY <1>0, <1>12, <2>1, <2>2, Handling, OneStep
  <1>13. CASE SavePoint(r)
    <2>1. ops' = ops /\ fails' = fails /\ phase' = phase
      BY <1>13 DEF SavePoint, guardVars, histVars
    <2>2. Moves(r, {"turnEnd"}, {"agentEnd", "prepare"})
      BY <1>0, <1>13, Moving
    <2> QED
      BY <2>1, <2>2, OneMove DEF Busy
  <1>14. CASE PrepareNextTurn(r)
    <2>1. ops' = ops /\ fails' = fails /\ phase' = phase
      BY <1>14 DEF PrepareNextTurn, guardVars, histVars
    <2>2. Moves(r, {"prepare"}, {"drain"})
      BY <1>0, <1>14, Moving
    <2> QED
      BY <2>1, <2>2, OneMove DEF Busy
  <1>15. CASE AgentEnd(r)
    <2>1. ops' = ops /\ fails' = fails
      BY <1>15 DEF AgentEnd, guardVars, histVars
    <2>2. Moves(r, {"agentEnd", "failAgentEnd"}, {"settling", "failSettling"})
      BY <1>0, <1>15, Moving
    <2> QED
      BY <2>1, <2>2, OneMove DEF Busy
  <1>16. CASE SettledOk(r)
    <2>1. ops' = ops /\ fails' = fails /\ phase' = phase
      BY <1>16 DEF SettledOk, guardVars, histVars
    <2>2. Moves(r, {"settling", "failSettling"}, {"finally"})
      BY <1>0, <1>16, Moving
    <2> QED
      BY <2>1, <2>2, OneMove DEF Busy
  <1>17. CASE Finally(r)
    <2>1. ops' = ops /\ fails' = fails
      BY <1>17 DEF Finally, histVars
    <2>2. fails = 0 => phase' = phase
      BY <1>17 DEF Finally, OneInv, Guarded, Active
    <2>3. Becomes(r, "over", op[r].hand, op[r].writing, op[r].outcome) /\ op[r].pc = "finally"
      BY <1>0, <1>17, Moving DEF Moves
    <2> QED
      BY <2>1, <2>2, <2>3, OneStep DEF Busy
  <1>18. CASE RunFailure(r)
    <2>1. ops' = ops /\ fails' = fails /\ phase' = phase
      BY <1>18 DEF RunFailure, guardVars, histVars
    <2>2. Moves(r, {"failing"}, {"failTurnEnd"})
      BY <1>0, <1>18, Moving
    <2> QED
      BY <2>1, <2>2, OneMove DEF Busy
  <1>19. CASE FailTurnEnd(r)
    <2>1. ops' = ops /\ fails' = fails /\ phase' = phase
      BY <1>19 DEF FailTurnEnd, guardVars, histVars
    <2>2. Moves(r, {"failTurnEnd"}, {"failAgentEnd"})
      BY <1>0, <1>19, Moving
    <2> QED
      BY <2>1, <2>2, OneMove DEF Busy
  <1>20. CASE EndStructural(r)
    <2>1. ops' = ops /\ fails' = fails
      BY <1>20 DEF EndStructural, guardVars, histVars
    <2>2. Moves(r, {"working"}, {"over"})
      BY <1>0, <1>20, Moving
    <2> QED
      BY <2>1, <2>2, OneMove DEF Busy
  <1> QED
    BY <1>1, <1>2, <1>3, <1>4, <1>5, <1>6, <1>7, <1>8, <1>9, <1>10, <1>11,
       <1>12, <1>13, <1>14, <1>15, <1>16, <1>17, <1>18, <1>19, <1>20 DEF Step

LEMMA OneAlways == Spec => []OneInv
  <1>1. Init => OneInv
    BY InitTyped DEF OneInv, Init, Fresh, Guarded, Changing, Active, Idle
  <1>2. OneInv /\ [Next]_vars => Fresh' /\ Guarded'
    <2> SUFFICES ASSUME OneInv, [Next]_vars PROVE Fresh' /\ Guarded'
      OBVIOUS
    <2>1. CASE Prompt \/ StartStructural
      BY <2>1, OneStart
    <2>2. CASE RequestWrite \/ Abort \/ (\E w \in direct : DirectWrite(w))
               \/ \E q \in Queues : Enqueue(q)
      BY <2>2, OneHost
    <2>3. CASE \E r \in Ops : Step(r) \/ Failure(r)
      BY <2>3, OneProgress, OneFailure
    <2>4. CASE UNCHANGED vars
      BY <2>4 DEF OneInv, Fresh, Guarded, Changing, Active, vars, guardVars, histVars
    <2> QED
      BY <2>1, <2>2, <2>3, <2>4 DEF Next
  <1>3. OneInv /\ TypeOK' /\ [Next]_vars => OneInv'
    BY <1>2 DEF OneInv
  <1> QED
    BY <1>1, <1>3, TypeCorrect, PTL DEF Spec

(* As long as nothing fails, two operations never both change the session:  *)
(* whatever the host starts, and whenever.                                  *)
THEOREM OneAtATime == Spec => []OneOperation
  <1>1. OneInv => OneOperation
    BY DEF OneInv, Guarded, OneOperation
  <1> QED
    BY <1>1, OneAlways, PTL

-----------------------------------------------------------------------------
(* Sequences without repetition, and what they hold.                        *)

Once(s) == \A i, j \in 1 .. Len(s) : s[i] = s[j] => i = j

LEMMA AppendElements ==
  ASSUME NEW S, NEW s \in Seq(S), NEW e \in S
  PROVE  /\ Elements(Append(s, e)) = Elements(s) \cup {e}
         /\ Once(s) /\ e \notin Elements(s) => Once(Append(s, e))
  <1>1. /\ Len(s) \in Nat /\ Len(Append(s, e)) = Len(s) + 1
        /\ \A i \in 1 .. Len(s) : Append(s, e)[i] = s[i]
        /\ Append(s, e)[Len(s) + 1] = e
    BY AppendFacts
  <1> HIDE DEF Elements
  <1>2. \A i \in 1 .. Len(s) + 1 : i \in 1 .. Len(s) \/ i = Len(s) + 1
    BY <1>1
  <1>3. 1 .. Len(s) + 1 = (1 .. Len(s)) \cup {Len(s) + 1}
    BY <1>1
  <1>4. Elements(Append(s, e)) = Elements(s) \cup {e}
    BY <1>1, <1>3, Zenon DEF Elements
  <1>5. ASSUME Once(s), e \notin Elements(s), NEW i \in 1 .. Len(s) + 1,
               NEW j \in 1 .. Len(s) + 1, Append(s, e)[i] = Append(s, e)[j]
        PROVE  i = j
    BY <1>1, <1>2, <1>5 DEF Once, Elements
  <1> QED
    BY <1>1, <1>4, <1>5 DEF Once

LEMMA TailElements ==
  ASSUME NEW S, NEW s \in Seq(S), s # <<>>, Once(s)
  PROVE  /\ Elements(Tail(s)) = Elements(s) \ {Head(s)}
         /\ Head(s) \in Elements(s) /\ Once(Tail(s))
  <1>1. /\ Len(s) \in Nat \ {0} /\ Len(Tail(s)) = Len(s) - 1
        /\ \A i \in 1 .. Len(s) - 1 : Tail(s)[i] = s[i + 1]
        /\ Head(s) = s[1]
    BY TailFacts
  <1>2. ASSUME NEW e \in Elements(Tail(s)) PROVE e \in Elements(s) \ {Head(s)}
    <2>1. PICK i \in 1 .. Len(s) - 1 : e = s[i + 1]
      BY <1>1, <1>2 DEF Elements
    <2>2. i + 1 \in 1 .. Len(s) /\ 1 \in 1 .. Len(s) /\ i + 1 # 1
      BY <1>1
    <2> QED
      BY <1>1, <2>1, <2>2 DEF Elements, Once
  <1>3. ASSUME NEW e \in Elements(s), e # Head(s) PROVE e \in Elements(Tail(s))
    <2>1. PICK i \in 1 .. Len(s) : e = s[i]
      BY DEF Elements
    <2>2. i - 1 \in 1 .. Len(s) - 1 /\ (i - 1) + 1 = i
      BY <1>1, <1>3, <2>1
    <2>3. Tail(s)[i - 1] = e
      BY <1>1, <2>1, <2>2
    <2> QED
      BY <1>1, <2>2, <2>3 DEF Elements
  <1>4. Head(s) \in Elements(s)
    BY <1>1 DEF Elements
  <1>5. Once(Tail(s))
    <2>1. \A i \in 1 .. Len(s) - 1 : i + 1 \in 1 .. Len(s)
      BY <1>1
    <2> QED
      BY <1>1, <2>1 DEF Once
  <1> QED
    BY <1>2, <1>3, <1>4, <1>5

LEMMA SplitElements ==
  ASSUME NEW S, NEW s \in Seq(S), NEW n \in 0 .. Len(s), Once(s)
  PROVE  LET a == SubSeq(s, 1, n)
             b == SubSeq(s, n + 1, Len(s))
         IN  /\ Elements(a) \cup Elements(b) = Elements(s)
             /\ Elements(a) \cap Elements(b) = {}
             /\ Once(a) /\ Once(b)
  <1> DEFINE a == SubSeq(s, 1, n)
             b == SubSeq(s, n + 1, Len(s))
  <1>1. /\ Len(s) \in Nat /\ n \in Nat /\ Len(a) = n /\ Len(b) = Len(s) - n
        /\ \A i \in 1 .. n : a[i] = s[i]
        /\ \A i \in 1 .. Len(s) - n : b[i] = s[n + i]
    BY SubSeqFacts
  <1> HIDE DEF a, b
  <1>2. /\ \A i \in 1 .. n : i \in 1 .. Len(s)
        /\ \A i \in 1 .. Len(s) - n : n + i \in 1 .. Len(s) /\ n + i \notin 1 .. n
        /\ \A i \in 1 .. Len(s) : i \in 1 .. n \/ (i - n \in 1 .. Len(s) - n /\ n + (i - n) = i)
    BY <1>1
  <1>3. Elements(a) \cup Elements(b) \subseteq Elements(s)
    BY <1>1, <1>2 DEF Elements
  <1>4. Elements(s) \subseteq Elements(a) \cup Elements(b)
    <2>1. SUFFICES ASSUME NEW i \in 1 .. Len(s) PROVE s[i] \in Elements(a) \cup Elements(b)
      BY DEF Elements
    <2>2. CASE i \in 1 .. n
      BY <1>1, <2>2 DEF Elements
    <2>3. CASE i \notin 1 .. n
      <3>1. i - n \in 1 .. Len(s) - n /\ b[i - n] = s[i]
        BY <1>1, <1>2, <2>3
      <3> QED
        BY <1>1, <3>1 DEF Elements
    <2> QED
      BY <2>2, <2>3
  <1>5. Elements(a) \cap Elements(b) = {}
    <2>1. SUFFICES ASSUME NEW i \in 1 .. n, NEW j \in 1 .. Len(s) - n, a[i] = b[j]
                   PROVE  FALSE
      BY <1>1 DEF Elements
    <2>2. s[i] = s[n + j] /\ i \in 1 .. Len(s) /\ n + j \in 1 .. Len(s) /\ i # n + j
      BY <1>1, <1>2, <2>1
    <2> QED
      BY <2>2 DEF Once
  <1>6. Once(a)
    BY <1>1, <1>2 DEF Once
  <1>7. Once(b)
    <2>1. SUFFICES ASSUME NEW i \in 1 .. Len(s) - n, NEW j \in 1 .. Len(s) - n, b[i] = b[j]
                   PROVE  i = j
      BY <1>1 DEF Once
    <2>2. s[n + i] = s[n + j] /\ n + i \in 1 .. Len(s) /\ n + j \in 1 .. Len(s)
      BY <1>1, <1>2, <2>1
    <2>3. n + i = n + j
      BY <2>2 DEF Once
    <2> QED
      BY <1>1, <2>3
  <1> QED
    BY <1>3, <1>4, <1>5, <1>6, <1>7 DEF a, b

(* The entries of a kind in the session.                                    *)
Saved(kind) == {n \in Nat : \E i \in 1 .. Len(session) : session[i] = <<kind, n>>}
SavedOnce(kind) ==
  \A i, j \in 1 .. Len(session) :
    session[i] = session[j] /\ session[i][1] = kind => i = j

LEMMA SavedPersist ==
  ASSUME Rest, NEW kind \in {"write", "user", "prompt", "assistant", "result",
                             "failure", "structural"}, NEW n \in Nat,
         Persist(kind, n), NEW k
  PROVE  /\ k # kind => Saved(k)' = Saved(k) /\ (SavedOnce(k) => SavedOnce(k)')
         /\ k = kind => /\ Saved(k)' = Saved(k) \cup {n}
                        /\ SavedOnce(k) /\ n \notin Saved(k) => SavedOnce(k)'
  <1>1. <<kind, n>> \in Entry
    BY DEF Entry
  <1>2. /\ Len(session) \in Nat /\ Len(session') = Len(session) + 1
        /\ \A i \in 1 .. Len(session) : session'[i] = session[i]
        /\ session'[Len(session) + 1] = <<kind, n>>
    BY <1>1, AppendFacts DEF Rest, Persist
  <1>3. /\ \A i \in 1 .. Len(session) : i \in 1 .. Len(session')
        /\ Len(session) + 1 \in 1 .. Len(session')
        /\ \A i \in 1 .. Len(session') : i \in 1 .. Len(session) \/ i = Len(session) + 1
    BY <1>2
  <1>4. Saved(k) \subseteq Saved(k)'
    BY <1>2, <1>3 DEF Saved
  <1>5. \A m \in Saved(k)' : m \in Saved(k) \/ (k = kind /\ m = n)
    BY <1>2, <1>3 DEF Saved
  <1>6. k = kind => n \in Saved(k)'
    BY <1>2, <1>3 DEF Saved
  <1>7. ASSUME SavedOnce(k), k # kind \/ n \notin Saved(k) PROVE SavedOnce(k)'
    <2>1. SUFFICES ASSUME NEW i \in 1 .. Len(session'), NEW j \in 1 .. Len(session'),
                          session'[i] = session'[j], session'[i][1] = k
                   PROVE  i = j
      BY DEF SavedOnce
    <2>2. CASE i \in 1 .. Len(session) /\ j \in 1 .. Len(session)
      BY <1>2, <1>7, <2>1, <2>2 DEF SavedOnce
    <2>3. ASSUME NEW l \in 1 .. Len(session), session[l] = <<kind, n>>, kind = k PROVE FALSE
      BY <1>7, <2>3 DEF Saved
    <2>4. <<kind, n>>[1] = kind
      OBVIOUS
    <2> QED
      BY <1>2, <1>3, <2>1, <2>2, <2>3, <2>4
  <1> QED
    BY <1>4, <1>5, <1>6, <1>7

-----------------------------------------------------------------------------
(* Where a message is.  Q: in the queues; H: in hand; U: in the session; R: *)
(* given back; n: how many were queued so far.                              *)
Parted(Q, H, U, R, n) ==
  /\ \A q, p \in Queues : q # p => Q[q] \cap Q[p] = {}
  /\ \A r, s \in Ops : r # s => H[r] \cap H[s] = {}
  /\ \A q \in Queues, r \in Ops : Q[q] \cap H[r] = {}
  /\ \A q \in Queues : Q[q] \cap (U \cup R) = {}
  /\ \A r \in Ops : H[r] \cap (U \cup R) = {}
  /\ U \cap R = {}
  /\ \A m : m \in 1 .. n <=> \/ \E q \in Queues : m \in Q[q]
                             \/ \E r \in Ops : m \in H[r]
                             \/ m \in U \cup R

LEMMA PartedEnqueue ==
  ASSUME NEW Q, NEW H, NEW U, NEW R, NEW n \in Nat, Parted(Q, H, U, R, n),
         NEW q \in Queues, NEW Q2, Q2[q] = Q[q] \cup {n + 1},
         \A p \in Queues : p # q => Q2[p] = Q[p]
  PROVE  Parted(Q2, H, U, R, n + 1)
  <1>1. \A m : m \in 1 .. n + 1 <=> m \in 1 .. n \/ m = n + 1
    OBVIOUS
  <1>2. n + 1 \notin 1 .. n
    OBVIOUS
  <1>3. \A p \in Queues : p = q \/ Q2[p] = Q[p]
    OBVIOUS
  <1>4. /\ \A p \in Queues : n + 1 \notin Q[p]
        /\ \A r \in Ops : n + 1 \notin H[r]
        /\ n + 1 \notin U \cup R
    BY <1>2 DEF Parted
  <1> HIDE DEF Queues, Ops
  <1> QED
    BY <1>1, <1>3, <1>4 DEF Parted

LEMMA PartedTake ==
  ASSUME NEW Q, NEW H, NEW U, NEW R, NEW n, Parted(Q, H, U, R, n),
         NEW q \in Queues, NEW r \in Ops, NEW Q2, NEW H2,
         Q2[q] \cup H2[r] = Q[q] \cup H[r], Q2[q] \cap H2[r] = {},
         \A p \in Queues : p # q => Q2[p] = Q[p],
         \A s \in Ops : s # r => H2[s] = H[s]
  PROVE  Parted(Q2, H2, U, R, n)
  BY DEF Parted

LEMMA PartedPersist ==
  ASSUME NEW Q, NEW H, NEW U, NEW R, NEW n, Parted(Q, H, U, R, n),
         NEW r \in Ops, NEW m \in H[r], NEW H2, H2[r] = H[r] \ {m},
         \A s \in Ops : s # r => H2[s] = H[s]
  PROVE  Parted(Q, H2, U \cup {m}, R, n)
  BY DEF Parted

LEMMA PartedAbort ==
  ASSUME NEW Q, NEW H, NEW U, NEW R, NEW n, Parted(Q, H, U, R, n),
         NEW Q2, Q2["steer"] = {}, Q2["followUp"] = {}, Q2["nextTurn"] = Q["nextTurn"]
  PROVE  Parted(Q2, H, U, (R \cup Q["steer"]) \cup Q["followUp"], n)
  BY DEF Parted, Queues

Carrying == {"notify", "hook", "prompts", "inject"}
Queued == [q \in Queues |-> Elements(queue[q])]
Held == [r \in Ops |-> Elements(op[r].hand)]

(* As long as nothing failed: only an operation on its way to the session   *)
(* has messages in hand, nothing is anywhere twice, and every message is    *)
(* somewhere.                                                              *)
Sole ==
  fails = 0 => /\ \A r \in Ops : op[r].hand # <<>> => op[r].pc \in Carrying
               /\ \A q \in Queues : Once(queue[q])
               /\ \A r \in Ops : Once(op[r].hand)
               /\ SavedOnce("user")
               /\ Parted(Queued, Held, Saved("user"), returned, msgs)

MsgInv == TypeOK /\ Fresh /\ Sole

LEMMA HandTyped ==
  ASSUME TypeOK, NEW r \in Ops
  PROVE  op[r].hand \in Seq(1 .. MaxMsgs)
  BY TypeParts, OperationFields

(* A step that leaves every message where it is.                            *)
LEMMA MsgQuiet ==
  ASSUME MsgInv, UNCHANGED <<queue, returned, msgs, fails>>,
         \A r \in Ops : op'[r].hand = op[r].hand,
         \A r \in Ops : op[r].hand # <<>> /\ op[r].pc \in Carrying => op'[r].pc \in Carrying,
         UNCHANGED session
           \/ \E kind \in {"write", "prompt", "assistant", "result", "failure", "structural"} :
                \E n \in Nat : Persist(kind, n)
  PROVE  Sole'
  <1>1. SUFFICES ASSUME fails = 0 PROVE Sole'
    BY DEF Sole
  <1>2. Saved("user")' = Saved("user") /\ SavedOnce("user")'
    <2>1. CASE UNCHANGED session
      BY <1>1, <2>1 DEF MsgInv, Sole, Saved, SavedOnce
    <2>2. ASSUME NEW kind \in {"write", "prompt", "assistant", "result", "failure", "structural"},
                 NEW n \in Nat, Persist(kind, n)
          PROVE  Saved("user")' = Saved("user") /\ SavedOnce("user")'
      <3>1. "user" # kind /\ Rest
        BY TypeParts DEF MsgInv
      <3>2. SavedOnce("user")
        BY <1>1 DEF MsgInv, Sole
      <3> QED
        BY <2>2, <3>1, <3>2, SavedPersist
    <2> QED
      BY <2>1, <2>2
  <1>3. Queued' = Queued /\ Held' = Held
    BY DEF Queued, Held
  <1>4. Parted(Queued, Held, Saved("user"), returned, msgs)'
    BY <1>1, <1>2, <1>3 DEF MsgInv, Sole, Parted
  <1>5. /\ \A r \in Ops : op'[r].hand # <<>> => op'[r].pc \in Carrying
        /\ \A q \in Queues : Once(queue'[q])
        /\ \A r \in Ops : Once(op'[r].hand)
    BY <1>1 DEF MsgInv, Sole
  <1> QED
    BY <1>2, <1>4, <1>5 DEF Sole

LEMMA MsgMove ==
  ASSUME MsgInv, NEW r \in Ops, NEW src, NEW dst, Moves(r, src, dst),
         UNCHANGED <<queue, returned, msgs, fails>>,
         op[r].hand = <<>> \/ src \cap Carrying = {} \/ dst \subseteq Carrying,
         UNCHANGED session
           \/ \E kind \in {"write", "prompt", "assistant", "result", "failure", "structural"} :
                \E n \in Nat : Persist(kind, n)
  PROVE  Sole'
  <1>1. PICK l \in dst : Becomes(r, l, op[r].hand, op[r].writing, op[r].outcome)
    BY DEF Moves
  <1>2. /\ \A s \in Ops : op'[s].hand = op[s].hand
        /\ \A s \in Ops : op[s].hand # <<>> /\ op[s].pc \in Carrying => op'[s].pc \in Carrying
    BY <1>1 DEF Moves, Becomes
  <1> QED
    BY <1>2, MsgQuiet

LEMMA MsgEnqueue ==
  ASSUME MsgInv, NEW q \in Queues, Enqueue(q)
  PROVE  Sole'
  <1>1. SUFFICES ASSUME fails = 0 PROVE Sole'
    BY DEF Sole, Enqueue
  <1>2. Rest /\ Sole
    BY TypeParts DEF MsgInv
  <1>3. msgs' = msgs + 1 /\ msgs \in Nat /\ msgs' \in 1 .. MaxMsgs
    BY <1>2, Bounds DEF Enqueue, Rest
  <1>4. queue[q] \in Seq(1 .. MaxMsgs) /\ Once(queue[q])
    BY <1>1, <1>2 DEF Rest, Sole
  <1>5. Parted(Queued, Held, Saved("user"), returned, msgs)
    BY <1>1, <1>2 DEF Sole
  <1>6. msgs' \notin Elements(queue[q])
    BY <1>3, <1>5 DEF Parted, Queued
  <1>7. queue'[q] = Append(queue[q], msgs') /\ \A p \in Queues : p # q => queue'[p] = queue[p]
    BY <1>2 DEF Enqueue, Rest
  <1>8. Once(queue'[q]) /\ Elements(queue'[q]) = Elements(queue[q]) \cup {msgs'}
    <2>1. \A s \in Seq(1 .. MaxMsgs), e \in 1 .. MaxMsgs :
            /\ Elements(Append(s, e)) = Elements(s) \cup {e}
            /\ Once(s) /\ e \notin Elements(s) => Once(Append(s, e))
      BY AppendElements
    <2>2. /\ Elements(Append(queue[q], msgs')) = Elements(queue[q]) \cup {msgs'}
          /\ Once(Append(queue[q], msgs'))
      BY <1>3, <1>4, <1>6, <2>1
    <2> QED
      BY <1>7, <2>2
  <1>9. /\ Queued'[q] = Queued[q] \cup {msgs + 1}
        /\ \A p \in Queues : p # q => Queued'[p] = Queued[p]
    BY <1>3, <1>7, <1>8 DEF Queued
  <1>10. Held' = Held /\ Saved("user")' = Saved("user") /\ returned' = returned
    BY DEF Enqueue, Held, Saved
  <1>11. Parted(Queued', Held, Saved("user"), returned, msgs + 1)
    BY <1>3, <1>5, <1>9, PartedEnqueue
  <1>12. Parted(Queued, Held, Saved("user"), returned, msgs)'
    BY <1>3, <1>10, <1>11
  <1> QED
    BY <1>1, <1>2, <1>7, <1>8, <1>12 DEF Sole, Enqueue, SavedOnce

LEMMA MsgAbort ==
  ASSUME MsgInv, Abort
  PROVE  Sole'
  <1>1. SUFFICES ASSUME fails = 0 PROVE Sole'
    BY DEF Sole, Abort
  <1>2. op \in [Ops -> Operation] /\ Rest /\ Sole
    BY TypeParts DEF MsgInv
  <1>3. /\ queue'["steer"] = <<>> /\ queue'["followUp"] = <<>>
        /\ queue'["nextTurn"] = queue["nextTurn"]
    BY <1>2 DEF Abort, Rest, Queues
  <1>4. Elements(<<>>) = {} /\ Once(<<>>)
    BY DEF Elements, Once
  <1>5. /\ \A q \in Queues : Once(queue'[q])
        /\ Queued'["steer"] = {} /\ Queued'["followUp"] = {}
        /\ Queued'["nextTurn"] = Queued["nextTurn"]
    BY <1>1, <1>2, <1>3, <1>4 DEF Sole, Queued, Queues
  <1>6. returned' = (returned \cup Queued["steer"]) \cup Queued["followUp"]
    BY DEF Abort, Queued, Queues
  <1>7. \A r \in Ops : op'[r].hand = op[r].hand /\ op'[r].pc = op[r].pc
    BY <1>2, AbortKeeps
  <1>8. Held' = Held /\ Saved("user")' = Saved("user") /\ SavedOnce("user")' /\ msgs' = msgs
    BY <1>1, <1>2, <1>7 DEF Abort, Held, Saved, SavedOnce, Sole
  <1>9. Parted(Queued, Held, Saved("user"), returned, msgs)
    BY <1>1, <1>2 DEF Sole
  <1>10. Parted(Queued', Held, Saved("user"), returned', msgs)
    BY <1>5, <1>6, <1>9, PartedAbort
  <1>11. Parted(Queued, Held, Saved("user"), returned, msgs)'
    BY <1>8, <1>10
  <1> QED
    BY <1>1, <1>2, <1>5, <1>7, <1>8, <1>11 DEF Sole

LEMMA MsgTake ==
  ASSUME MsgInv, NEW r \in Ops, NEW q \in Queues, NEW n, Take(r, q, n),
         op[r].pc \notin Carrying
  PROVE  Sole'
  <1>1. SUFFICES ASSUME fails = 0 PROVE Sole'
    BY DEF Sole, Take, histVars
  <1>2. op \in [Ops -> Operation] /\ Rest /\ Sole
    BY TypeParts DEF MsgInv
  <1> DEFINE a == SubSeq(queue[q], 1, n)
             b == SubSeq(queue[q], n + 1, Len(queue[q]))
  <1>3. queue[q] \in Seq(1 .. MaxMsgs) /\ n \in 0 .. Len(queue[q]) /\ Once(queue[q])
    BY <1>1, <1>2 DEF Rest, Take, Sole
  <1>4. /\ Elements(a) \cup Elements(b) = Elements(queue[q])
        /\ Elements(a) \cap Elements(b) = {} /\ Once(a) /\ Once(b)
    BY <1>3, SplitElements
  <1>5. queue'[q] = b /\ \A p \in Queues : p # q => queue'[p] = queue[p]
    BY <1>2 DEF Take, Rest
  <1>6. Becomes(r, "notify", a, op[r].writing, op[r].outcome)
    BY TakeTyped DEF MsgInv
  <1> HIDE DEF a, b
  <1>7. op[r].hand = <<>> /\ Elements(op[r].hand) = {}
    BY <1>1, <1>2 DEF Sole, Elements
  <1>8. /\ op'[r].hand = a /\ op'[r].pc = "notify"
        /\ \A s \in Ops : s # r => op'[s] = op[s]
    BY <1>6 DEF Becomes
  <1>9. /\ Queued'[q] \cup Held'[r] = Queued[q] \cup Held[r]
        /\ Queued'[q] \cap Held'[r] = {}
        /\ \A p \in Queues : p # q => Queued'[p] = Queued[p]
        /\ \A s \in Ops : s # r => Held'[s] = Held[s]
    BY <1>4, <1>5, <1>7, <1>8 DEF Queued, Held
  <1>10. /\ Saved("user")' = Saved("user") /\ SavedOnce("user")' = SavedOnce("user")
         /\ returned' = returned /\ msgs' = msgs
    BY DEF Take, histVars, Saved, SavedOnce
  <1>11. Parted(Queued', Held', Saved("user"), returned, msgs)
    BY <1>1, <1>2, <1>9, PartedTake DEF Sole
  <1>12. Parted(Queued, Held, Saved("user"), returned, msgs)'
    BY <1>10, <1>11
  <1>13. /\ \A s \in Ops : op'[s].hand # <<>> => op'[s].pc \in Carrying
         /\ \A s \in Ops : Once(op'[s].hand)
         /\ \A p \in Queues : Once(queue'[p])
    BY <1>1, <1>2, <1>4, <1>5, <1>8 DEF Sole, Carrying
  <1> QED
    BY <1>1, <1>2, <1>10, <1>12, <1>13 DEF Sole

LEMMA MsgPersist ==
  ASSUME MsgInv, NEW r \in Ops, PersistMessage(r)
  PROVE  Sole'
  <1>1. SUFFICES ASSUME fails = 0 PROVE Sole'
    BY DEF Sole, PersistMessage, histVars
  <1>2. op \in [Ops -> Operation] /\ Rest /\ Sole
    BY TypeParts DEF MsgInv
  <1>3. op[r].hand \in Seq(1 .. MaxMsgs) /\ op[r].hand # <<>> /\ Once(op[r].hand)
    BY <1>1, <1>2, HandTyped DEF MsgInv, Sole, PersistMessage
  <1> DEFINE m == Head(op[r].hand)
  <1>4. m \in 1 .. MaxMsgs /\ m \in Nat
    BY <1>3, TailFacts, Bounds
  <1>5. /\ Elements(Tail(op[r].hand)) = Elements(op[r].hand) \ {m}
        /\ m \in Elements(op[r].hand) /\ Once(Tail(op[r].hand))
    BY <1>3, TailElements
  <1>6. Persist("user", m)
    BY DEF PersistMessage
  <1> HIDE DEF m
  <1>7. Becomes(r, op[r].pc, Tail(op[r].hand), op[r].writing, op[r].outcome)
    BY <1>2, Handling
  <1>8. /\ Held'[r] = Held[r] \ {m} /\ m \in Held[r]
        /\ \A s \in Ops : s # r => Held'[s] = Held[s]
    BY <1>5, <1>7 DEF Held, Becomes
  <1>9. Parted(Queued, Held, Saved("user"), returned, msgs)
    BY <1>1, <1>2 DEF Sole
  <1>10. Parted(Queued, Held', Saved("user") \cup {m}, returned, msgs)
    BY <1>8, <1>9, PartedPersist
  <1>11. m \notin Saved("user")
    BY <1>8, <1>9 DEF Parted
  <1>12. Saved("user")' = Saved("user") \cup {m} /\ SavedOnce("user")'
    BY <1>1, <1>2, <1>4, <1>6, <1>11, SavedPersist DEF Sole
  <1>13. Queued' = Queued /\ returned' = returned /\ msgs' = msgs /\ queue' = queue
    BY DEF PersistMessage, histVars, Queued
  <1>14. Parted(Queued, Held, Saved("user"), returned, msgs)'
    BY <1>10, <1>12, <1>13
  <1>15. /\ \A s \in Ops : op'[s].hand # <<>> => op'[s].pc \in Carrying
         /\ \A s \in Ops : Once(op'[s].hand)
    BY <1>1, <1>2, <1>3, <1>5, <1>7 DEF Sole, Becomes
  <1> QED
    BY <1>1, <1>2, <1>12, <1>13, <1>14, <1>15 DEF Sole

LEMMA MsgStep ==
  ASSUME MsgInv, NEW r \in Ops, Step(r)
  PROVE  Sole'
  <1>0. op \in [Ops -> Operation] /\ Rest /\ r \in Nat
    BY TypeParts, Bounds DEF MsgInv, Ops
  <1>1. CASE Snapshot(r)
    <2>1. CASE queue["nextTurn"] = <<>>
      <3>1. UNCHANGED <<queue, returned, msgs, fails, session>>
        BY <1>1, <2>1 DEF Snapshot, histVars
      <3>2. Moves(r, {"snapshot"}, {"hook"})
        BY <1>0, <1>1, <2>1, Moving
      <3> QED
        BY <3>1, <3>2, MsgMove DEF Carrying
    <2>2. CASE queue["nextTurn"] # <<>>
      BY <1>1, <2>2, MsgTake DEF Snapshot, Queues, Carrying
    <2> QED
      BY <2>1, <2>2
  <1>2. CASE Notified(r)
    <2>1. UNCHANGED <<queue, returned, msgs, fails>>
      BY <1>2 DEF Notified, histVars
    <2>2. UNCHANGED session
      BY <1>2 DEF Notified, histVars
    <2>3. Moves(r, {"notify"}, {"hook", "inject"})
      BY <1>0, <1>2, Moving
    <2> QED
      BY <1>0, <2>1, <2>2, <2>3, MsgMove DEF Carrying
  <1>3. CASE StartLoop(r)
    <2>1. UNCHANGED <<queue, returned, msgs, fails>>
      BY <1>3 DEF StartLoop, histVars
    <2>2. UNCHANGED session
      BY <1>3 DEF StartLoop, histVars
    <2>3. Moves(r, {"hook"}, {"prompts"})
      BY <1>0, <1>3, Moving
    <2> QED
      BY <1>0, <2>1, <2>2, <2>3, MsgMove DEF Carrying
  <1>4. CASE PersistMessage(r)
    BY <1>4, MsgPersist
  <1>5. CASE PersistPrompt(r)
    <2>1. UNCHANGED <<queue, returned, msgs, fails>> /\ op[r].hand = <<>>
      BY <1>5 DEF PersistPrompt, histVars
    <2>2. Persist("prompt", r)
      BY <1>5 DEF PersistPrompt, histVars
    <2>3. Moves(r, {"prompts"}, {"drain"})
      BY <1>0, <1>5, Moving
    <2> QED
      BY <1>0, <2>1, <2>2, <2>3, MsgMove DEF Carrying
  <1>6. CASE DrainSteering(r)
    <2>1. CASE queue["steer"] = <<>>
      <3>1. UNCHANGED <<queue, returned, msgs, fails, session>>
        BY <1>6, <2>1 DEF DrainSteering, histVars
      <3>2. Moves(r, {"drain"}, {"inject", "drainFollowUp"})
        BY <1>0, <1>6, <2>1, Moving
      <3> QED
        BY <3>1, <3>2, MsgMove DEF Carrying
    <2>2. CASE queue["steer"] # <<>>
      BY <1>6, <2>2, MsgTake DEF DrainSteering, Queues, Carrying
    <2> QED
      BY <2>1, <2>2
  <1>7. CASE DrainFollowUp(r)
    <2>1. CASE queue["followUp"] = <<>>
      <3>1. UNCHANGED <<queue, returned, msgs, fails, session>>
        BY <1>7, <2>1 DEF DrainFollowUp, histVars
      <3>2. Moves(r, {"drainFollowUp"}, {"agentEnd"})
        BY <1>0, <1>7, <2>1, Moving
      <3> QED
        BY <3>1, <3>2, MsgMove DEF Carrying
    <2>2. CASE queue["followUp"] # <<>>
      BY <1>7, <2>2, MsgTake DEF DrainFollowUp, Queues, Carrying
    <2> QED
      BY <2>1, <2>2
  <1>8. CASE Request(r)
    <2>1. UNCHANGED <<queue, returned, msgs, fails>> /\ op[r].hand = <<>>
      BY <1>8 DEF Request, histVars
    <2>2. UNCHANGED session
      BY <1>8 DEF Request, histVars
    <2>3. Moves(r, {"inject"}, {"stream"})
      BY <1>0, <1>8, Moving
    <2> QED
      BY <1>0, <2>1, <2>2, <2>3, MsgMove DEF Carrying
  <1>9. ASSUME NEW more \in {"tools", "text", "stop"}, Respond(r, more) PROVE Sole'
    <2>1. UNCHANGED <<queue, returned, msgs, fails>>
      BY <1>9 DEF Respond, histVars
    <2>2. Persist("assistant", r)
      BY <1>9 DEF Respond, histVars
    <2>3. Moves(r, {"stream"}, {"tools", "turnEnd"})
      BY <1>0, <1>9, Moving
    <2> QED
      BY <1>0, <2>1, <2>2, <2>3, MsgMove DEF Carrying
  <1>10. ASSUME NEW more \in {"tools", "text"}, PersistResult(r, more) PROVE Sole'
    <2>1. UNCHANGED <<queue, returned, msgs, fails>>
      BY <1>10 DEF PersistResult, histVars
    <2>2. Persist("result", r)
      BY <1>10 DEF PersistResult, histVars
    <2>3. Moves(r, {"tools"}, {"turnEnd"})
      BY <1>0, <1>10, Moving
    <2> QED
      BY <1>0, <2>1, <2>2, <2>3, MsgMove DEF Carrying
  <1>11. CASE FlushFirst(r)
    <2>1. UNCHANGED <<queue, returned, msgs, fails>>
      BY <1>11 DEF FlushFirst, histVars
    <2>2. \A s \in Ops : op'[s].hand = op[s].hand /\ op'[s].pc = op[s].pc
      BY <1>0, <1>11, Handling DEF Becomes
    <2>3. UNCHANGED session
      BY <1>11 DEF FlushFirst
    <2> QED
      BY <2>1, <2>2, <2>3, MsgQuiet
  <1>12. CASE FlushNext(r)
    <2>1. UNCHANGED <<queue, returned, msgs, fails>>
      BY <1>12 DEF FlushNext, histVars
    <2>2. \A s \in Ops : op'[s].hand = op[s].hand /\ op'[s].pc = op[s].pc
      BY <1>0, <1>12, Handling DEF Becomes
    <2>3. Persist("write", op[r].writing) /\ op[r].writing \in Nat
      BY <1>0, <1>12, OperationFields, Bounds DEF FlushNext
    <2> QED
      BY <2>1, <2>2, <2>3, MsgQuiet
  <1>13. CASE SavePoint(r)
    <2>1. UNCHANGED <<queue, returned, msgs, fails>>
      BY <1>13 DEF SavePoint, histVars
    <2>2. UNCHANGED session
      BY <1>13 DEF SavePoint, histVars
    <2>3. Moves(r, {"turnEnd"}, {"agentEnd", "prepare"})
      BY <1>0, <1>13, Moving
    <2> QED
      BY <1>0, <2>1, <2>2, <2>3, MsgMove DEF Carrying
  <1>14. CASE PrepareNextTurn(r)
    <2>1. UNCHANGED <<queue, returned, msgs, fails>>
      BY <1>14 DEF PrepareNextTurn, histVars
    <2>2. UNCHANGED session
      BY <1>14 DEF PrepareNextTurn, histVars
    <2>3. Moves(r, {"prepare"}, {"drain"})
      BY <1>0, <1>14, Moving
    <2> QED
      BY <1>0, <2>1, <2>2, <2>3, MsgMove DEF Carrying
  <1>15. CASE AgentEnd(r)
    <2>1. UNCHANGED <<queue, returned, msgs, fails>>
      BY <1>15 DEF AgentEnd, histVars
    <2>2. UNCHANGED session
      BY <1>15 DEF AgentEnd, histVars
    <2>3. Moves(r, {"agentEnd", "failAgentEnd"}, {"settling", "failSettling"})
      BY <1>0, <1>15, Moving
    <2> QED
      BY <1>0, <2>1, <2>2, <2>3, MsgMove DEF Carrying
  <1>16. CASE SettledOk(r)
    <2>1. UNCHANGED <<queue, returned, msgs, fails>>
      BY <1>16 DEF SettledOk, histVars
    <2>2. UNCHANGED session
      BY <1>16 DEF SettledOk, histVars
    <2>3. Moves(r, {"settling", "failSettling"}, {"finally"})
      BY <1>0, <1>16, Moving
    <2> QED
      BY <1>0, <2>1, <2>2, <2>3, MsgMove DEF Carrying
  <1>17. CASE Finally(r)
    <2>1. UNCHANGED <<queue, returned, msgs, fails>>
      BY <1>17 DEF Finally, histVars
    <2>2. UNCHANGED session
      BY <1>17 DEF Finally, histVars
    <2>3. Moves(r, {"finally"}, {"over"})
      BY <1>0, <1>17, Moving
    <2> QED
      BY <1>0, <2>1, <2>2, <2>3, MsgMove DEF Carrying
  <1>18. CASE RunFailure(r)
    <2>1. UNCHANGED <<queue, returned, msgs, fails>>
      BY <1>18 DEF RunFailure, histVars
    <2>2. Persist("failure", r)
      BY <1>18 DEF RunFailure, histVars
    <2>3. Moves(r, {"failing"}, {"failTurnEnd"})
      BY <1>0, <1>18, Moving
    <2> QED
      BY <1>0, <2>1, <2>2, <2>3, MsgMove DEF Carrying
  <1>19. CASE FailTurnEnd(r)
    <2>1. UNCHANGED <<queue, returned, msgs, fails>>
      BY <1>19 DEF FailTurnEnd, histVars
    <2>2. UNCHANGED session
      BY <1>19 DEF FailTurnEnd, histVars
    <2>3. Moves(r, {"failTurnEnd"}, {"failAgentEnd"})
      BY <1>0, <1>19, Moving
    <2> QED
      BY <1>0, <2>1, <2>2, <2>3, MsgMove DEF Carrying
  <1>20. CASE EndStructural(r)
    <2>1. UNCHANGED <<queue, returned, msgs, fails>>
      BY <1>20 DEF EndStructural, histVars
    <2>2. UNCHANGED session \/ Persist("structural", r)
      BY <1>20 DEF EndStructural, histVars, Persist
    <2>3. Moves(r, {"working"}, {"over"})
      BY <1>0, <1>20, Moving
    <2> QED
      BY <1>0, <2>1, <2>2, <2>3, MsgMove DEF Carrying
  <1> QED
    BY <1>1, <1>2, <1>3, <1>4, <1>5, <1>6, <1>7, <1>8, <1>9, <1>10, <1>11,
       <1>12, <1>13, <1>14, <1>15, <1>16, <1>17, <1>18, <1>19, <1>20 DEF Step

LEMMA MsgAlways == Spec => []MsgInv
  <1>1. Init => MsgInv
    <2> SUFFICES ASSUME Init PROVE MsgInv
      OBVIOUS
    <2>1. Elements(<<>>) = {} /\ Once(<<>>) /\ 1 .. 0 = {} /\ Idle.hand = <<>>
      BY DEF Elements, Once, Idle
    <2>2. Saved("user") = {} /\ SavedOnce("user")
      BY DEF Init, Saved, SavedOnce
    <2>3. Parted(Queued, Held, Saved("user"), returned, msgs)
      BY <2>1, <2>2 DEF Init, Parted, Queued, Held
    <2> QED
      BY <2>1, <2>2, <2>3, InitTyped DEF Init, MsgInv, Sole, Fresh
  <1>2. MsgInv /\ [Next]_vars => Sole'
    <2> SUFFICES ASSUME MsgInv, [Next]_vars PROVE Sole'
      OBVIOUS
    <2>0. op \in [Ops -> Operation] /\ Rest
      BY TypeParts DEF MsgInv
    <2>1. CASE Prompt \/ StartStructural
      <3>1. ops' \in Ops /\ "snapshot" \in Location /\ "working" \in Location
        <4>1. ops' \in Ops
          BY <2>0, <2>1, Bounds DEF Prompt, StartStructural, MayStart, Rest, Ops
        <4> QED
          BY <4>1 DEF Location
      <3>2. PICK l \in Location :
              Becomes(ops', l, op[ops'].hand, op[ops'].writing, op[ops'].outcome)
        BY <2>0, <2>1, <3>1, GoBecomes DEF Prompt, StartStructural
      <3>3. op[ops'].pc = "none"
        <4>1. ops' > ops
          BY <2>0, <2>1 DEF Prompt, StartStructural, MayStart, Rest
        <4> QED
          BY <3>1, <4>1 DEF MsgInv, Fresh, Idle
      <3>4. UNCHANGED <<queue, returned, msgs, fails, session>>
        BY <2>1 DEF Prompt, StartStructural
      <3>5. "none" \notin Carrying
        BY DEF Carrying
      <3>6. /\ \A r \in Ops : op'[r].hand = op[r].hand
            /\ \A r \in Ops : op[r].hand # <<>> /\ op[r].pc \in Carrying
                              => op'[r].pc \in Carrying
        BY <3>2, <3>3, <3>5 DEF Becomes
      <3> QED
        BY <3>4, <3>6, MsgQuiet
    <2>2. CASE RequestWrite
      BY <2>2, MsgQuiet DEF RequestWrite
    <2>3. CASE Abort
      BY <2>3, MsgAbort
    <2>4. ASSUME NEW w \in direct, DirectWrite(w) PROVE Sole'
      <3>1. w \in Nat
        BY <2>0, Bounds DEF Rest
      <3>2. UNCHANGED <<queue, returned, msgs, fails, op>> /\ Persist("write", w)
        BY <2>4 DEF DirectWrite, histVars
      <3> QED
        BY <3>1, <3>2, MsgQuiet
    <2>5. CASE \E q \in Queues : Enqueue(q)
      BY <2>5, MsgEnqueue
    <2>6. ASSUME NEW r \in Ops, Step(r) PROVE Sole'
      BY <2>6, MsgStep
    <2>7. ASSUME NEW r \in Ops, Failure(r) PROVE Sole'
      <3>1. fails' = fails + 1
        BY <2>7 DEF Failure, StartFails, NotifyFails, Throw, FailureThrows, FinallyThrows, Fail
      <3>2. fails' # 0
        BY <2>0, <3>1 DEF Rest
      <3> QED
        BY <3>2 DEF Sole
    <2>8. CASE UNCHANGED vars
      BY <2>8, MsgQuiet DEF vars, histVars
    <2> QED
      BY <2>1, <2>2, <2>3, <2>4, <2>5, <2>6, <2>7, <2>8 DEF Next
  <1>3. MsgInv /\ TypeOK' /\ Fresh' /\ [Next]_vars => MsgInv'
    BY <1>2 DEF MsgInv
  <1>4. OneInv => TypeOK /\ Fresh
    BY DEF OneInv
  <1> QED
    BY <1>1, <1>3, <1>4, OneAlways, PTL DEF Spec

LEMMA OnePlace ==
  ASSUME MsgInv, fails = 0, NEW m \in 1 .. msgs
  PROVE  \E p : Places(m) = {p}
  <1> DEFINE InQueues == {<<q, 0>> : q \in {q \in Queues : m \in Elements(queue[q])}}
             InHands == {<<"hand", r>> : r \in {r \in Ops : m \in Elements(op[r].hand)}}
             InSession == {<<"session", i>> : i \in Count(<<"user", m>>)}
             Back == {<<"returned", k>> : k \in {m} \cap returned}
  <1>1. Places(m) = ((InQueues \cup InHands) \cup InSession) \cup Back
    BY DEF Places
  <1>2. Parted(Queued, Held, Saved("user"), returned, msgs) /\ SavedOnce("user")
    BY DEF MsgInv, Sole
  <1>3. m \in Nat /\ (m \in Saved("user") <=> Count(<<"user", m>>) # {})
    <2>1. m \in Nat
      BY TypeParts DEF MsgInv, Rest
    <2> QED
      BY <2>1 DEF Saved, Count
  <1>4. \A i, j \in Count(<<"user", m>>) : i = j
    <2>1. SUFFICES ASSUME NEW i \in Count(<<"user", m>>), NEW j \in Count(<<"user", m>>)
                   PROVE  i = j
      OBVIOUS
    <2>2. /\ i \in 1 .. Len(session) /\ j \in 1 .. Len(session)
          /\ session[i] = <<"user", m>> /\ session[j] = <<"user", m>>
      BY DEF Count
    <2>3. <<"user", m>>[1] = "user"
      OBVIOUS
    <2> QED
      BY <1>2, <2>2, <2>3 DEF SavedOnce
  <1>5. \/ \E q \in Queues : m \in Queued[q]
        \/ \E r \in Ops : m \in Held[r]
        \/ m \in Saved("user") \/ m \in returned
    BY <1>2 DEF Parted
  <1>6. ASSUME NEW q \in Queues, m \in Queued[q] PROVE Places(m) = {<<q, 0>>}
    <2>1. /\ \A p \in Queues : m \in Queued[p] => p = q
          /\ \A r \in Ops : m \notin Held[r]
          /\ m \notin Saved("user") /\ m \notin returned
      BY <1>2, <1>6 DEF Parted
    <2>2. InQueues = {<<q, 0>>}
      BY <1>6, <2>1 DEF Queued
    <2>3. InHands = {}
      BY <2>1 DEF Held
    <2>4. InSession = {} /\ Back = {}
      BY <1>3, <2>1
    <2> QED
      BY <1>1, <2>2, <2>3, <2>4
  <1>7. ASSUME NEW r \in Ops, m \in Held[r] PROVE Places(m) = {<<"hand", r>>}
    <2>1. /\ \A q \in Queues : m \notin Queued[q]
          /\ \A s \in Ops : m \in Held[s] => s = r
          /\ m \notin Saved("user") /\ m \notin returned
      BY <1>2, <1>7 DEF Parted
    <2>2. InQueues = {}
      BY <2>1 DEF Queued
    <2>3. InHands = {<<"hand", r>>}
      BY <1>7, <2>1 DEF Held
    <2>4. InSession = {} /\ Back = {}
      BY <1>3, <2>1
    <2> QED
      BY <1>1, <2>2, <2>3, <2>4
  <1>8. ASSUME m \in Saved("user") PROVE \E i : Places(m) = {<<"session", i>>}
    <2>1. /\ \A q \in Queues : m \notin Queued[q]
          /\ \A s \in Ops : m \notin Held[s]
          /\ m \notin returned
      BY <1>2, <1>8 DEF Parted
    <2>2. InQueues = {}
      BY <2>1 DEF Queued
    <2>3. InHands = {}
      BY <2>1 DEF Held
    <2>4. PICK i : Count(<<"user", m>>) = {i}
      BY <1>3, <1>4, <1>8
    <2>5. InSession = {<<"session", i>>} /\ Back = {}
      BY <2>1, <2>4
    <2> QED
      BY <1>1, <2>2, <2>3, <2>5
  <1>9. ASSUME m \in returned PROVE Places(m) = {<<"returned", m>>}
    <2>1. /\ \A q \in Queues : m \notin Queued[q]
          /\ \A s \in Ops : m \notin Held[s]
          /\ m \notin Saved("user")
      BY <1>2, <1>9 DEF Parted
    <2>2. InQueues = {}
      BY <2>1 DEF Queued
    <2>3. InHands = {}
      BY <2>1 DEF Held
    <2>4. InSession = {} /\ Back = {<<"returned", m>>}
      BY <1>3, <1>9, <2>1
    <2> QED
      BY <1>1, <2>2, <2>3, <2>4
  <1> HIDE DEF InQueues, InHands, InSession, Back
  <1> QED
    BY <1>5, <1>6, <1>7, <1>8, <1>9

(* As long as nothing fails no queued message is lost and none is taken in  *)
(* twice, whatever the host starts, queues and aborts, and whenever.        *)
THEOREM NoMessageLost == Spec => []MessagesKept
  <1>1. ASSUME MsgInv PROVE MessagesKept
    <2>1. SUFFICES ASSUME fails = 0, NEW m \in 1 .. msgs PROVE Cardinality(Places(m)) = 1
      BY DEF MessagesKept
    <2>2. PICK p : Places(m) = {p}
      BY <1>1, <2>1, OnePlace
    <2> QED
      BY <2>2, FS_Singleton
  <1> QED
    BY <1>1, MsgAlways, PTL

-----------------------------------------------------------------------------
(* A host that awaits what it starts.                                       *)

(* Where an operation may be once it is idle again.                         *)
Late == {"settling", "failing", "failTurnEnd", "failAgentEnd", "failSettling", "finally"}

Alone == \A r, s \in Ops : Active(r) /\ Active(s) => r = s

(* Idle, or with a write the host made while idle, no operation is in its   *)
(* loop.                                                                   *)
Quiet ==
  phase = "idle" \/ direct # {} => \A r \in Ops : Active(r) => op[r].pc \in Late

(* Between a response and its results nothing is appended.                  *)
LastResponse ==
  \A r \in Ops : op[r].pc = "tools" =>
     session # <<>> /\ session[Len(session)] = <<"assistant", r>>

(* The write that is being appended is the first of those put off.          *)
UnderWay ==
  \A r \in Ops : op[r].writing # 0 =>
     op[r].pc \in Flushing /\ pending # <<>> /\ Head(pending) = op[r].writing

(* A write is put off, or under way, or in the session.                     *)
Accounted ==
  /\ Once(pending) /\ SavedOnce("write")
  /\ Elements(pending) \cap direct = {}
  /\ Saved("write") \cap (Elements(pending) \cup direct) = {}
  /\ \A w : w \in 1 .. writes <=> w \in Saved("write") \cup (Elements(pending) \cup direct)

Control == Alone /\ Quiet /\ LastResponse /\ UnderWay
SerialInv == TypeOK /\ Fresh /\ Control /\ WritesBetweenTurns /\ Accounted

LEMMA SerialStep ==
  ASSUME SerialInv, NEW r \in Ops, Active(r), NEW pc, NEW hand, NEW w, NEW outcome,
         Becomes(r, pc, hand, w, outcome), direct' = direct,
         pc \in Late \cup {"over"} \/ (phase' = phase /\ op[r].pc \notin Late),
         w # 0 => pc \in Flushing /\ pending' # <<>> /\ Head(pending') = w,
         pc = "tools" => session' # <<>> /\ session'[Len(session')] = <<"assistant", r>>
  PROVE  Control'
  <1>1. \A s \in Ops : s # r => ~Active(s)
    BY DEF SerialInv, Control, Alone
  <1>2. \A s \in Ops : Active(s)' => s = r
    BY <1>1 DEF Active, Becomes
  <1>3. Alone'
    BY <1>2 DEF Alone
  <1>4. Quiet'
    <2>1. SUFFICES ASSUME (phase = "idle" \/ direct # {})', Active(r)' PROVE pc \in Late
      BY <1>2 DEF Quiet, Becomes
    <2>2. pc # "over"
      BY <2>1 DEF Active, Becomes
    <2>3. CASE phase' = phase /\ op[r].pc \notin Late
      BY <2>1, <2>3 DEF SerialInv, Control, Quiet
    <2> QED
      BY <2>2, <2>3
  <1>5. LastResponse'
    BY <1>2 DEF LastResponse, Active, Becomes
  <1>6. UnderWay'
    <2>1. ASSUME NEW s \in Ops, s # r PROVE op'[s].writing = 0
      BY <1>1, <2>1 DEF SerialInv, Control, UnderWay, Active, Flushing, Becomes
    <2> QED
      BY <2>1 DEF UnderWay, Becomes
  <1> QED
    BY <1>3, <1>4, <1>5, <1>6 DEF Control

(* Moving on, with no write under way.                                      *)
LEMMA SerialMove ==
  ASSUME SerialInv, NEW r \in Ops, NEW src, NEW dst, Moves(r, src, dst),
         {"none", "over"} \cap src = {}, "tools" \notin dst, direct' = direct,
         Flushed(r) \/ src \cap Flushing = {},
         dst \subseteq Late \cup {"over"} \/ (phase' = phase /\ src \cap Late = {})
  PROVE  Control'
  <1>1. PICK l \in dst : Becomes(r, l, op[r].hand, op[r].writing, op[r].outcome)
    BY DEF Moves
  <1>2. op[r].pc \in src /\ Active(r)
    BY DEF Moves, Active
  <1>3. op[r].writing = 0
    BY <1>2 DEF SerialInv, Control, UnderWay, Flushed
  <1> QED
    BY <1>1, <1>2, <1>3, SerialStep

(* What is appended after a response that asks for tools are its results.   *)
LEMMA PairedPersist ==
  ASSUME Rest, WritesBetweenTurns,
         NEW kind \in {"write", "user", "prompt", "assistant", "result",
                       "failure", "structural"}, NEW n \in Nat, Persist(kind, n),
         kind = "result" => session # <<>> /\ session[Len(session)] = <<"assistant", n>>
  PROVE  WritesBetweenTurns'
  <1>1. <<kind, n>> \in Entry
    BY DEF Entry
  <1>2. /\ Len(session) \in Nat /\ Len(session') = Len(session) + 1
        /\ \A i \in 1 .. Len(session) : session'[i] = session[i]
        /\ session'[Len(session) + 1] = <<kind, n>>
        /\ session # <<>> => Len(session) > 0
    BY <1>1, AppendFacts DEF Rest, Persist
  <1>3. SUFFICES ASSUME NEW i \in 1 .. Len(session'), session'[i][1] = "result"
                 PROVE  i > 1 /\ session'[i - 1] = <<"assistant", session'[i][2]>>
    BY DEF WritesBetweenTurns
  <1>4. CASE i \in 1 .. Len(session)
    <2>1. i > 1 /\ session[i - 1] = <<"assistant", session[i][2]>>
      BY <1>2, <1>3, <1>4 DEF WritesBetweenTurns
    <2>2. i - 1 \in 1 .. Len(session)
      BY <1>2, <1>4, <2>1
    <2> QED
      BY <1>2, <1>4, <2>1, <2>2
  <1>5. CASE i = Len(session) + 1
    <2>1. session'[i] = <<kind, n>> /\ <<kind, n>>[1] = kind /\ <<kind, n>>[2] = n
      BY <1>2, <1>5
    <2>2. Len(session) > 0 /\ session[Len(session)] = <<"assistant", n>>
      BY <1>2, <1>3, <2>1
    <2>3. i > 1 /\ i - 1 = Len(session) /\ Len(session) \in 1 .. Len(session)
      BY <1>2, <1>5, <2>2
    <2> QED
      BY <1>2, <2>1, <2>2, <2>3
  <1> QED
    BY <1>2, <1>3, <1>4, <1>5

LEMMA AccountedQuiet ==
  ASSUME SerialInv, UNCHANGED <<pending, direct, writes>>,
         UNCHANGED session
           \/ \E kind \in {"user", "prompt", "assistant", "result", "failure", "structural"} :
                \E n \in Nat : Persist(kind, n)
  PROVE  Accounted'
  <1>1. Saved("write")' = Saved("write") /\ SavedOnce("write")'
    <2>1. CASE UNCHANGED session
      BY <2>1 DEF SerialInv, Accounted, Saved, SavedOnce
    <2>2. ASSUME NEW kind \in {"user", "prompt", "assistant", "result", "failure", "structural"},
                 NEW n \in Nat, Persist(kind, n)
          PROVE  Saved("write")' = Saved("write") /\ SavedOnce("write")'
      <3>1. "write" # kind /\ Rest /\ SavedOnce("write")
        BY TypeParts DEF SerialInv, Accounted
      <3> QED
        BY <2>2, <3>1, SavedPersist
    <2> QED
      BY <2>1, <2>2
  <1>2. pending' = pending /\ direct' = direct /\ writes' = writes
    OBVIOUS
  <1> QED
    BY <1>1, <1>2 DEF SerialInv, Accounted

LEMMA AccountedRequest ==
  ASSUME SerialInv, RequestWrite
  PROVE  Accounted'
  <1>1. Rest /\ Accounted
    BY TypeParts DEF SerialInv
  <1>2. writes' = writes + 1 /\ writes \in Nat /\ writes' \in 1 .. MaxWrites
    BY <1>1, Bounds DEF RequestWrite, Rest
  <1>3. /\ writes' \notin Elements(pending) /\ writes' \notin direct
        /\ writes' \notin Saved("write")
    BY <1>1, <1>2 DEF Accounted
  <1>4. Saved("write")' = Saved("write") /\ SavedOnce("write")'
    BY <1>1 DEF RequestWrite, Saved, SavedOnce, Accounted
  <1>5. \A w : w \in 1 .. writes' <=> w \in 1 .. writes \/ w = writes'
    BY <1>2
  <1>6. CASE phase = "idle"
    <2>1. pending' = pending /\ direct' = direct \cup {writes'}
      BY <1>6 DEF RequestWrite
    <2> QED
      BY <1>1, <1>3, <1>4, <1>5, <2>1 DEF Accounted
  <1>7. CASE phase # "idle"
    <2>1. pending' = Append(pending, writes') /\ direct' = direct
      BY <1>7 DEF RequestWrite
    <2>2. \A s \in Seq(1 .. MaxWrites), e \in 1 .. MaxWrites :
            /\ Elements(Append(s, e)) = Elements(s) \cup {e}
            /\ Once(s) /\ e \notin Elements(s) => Once(Append(s, e))
      BY AppendElements
    <2>3. Elements(pending') = Elements(pending) \cup {writes'} /\ Once(pending')
      BY <1>1, <1>2, <1>3, <2>1, <2>2 DEF Rest, Accounted
    <2> QED
      BY <1>1, <1>3, <1>4, <1>5, <2>1, <2>3 DEF Accounted
  <1> QED
    BY <1>6, <1>7

LEMMA AccountedDirect ==
  ASSUME SerialInv, NEW w \in direct, DirectWrite(w)
  PROVE  Accounted'
  <1>1. Rest /\ Accounted
    BY TypeParts DEF SerialInv
  <1>2. w \in Nat /\ w \notin Saved("write")
    BY <1>1, Bounds DEF Rest, Accounted
  <1>3. Saved("write")' = Saved("write") \cup {w} /\ SavedOnce("write")'
    BY <1>1, <1>2, SavedPersist DEF DirectWrite, Accounted
  <1>4. pending' = pending /\ direct' = direct \ {w} /\ writes' = writes
    BY DEF DirectWrite, histVars
  <1> QED
    BY <1>1, <1>3, <1>4 DEF Accounted

LEMMA AccountedFlush ==
  ASSUME SerialInv, NEW r \in Ops, FlushNext(r)
  PROVE  Accounted'
  <1>1. Rest /\ Accounted
    BY TypeParts DEF SerialInv
  <1> DEFINE w == op[r].writing
  <1>2. pending # <<>> /\ Head(pending) = w /\ pending' = Tail(pending)
    BY DEF SerialInv, Control, UnderWay, FlushNext
  <1>3. pending \in Seq(1 .. MaxWrites) /\ Once(pending)
    BY <1>1 DEF Rest, Accounted
  <1>4. w \in 1 .. MaxWrites
    BY <1>2, <1>3, TailFacts
  <1>5. /\ Elements(pending') = Elements(pending) \ {w}
        /\ w \in Elements(pending) /\ Once(pending')
    BY <1>2, <1>3, TailElements
  <1>6. w \in Nat /\ w \notin Saved("write") /\ w \notin direct
    BY <1>1, <1>4, <1>5, Bounds DEF Accounted
  <1>7. Persist("write", w) /\ direct' = direct /\ writes' = writes
    BY DEF FlushNext, histVars
  <1> HIDE DEF w
  <1>8. Saved("write")' = Saved("write") \cup {w} /\ SavedOnce("write")'
    BY <1>1, <1>6, <1>7, SavedPersist DEF Accounted
  <1> QED
    BY <1>1, <1>5, <1>6, <1>7, <1>8 DEF Accounted

LEMMA SerialStart ==
  ASSUME Host = "serial", SerialInv, Prompt \/ StartStructural
  PROVE  Control' /\ WritesBetweenTurns' /\ Accounted'
  <1>0. op \in [Ops -> Operation] /\ Rest
    BY TypeParts DEF SerialInv
  <1>1. /\ ops' \in Ops /\ ops' > ops /\ phase' # "idle" /\ direct = {}
        /\ \A r \in Ops : ~Active(r)
        /\ UNCHANGED <<pending, direct, session, writes>>
    BY <1>0, Bounds DEF Prompt, StartStructural, MayStart, Rest, Ops
  <1>2. PICK l \in {"snapshot", "working"} :
          Becomes(ops', l, op[ops'].hand, op[ops'].writing, op[ops'].outcome)
    <2>1. "snapshot" \in Location /\ "working" \in Location
      BY DEF Location
    <2> QED
      BY <1>0, <1>1, <2>1, GoBecomes DEF Prompt, StartStructural
  <1>3. op[ops'].writing = 0
    BY <1>0, <1>1 DEF SerialInv, Fresh, Idle
  <1>4. \A r \in Ops : Active(r)' => r = ops'
    BY <1>1, <1>2 DEF Active, Becomes
  <1>5. Alone' /\ Quiet'
    BY <1>1, <1>4 DEF Alone, Quiet
  <1>6. LastResponse' /\ UnderWay'
    BY <1>1, <1>2, <1>3 DEF SerialInv, Control, LastResponse, UnderWay, Becomes
  <1>7. WritesBetweenTurns' /\ Accounted'
    BY <1>1, AccountedQuiet DEF SerialInv, WritesBetweenTurns
  <1> QED
    BY <1>5, <1>6, <1>7 DEF Control

(* The host's other steps leave the operations where they are.              *)
LEMMA SerialHost ==
  ASSUME SerialInv,
         RequestWrite \/ Abort \/ (\E w \in direct : DirectWrite(w))
           \/ \E q \in Queues : Enqueue(q)
  PROVE  Control' /\ WritesBetweenTurns' /\ Accounted'
  <1>0. op \in [Ops -> Operation] /\ Rest
    BY TypeParts DEF SerialInv
  <1>1. \A r \in Ops : op'[r].pc = op[r].pc /\ op'[r].writing = op[r].writing
    BY <1>0, AbortKeeps DEF RequestWrite, DirectWrite, Enqueue
  <1>2. phase' = phase
    BY DEF RequestWrite, Abort, DirectWrite, Enqueue, guardVars
  <1>3. Alone'
    BY <1>1 DEF SerialInv, Control, Alone, Active
  <1>4. CASE RequestWrite
    <2>1. Quiet'
      BY <1>1, <1>2, <1>4 DEF SerialInv, Control, Quiet, Active, RequestWrite
    <2>2. LastResponse' /\ WritesBetweenTurns'
      BY <1>4 DEF SerialInv, Control, LastResponse, WritesBetweenTurns, RequestWrite
    <2>3. writes' \in 1 .. MaxWrites
      BY <1>0, <1>4, Bounds DEF RequestWrite, Rest
    <2>4. pending # <<>> => pending' # <<>> /\ Head(pending') = Head(pending)
      <3>1. CASE pending' = pending
        BY <3>1
      <3>2. CASE pending' = Append(pending, writes')
        BY <1>0, <2>3, <3>2 DEF Rest
      <3> QED
        BY <1>4, <3>1, <3>2 DEF RequestWrite
    <2>5. UnderWay'
      BY <1>4, <2>4 DEF SerialInv, Control, UnderWay, RequestWrite
    <2> QED
      BY <1>3, <1>4, <2>1, <2>2, <2>5, AccountedRequest DEF Control
  <1>5. ASSUME NEW w \in direct, DirectWrite(w) PROVE Control' /\ WritesBetweenTurns' /\ Accounted'
    <2>1. Quiet'
      BY <1>1, <1>2, <1>5 DEF SerialInv, Control, Quiet, Active, DirectWrite
    <2>2. \A r \in Ops : op[r].pc # "tools"
      BY <1>5 DEF SerialInv, Control, Quiet, Active, Late
    <2>3. LastResponse'
      BY <1>1, <2>2 DEF LastResponse
    <2>4. w \in Nat /\ Persist("write", w)
      BY <1>0, <1>5, Bounds DEF Rest, DirectWrite
    <2>5. WritesBetweenTurns'
      BY <1>0, <2>4, PairedPersist DEF SerialInv
    <2>6. UnderWay'
      BY <1>1, <1>5 DEF SerialInv, Control, UnderWay, DirectWrite
    <2> QED
      BY <1>3, <1>5, <2>1, <2>3, <2>5, <2>6, AccountedDirect DEF Control
  <1>6. CASE Abort \/ \E q \in Queues : Enqueue(q)
    <2>1. UNCHANGED <<pending, direct, session, writes>>
      BY <1>6 DEF Abort, Enqueue
    <2>2. Quiet' /\ LastResponse' /\ UnderWay'
      BY <1>1, <1>2, <2>1 DEF SerialInv, Control, Quiet, LastResponse, UnderWay, Active
    <2> QED
      BY <1>3, <2>1, <2>2, AccountedQuiet DEF Control, SerialInv, WritesBetweenTurns
  <1> QED
    BY <1>4, <1>5, <1>6

LEMMA SerialFailure ==
  ASSUME SerialInv, NEW r \in Ops, Failure(r)
  PROVE  Control' /\ WritesBetweenTurns' /\ Accounted'
  <1>0. op \in [Ops -> Operation]
    BY TypeParts DEF SerialInv
  <1>1. UNCHANGED <<pending, direct, session, writes>>
    BY DEF Failure, StartFails, NotifyFails, Throw, FailureThrows, FinallyThrows
  <1>2. /\ Active(r)
        /\ op[r].pc \notin Flushing => op[r].writing = 0
    BY DEF Failure, StartFails, NotifyFails, Throw, FailureThrows, FinallyThrows, MayThrow,
           Active, SerialInv, Control, UnderWay
  <1>3. \E pc, hand, outcome : pc \in Late \cup {"over"} /\ Becomes(r, pc, hand, 0, outcome)
    <2>1. CASE StartFails(r)
      BY <1>0, <1>2, <2>1, Failing DEF StartFails, Flushing
    <2>2. CASE NotifyFails(r)
      <3>1. op[r].writing = 0 /\ "failing" \in Late
        BY <1>2, <2>2 DEF NotifyFails, Flushing, Late
      <3>2. \/ Becomes(r, "over", <<>>, 0, "early")
            \/ Becomes(r, "failing", <<>>, 0, op[r].outcome)
        BY <1>0, <2>2, <3>1, Failing
      <3> QED
        BY <3>1, <3>2
    <2>3. CASE Throw(r)
      BY <1>0, <2>3, Failing DEF Late
    <2>4. CASE FailureThrows(r)
      BY <1>0, <2>4, Failing DEF Late
    <2>5. CASE FinallyThrows(r)
      BY <1>0, <2>5, Failing
    <2> QED
      BY <2>1, <2>2, <2>3, <2>4, <2>5 DEF Failure
  <1>4. Control'
    <2>1. PICK pc, hand, outcome : pc \in Late \cup {"over"} /\ Becomes(r, pc, hand, 0, outcome)
      BY <1>3
    <2>2. pc # "tools"
      BY <2>1 DEF Late
    <2> QED
      BY <1>1, <1>2, <2>1, <2>2, SerialStep
  <1> QED
    BY <1>1, <1>4, AccountedQuiet DEF SerialInv, WritesBetweenTurns

(* Messages are taken only within the loop or before it.                    *)
LEMMA SerialTake ==
  ASSUME SerialInv, NEW r \in Ops, NEW q \in Queues, NEW n, Take(r, q, n),
         op[r].pc \in {"snapshot", "drain", "drainFollowUp"}
  PROVE  Control' /\ WritesBetweenTurns' /\ Accounted'
  <1>1. Becomes(r, "notify", SubSeq(queue[q], 1, n), op[r].writing, op[r].outcome)
    BY TakeTyped DEF SerialInv
  <1>2. Active(r) /\ op[r].pc \notin Late /\ op[r].writing = 0
    BY DEF Active, Late, SerialInv, Control, UnderWay, Flushing
  <1>3. UNCHANGED <<phase, pending, direct, session, writes>>
    BY DEF Take, guardVars, histVars
  <1>4. Control'
    BY <1>1, <1>2, <1>3, SerialStep
  <1> QED
    BY <1>3, <1>4, AccountedQuiet DEF SerialInv, WritesBetweenTurns

LEMMA SerialProgress ==
  ASSUME SerialInv, NEW r \in Ops, Step(r)
  PROVE  Control' /\ WritesBetweenTurns' /\ Accounted'
  <1>0. op \in [Ops -> Operation] /\ Rest /\ r \in Nat /\ WritesBetweenTurns
    BY TypeParts, Bounds DEF SerialInv, Ops
  <1>1. CASE Snapshot(r)
    <2>1. CASE queue["nextTurn"] = <<>>
      <3>1. UNCHANGED <<phase, pending, direct, session, writes>>
        BY <1>1, <2>1 DEF Snapshot, guardVars, histVars
      <3>2. Moves(r, {"snapshot"}, {"hook"})
        BY <1>0, <1>1, <2>1, Moving
      <3>3. Control'
        BY <3>1, <3>2, SerialMove DEF Late, Flushing
      <3> QED
        BY <1>0, <3>1, <3>3, AccountedQuiet DEF WritesBetweenTurns
    <2>2. CASE queue["nextTurn"] # <<>>
      BY <1>1, <2>2, SerialTake DEF Snapshot, Queues
    <2> QED
      BY <2>1, <2>2
  <1>2. CASE Notified(r)
    <2>1. UNCHANGED <<phase, pending, direct, writes>>
      BY <1>2 DEF Notified, guardVars, histVars
    <2>2. UNCHANGED session
      BY <1>2 DEF Notified
    <2>3. Moves(r, {"notify"}, {"hook", "inject"})
      BY <1>0, <1>2, Moving
    <2>4. Control'
      BY <2>1, <2>3, SerialMove DEF Late, Flushing
    <2> QED
      BY <1>0, <2>1, <2>2, <2>4, AccountedQuiet DEF WritesBetweenTurns
  <1>3. CASE StartLoop(r)
    <2>1. UNCHANGED <<phase, pending, direct, writes>>
      BY <1>3 DEF StartLoop, guardVars, histVars
    <2>2. UNCHANGED session
      BY <1>3 DEF StartLoop
    <2>3. Moves(r, {"hook"}, {"prompts"})
      BY <1>0, <1>3, Moving
    <2>4. Control'
      BY <2>1, <2>3, SerialMove DEF Late, Flushing
    <2> QED
      BY <1>0, <2>1, <2>2, <2>4, AccountedQuiet DEF WritesBetweenTurns
  <1>4. CASE PersistMessage(r)
    <2>1. UNCHANGED <<phase, pending, direct, writes>> /\ op[r].pc \in {"prompts", "inject"}
      BY <1>4 DEF PersistMessage, guardVars, histVars
    <2>2. Active(r) /\ op[r].pc \notin Late /\ op[r].writing = 0 /\ op[r].pc # "tools"
      BY <2>1 DEF Active, Late, SerialInv, Control, UnderWay, Flushing
    <2>3. Control'
      BY <1>0, <1>4, <2>1, <2>2, Handling, SerialStep
    <2>4. Persist("user", Head(op[r].hand)) /\ Head(op[r].hand) \in Nat
      <3>1. op[r].hand \in Seq(1 .. MaxMsgs) /\ op[r].hand # <<>>
        BY <1>0, <1>4, OperationFields DEF PersistMessage
      <3>2. Head(op[r].hand) \in 1 .. MaxMsgs
        BY <3>1, TailFacts
      <3> QED
        BY <1>4, <3>2, Bounds DEF PersistMessage
    <2>5. WritesBetweenTurns'
      BY <1>0, <2>4, PairedPersist
    <2> QED
      BY <2>1, <2>3, <2>4, <2>5, AccountedQuiet
  <1>5. CASE PersistPrompt(r)
    <2>1. UNCHANGED <<phase, pending, direct, writes>>
      BY <1>5 DEF PersistPrompt, guardVars, histVars
    <2>2. Persist("prompt", r)
      BY <1>5 DEF PersistPrompt
    <2>3. Moves(r, {"prompts"}, {"drain"})
      BY <1>0, <1>5, Moving
    <2>4. Control'
      BY <2>1, <2>3, SerialMove DEF Late, Flushing
    <2>5. WritesBetweenTurns'
      BY <1>0, <2>2, PairedPersist
    <2> QED
      BY <1>0, <2>1, <2>2, <2>4, <2>5, AccountedQuiet
  <1>6. CASE DrainSteering(r)
    <2>1. CASE queue["steer"] = <<>>
      <3>1. UNCHANGED <<phase, pending, direct, session, writes>>
        BY <1>6, <2>1 DEF DrainSteering, guardVars, histVars
      <3>2. Moves(r, {"drain"}, {"inject", "drainFollowUp"})
        BY <1>0, <1>6, <2>1, Moving
      <3>3. Control'
        BY <3>1, <3>2, SerialMove DEF Late, Flushing
      <3> QED
        BY <1>0, <3>1, <3>3, AccountedQuiet DEF WritesBetweenTurns
    <2>2. CASE queue["steer"] # <<>>
      BY <1>6, <2>2, SerialTake DEF DrainSteering, Queues
    <2> QED
      BY <2>1, <2>2
  <1>7. CASE DrainFollowUp(r)
    <2>1. CASE queue["followUp"] = <<>>
      <3>1. UNCHANGED <<phase, pending, direct, session, writes>>
        BY <1>7, <2>1 DEF DrainFollowUp, guardVars, histVars
      <3>2. Moves(r, {"drainFollowUp"}, {"agentEnd"})
        BY <1>0, <1>7, <2>1, Moving
      <3>3. Control'
        BY <3>1, <3>2, SerialMove DEF Late, Flushing
      <3> QED
        BY <1>0, <3>1, <3>3, AccountedQuiet DEF WritesBetweenTurns
    <2>2. CASE queue["followUp"] # <<>>
      BY <1>7, <2>2, SerialTake DEF DrainFollowUp, Queues
    <2> QED
      BY <2>1, <2>2
  <1>8. CASE Request(r)
    <2>1. UNCHANGED <<phase, pending, direct, writes>>
      BY <1>8 DEF Request, guardVars, histVars
    <2>2. UNCHANGED session
      BY <1>8 DEF Request
    <2>3. Moves(r, {"inject"}, {"stream"})
      BY <1>0, <1>8, Moving
    <2>4. Control'
      BY <2>1, <2>3, SerialMove DEF Late, Flushing
    <2> QED
      BY <1>0, <2>1, <2>2, <2>4, AccountedQuiet DEF WritesBetweenTurns
  <1>9. ASSUME NEW more \in {"tools", "text", "stop"}, Respond(r, more)
        PROVE  Control' /\ WritesBetweenTurns' /\ Accounted'
    <2>1. /\ UNCHANGED <<phase, pending, direct, writes>> /\ op[r].pc = "stream"
          /\ Persist("assistant", r)
      BY <1>9 DEF Respond, guardVars, histVars
    <2>2. Active(r) /\ op[r].pc \notin Late /\ op[r].writing = 0
      BY <2>1 DEF Active, Late, SerialInv, Control, UnderWay, Flushing
    <2>3. session' # <<>> /\ session'[Len(session')] = <<"assistant", r>>
      <3>1. <<"assistant", r>> \in Entry /\ session \in Seq(Entry)
        BY <1>0 DEF Entry, Rest
      <3>2. session' = Append(session, <<"assistant", r>>)
        BY <2>1 DEF Persist
      <3> QED
        BY <3>1, <3>2, AppendFacts
    <2>4. PICK l \in {"tools", "turnEnd"} :
            Becomes(r, l, op[r].hand, op[r].writing, op[r].outcome)
      BY <1>0, <1>9, Moving DEF Moves
    <2>5. Control'
      BY <2>1, <2>2, <2>3, <2>4, SerialStep
    <2>6. WritesBetweenTurns'
      BY <1>0, <2>1, PairedPersist
    <2> QED
      BY <1>0, <2>1, <2>5, <2>6, AccountedQuiet
  <1>10. ASSUME NEW more \in {"tools", "text"}, PersistResult(r, more)
        PROVE  Control' /\ WritesBetweenTurns' /\ Accounted'
    <2>1. UNCHANGED <<phase, pending, direct, writes>>
      BY <1>10 DEF PersistResult, guardVars, histVars
    <2>2. Persist("result", r)
      BY <1>10 DEF PersistResult
    <2>3. Moves(r, {"tools"}, {"turnEnd"})
      BY <1>0, <1>10, Moving
    <2>4. Control'
      BY <2>1, <2>3, SerialMove DEF Late, Flushing
    <2>5. session # <<>> /\ session[Len(session)] = <<"assistant", r>>
      BY <2>3 DEF Moves, SerialInv, Control, LastResponse
    <2>6. WritesBetweenTurns'
      BY <1>0, <2>2, <2>5, PairedPersist
    <2> QED
      BY <1>0, <2>1, <2>2, <2>4, <2>6, AccountedQuiet
  <1>11. CASE FlushFirst(r)
    <2>1. /\ UNCHANGED <<phase, pending, direct, session, writes>>
          /\ op[r].pc \in Flushing /\ pending # <<>>
      BY <1>11 DEF FlushFirst, guardVars, histVars
    <2>2. Active(r) /\ op[r].pc # "tools" /\ (op[r].pc \in Late \/ op[r].pc \notin Late)
      BY <2>1 DEF Active, Flushing
    <2>3. Control'
      BY <1>0, <1>11, <2>1, <2>2, Handling, SerialStep
    <2> QED
      BY <1>0, <2>1, <2>3, AccountedQuiet DEF WritesBetweenTurns
  <1>12. CASE FlushNext(r)
    <2>1. UNCHANGED <<phase, direct, writes>> /\ op[r].pc \in Flushing
      BY <1>12 DEF FlushNext, guardVars, histVars, SerialInv, Control, UnderWay
    <2>2. Active(r) /\ op[r].pc # "tools" /\ (op[r].pc \in Late \/ op[r].pc \notin Late)
      BY <2>1 DEF Active, Flushing
    <2>3. Control'
      BY <1>0, <1>12, <2>1, <2>2, Handling, SerialStep
    <2>4. Persist("write", op[r].writing) /\ op[r].writing \in Nat
      BY <1>0, <1>12, OperationFields, Bounds DEF FlushNext
    <2>5. WritesBetweenTurns'
      BY <1>0, <2>4, PairedPersist
    <2> QED
      BY <1>12, <2>3, <2>5, AccountedFlush
  <1>13. CASE SavePoint(r)
    <2>1. UNCHANGED <<phase, pending, direct, writes>> /\ Flushed(r)
      BY <1>13 DEF SavePoint, guardVars, histVars
    <2>2. UNCHANGED session
      BY <1>13 DEF SavePoint
    <2>3. Moves(r, {"turnEnd"}, {"agentEnd", "prepare"})
      BY <1>0, <1>13, Moving
    <2>4. Control'
      BY <2>1, <2>3, SerialMove DEF Late, Flushing
    <2> QED
      BY <1>0, <2>1, <2>2, <2>4, AccountedQuiet DEF WritesBetweenTurns
  <1>14. CASE PrepareNextTurn(r)
    <2>1. UNCHANGED <<phase, pending, direct, writes>> /\ Flushed(r)
      BY <1>14 DEF PrepareNextTurn, guardVars, histVars
    <2>2. UNCHANGED session
      BY <1>14 DEF PrepareNextTurn
    <2>3. Moves(r, {"prepare"}, {"drain"})
      BY <1>0, <1>14, Moving
    <2>4. Control'
      BY <2>1, <2>3, SerialMove DEF Late, Flushing
    <2> QED
      BY <1>0, <2>1, <2>2, <2>4, AccountedQuiet DEF WritesBetweenTurns
  <1>15. CASE AgentEnd(r)
    <2>1. UNCHANGED <<pending, direct, writes>> /\ Flushed(r)
      BY <1>15 DEF AgentEnd, guardVars, histVars
    <2>2. UNCHANGED session
      BY <1>15 DEF AgentEnd
    <2>3. Moves(r, {"agentEnd", "failAgentEnd"}, {"settling", "failSettling"})
      BY <1>0, <1>15, Moving
    <2>4. Control'
      BY <2>1, <2>3, SerialMove DEF Late, Flushing
    <2> QED
      BY <1>0, <2>1, <2>2, <2>4, AccountedQuiet DEF WritesBetweenTurns
  <1>16. CASE SettledOk(r)
    <2>1. UNCHANGED <<pending, direct, writes>>
      BY <1>16 DEF SettledOk, guardVars, histVars
    <2>2. UNCHANGED session
      BY <1>16 DEF SettledOk
    <2>3. Moves(r, {"settling", "failSettling"}, {"finally"})
      BY <1>0, <1>16, Moving
    <2>4. Control'
      BY <2>1, <2>3, SerialMove DEF Late, Flushing
    <2> QED
      BY <1>0, <2>1, <2>2, <2>4, AccountedQuiet DEF WritesBetweenTurns
  <1>17. CASE Finally(r)
    <2>1. UNCHANGED <<pending, direct, writes>> /\ Flushed(r)
      BY <1>17 DEF Finally, guardVars, histVars
    <2>2. UNCHANGED session
      BY <1>17 DEF Finally
    <2>3. Moves(r, {"finally"}, {"over"})
      BY <1>0, <1>17, Moving
    <2>4. Control'
      BY <2>1, <2>3, SerialMove DEF Late, Flushing
    <2> QED
      BY <1>0, <2>1, <2>2, <2>4, AccountedQuiet DEF WritesBetweenTurns
  <1>18. CASE RunFailure(r)
    <2>1. UNCHANGED <<pending, direct, writes>>
      BY <1>18 DEF RunFailure, guardVars, histVars
    <2>2. Persist("failure", r)
      BY <1>18 DEF RunFailure
    <2>3. Moves(r, {"failing"}, {"failTurnEnd"})
      BY <1>0, <1>18, Moving
    <2>4. Control'
      BY <2>1, <2>3, SerialMove DEF Late, Flushing
    <2>5. WritesBetweenTurns'
      BY <1>0, <2>2, PairedPersist
    <2> QED
      BY <1>0, <2>1, <2>2, <2>4, <2>5, AccountedQuiet
  <1>19. CASE FailTurnEnd(r)
    <2>1. UNCHANGED <<pending, direct, writes>> /\ Flushed(r)
      BY <1>19 DEF FailTurnEnd, guardVars, histVars
    <2>2. UNCHANGED session
      BY <1>19 DEF FailTurnEnd
    <2>3. Moves(r, {"failTurnEnd"}, {"failAgentEnd"})
      BY <1>0, <1>19, Moving
    <2>4. Control'
      BY <2>1, <2>3, SerialMove DEF Late, Flushing
    <2> QED
      BY <1>0, <2>1, <2>2, <2>4, AccountedQuiet DEF WritesBetweenTurns
  <1>20. CASE EndStructural(r)
    <2>1. UNCHANGED <<pending, direct, writes>>
      BY <1>20 DEF EndStructural, guardVars, histVars
    <2>2. UNCHANGED session \/ Persist("structural", r)
      BY <1>20 DEF EndStructural, Persist
    <2>3. Moves(r, {"working"}, {"over"})
      BY <1>0, <1>20, Moving
    <2>4. Control'
      BY <2>1, <2>3, SerialMove DEF Late, Flushing
    <2>5. WritesBetweenTurns'
      BY <1>0, <2>2, PairedPersist DEF WritesBetweenTurns
    <2> QED
      BY <1>0, <2>1, <2>2, <2>4, <2>5, AccountedQuiet
  <1> QED
    BY <1>1, <1>2, <1>3, <1>4, <1>5, <1>6, <1>7, <1>8, <1>9, <1>10, <1>11,
       <1>12, <1>13, <1>14, <1>15, <1>16, <1>17, <1>18, <1>19, <1>20 DEF Step

LEMMA SerialAlways ==
  ASSUME Host = "serial"
  PROVE  Spec => []SerialInv
  <1>1. Init => SerialInv
    <2> SUFFICES ASSUME Init PROVE SerialInv
      OBVIOUS
    <2>1. /\ Elements(<<>>) = {} /\ Once(<<>>) /\ 1 .. 0 = {}
          /\ Idle.writing = 0 /\ Idle.pc = "none"
      BY DEF Elements, Once, Idle
    <2>2. Saved("write") = {} /\ SavedOnce("write")
      BY DEF Init, Saved, SavedOnce
    <2>3. Accounted
      BY <2>1, <2>2 DEF Init, Accounted
    <2>4. Control
      BY <2>1 DEF Init, Control, Alone, Quiet, LastResponse, UnderWay, Active
    <2>5. WritesBetweenTurns
      BY DEF Init, WritesBetweenTurns
    <2> QED
      BY <2>3, <2>4, <2>5, InitTyped DEF Init, SerialInv, Fresh
  <1>2. SerialInv /\ [Next]_vars => Control' /\ WritesBetweenTurns' /\ Accounted'
    <2> SUFFICES ASSUME SerialInv, [Next]_vars
                 PROVE  Control' /\ WritesBetweenTurns' /\ Accounted'
      OBVIOUS
    <2>1. CASE Prompt \/ StartStructural
      BY <2>1, SerialStart
    <2>2. CASE RequestWrite \/ Abort \/ (\E w \in direct : DirectWrite(w))
               \/ \E q \in Queues : Enqueue(q)
      BY <2>2, SerialHost
    <2>3. CASE \E r \in Ops : Step(r) \/ Failure(r)
      BY <2>3, SerialProgress, SerialFailure
    <2>4. CASE UNCHANGED vars
      <3>1. UNCHANGED <<phase, op, pending, direct, session, writes>>
        BY <2>4 DEF vars, guardVars, histVars
      <3>2. Control'
        BY <3>1 DEF SerialInv, Control, Alone, Quiet, LastResponse, UnderWay, Active
      <3> QED
        BY <3>1, <3>2, AccountedQuiet DEF SerialInv, WritesBetweenTurns
    <2> QED
      BY <2>1, <2>2, <2>3, <2>4 DEF Next
  <1>3. SerialInv /\ OneInv' /\ [Next]_vars => SerialInv'
    BY <1>2 DEF SerialInv, OneInv
  <1> QED
    BY <1>1, <1>3, OneAlways, PTL DEF Spec

(* A put-off write never lands between a response and its tool results,     *)
(* for a host that awaits what it starts, whatever fails.                   *)
THEOREM ResultsFollowTheirResponse ==
  ASSUME Host = "serial"
  PROVE  Spec => []WritesBetweenTurns
  <1>1. SerialInv => WritesBetweenTurns
    BY DEF SerialInv
  <1> QED
    BY <1>1, SerialAlways, PTL

(* No write is lost, and none is appended twice, for such a host: those     *)
(* asked for are put off, under way while idle, or in the session, whatever *)
(* flush, hook or listener fails.                                          *)
THEOREM NoWriteLost ==
  ASSUME Host = "serial"
  PROVE  Spec => []WritesOnce
  <1>1. ASSUME SerialInv PROVE WritesOnce
    <2>1. SUFFICES ASSUME NEW w \in 1 .. writes
                   PROVE  /\ \A i, j \in Count(<<"write", w>>) : i = j
                          /\ Count(<<"write", w>>) = {} <=> w \in Elements(pending) \cup direct
      BY DEF WritesOnce
    <2>2. w \in Nat /\ Accounted
      BY <1>1, TypeParts DEF SerialInv, Rest
    <2>3. \A i, j \in Count(<<"write", w>>) : i = j
      <3>1. SUFFICES ASSUME NEW i \in Count(<<"write", w>>), NEW j \in Count(<<"write", w>>)
                     PROVE  i = j
        OBVIOUS
      <3>2. /\ i \in 1 .. Len(session) /\ j \in 1 .. Len(session)
            /\ session[i] = <<"write", w>> /\ session[j] = <<"write", w>>
        BY DEF Count
      <3>3. <<"write", w>>[1] = "write"
        OBVIOUS
      <3> QED
        BY <2>2, <3>2, <3>3 DEF Accounted, SavedOnce
    <2>4. w \in Saved("write") <=> Count(<<"write", w>>) # {}
      BY <2>2 DEF Saved, Count
    <2>5. w \in Saved("write") <=> w \notin Elements(pending) \cup direct
      BY <2>2 DEF Accounted
    <2> QED
      BY <2>3, <2>4, <2>5
  <1> QED
    BY <1>1, SerialAlways, PTL

-----------------------------------------------------------------------------
(* What is left when no operation is under way, for a host that awaits what *)
(* it starts and uses neither compact() nor navigateTree().                 *)

Settled == {"settling", "failSettling", "finally"}

(* An operation under way can only be about to reject because reporting its *)
(* failure failed; and once it has told that it is settled, the harness is  *)
(* idle.                                                                   *)
LoopInv ==
  /\ \A r \in Ops : op[r].pc # "working"
  /\ \A r \in Ops : Active(r) => \/ op[r].outcome = "ok"
                                 \/ op[r].pc = "finally" /\ op[r].outcome = "error"
  /\ \A r \in Ops : op[r].pc \in Settled /\ op[r].outcome = "ok" => phase = "idle"
  /\ (\A r \in Ops : ~Active(r) /\ op[r].outcome \in {"ok", "error"})
       => pending = <<>> /\ phase = "idle"

LEMMA LoopStep ==
  ASSUME SerialInv, LoopInv, NEW r \in Ops, Active(r), NEW pc, NEW hand, NEW w, NEW outcome,
         Becomes(r, pc, hand, w, outcome), pc \notin {"none", "working"},
         pc # "over" => outcome = "ok" \/ (pc = "finally" /\ outcome = "error"),
         pc \in Settled /\ outcome = "ok" => phase' = "idle",
         pc = "over" => \/ outcome \in {"early", "unflushed"}
                        \/ pending' = <<>> /\ phase' = "idle"
  PROVE  LoopInv'
  <1>1. \A s \in Ops : s # r => ~Active(s)
    BY DEF SerialInv, Control, Alone
  <1>2. \A s \in Ops : s # r => ~Active(s)' /\ op'[s].pc \notin Settled
    BY <1>1 DEF Active, Becomes, Settled
  <1>3. \A s \in Ops : op'[s].pc # "working"
    BY DEF LoopInv, Becomes
  <1>4. \A s \in Ops : Active(s)' => \/ op'[s].outcome = "ok"
                                     \/ op'[s].pc = "finally" /\ op'[s].outcome = "error"
    BY <1>2 DEF Active, Becomes
  <1>5. \A s \in Ops : op'[s].pc \in Settled /\ op'[s].outcome = "ok" => phase' = "idle"
    BY <1>2 DEF Becomes
  <1>6. ASSUME \A s \in Ops : ~Active(s)' /\ op'[s].outcome \in {"ok", "error"}
        PROVE  pending' = <<>> /\ phase' = "idle"
    <2>1. ~Active(r)' /\ op'[r].outcome \in {"ok", "error"}
      BY <1>6
    <2> QED
      BY <2>1 DEF Active, Becomes
  <1> QED
    BY <1>3, <1>4, <1>5, <1>6 DEF LoopInv

(* Going on within the loop or its failure path.                            *)
LEMMA LoopMove ==
  ASSUME SerialInv, LoopInv, NEW r \in Ops, NEW src, NEW dst, Moves(r, src, dst),
         {"none", "over", "finally"} \cap src = {},
         {"none", "working", "over"} \cap dst = {},
         dst \cap Settled = {} \/ phase' = "idle"
           \/ (phase' = phase /\ src \subseteq Settled)
  PROVE  LoopInv'
  <1>1. PICK l \in dst : Becomes(r, l, op[r].hand, op[r].writing, op[r].outcome)
    BY DEF Moves
  <1>2. op[r].pc \in src /\ Active(r) /\ op[r].pc # "finally"
    BY DEF Moves, Active
  <1>3. op[r].outcome = "ok"
    BY <1>2 DEF LoopInv
  <1>4. l \in Settled => phase' = "idle"
    BY <1>2, <1>3 DEF LoopInv
  <1> QED
    BY <1>1, <1>2, <1>3, <1>4, LoopStep

LEMMA LoopTake ==
  ASSUME SerialInv, LoopInv, NEW r \in Ops, NEW q \in Queues, NEW n, Take(r, q, n),
         op[r].pc \in {"snapshot", "drain", "drainFollowUp"}
  PROVE  LoopInv'
  <1>1. Becomes(r, "notify", SubSeq(queue[q], 1, n), op[r].writing, op[r].outcome)
    BY TakeTyped DEF SerialInv
  <1>2. Active(r) /\ op[r].outcome = "ok"
    BY DEF Active, LoopInv
  <1> QED
    BY <1>1, <1>2, LoopStep DEF Settled

(* With a message or with a write, an operation stays where it is.          *)
LEMMA LoopHandling ==
  ASSUME SerialInv, LoopInv, NEW r \in Ops,
         PersistMessage(r) \/ FlushFirst(r) \/ FlushNext(r)
  PROVE  LoopInv'
  <1>0. op \in [Ops -> Operation] /\ Rest
    BY TypeParts DEF SerialInv
  <1>1. Active(r)
    BY DEF PersistMessage, FlushFirst, FlushNext, Flushing, Active, SerialInv, Control, UnderWay
  <1>2. \E hand, w : Becomes(r, op[r].pc, hand, w, op[r].outcome)
    BY <1>0, Handling
  <1>3. phase' = phase
    BY DEF PersistMessage, FlushFirst, FlushNext, guardVars
  <1>4. op[r].pc \notin {"none", "working", "over"}
    BY <1>1 DEF LoopInv, Active
  <1>5. op[r].outcome = "ok" \/ (op[r].pc = "finally" /\ op[r].outcome = "error")
    BY <1>1 DEF LoopInv
  <1>6. op[r].pc \in Settled /\ op[r].outcome = "ok" => phase' = "idle"
    BY <1>3 DEF LoopInv
  <1> QED
    BY <1>1, <1>2, <1>4, <1>5, <1>6, LoopStep

LEMMA LoopFailure ==
  ASSUME SerialInv, LoopInv, NEW r \in Ops, Failure(r)
  PROVE  LoopInv'
  <1>0. op \in [Ops -> Operation]
    BY TypeParts DEF SerialInv
  <1>1. Active(r)
    BY DEF Failure, StartFails, NotifyFails, Throw, FailureThrows, FinallyThrows, MayThrow, Active
  <1>2. CASE StartFails(r) \/ (NotifyFails(r) /\ op[r].from = "nextTurn")
    <2>1. Becomes(r, "over", <<>>, op[r].writing, "early")
      BY <1>0, <1>2, Failing
    <2> QED
      BY <1>1, <2>1, LoopStep DEF Settled
  <1>3. CASE (NotifyFails(r) /\ op[r].from # "nextTurn") \/ Throw(r)
    <2>1. op[r].outcome = "ok"
      BY <1>1, <1>3 DEF LoopInv, NotifyFails, Throw, MayThrow
    <2>2. \E w : Becomes(r, "failing", <<>>, w, op[r].outcome)
      BY <1>0, <1>3, Failing
    <2> QED
      BY <1>1, <2>1, <2>2, LoopStep DEF Settled
  <1>4. CASE FailureThrows(r)
    <2>1. Becomes(r, "finally", op[r].hand, 0, "error")
      BY <1>0, <1>4, Failing
    <2> QED
      BY <1>1, <2>1, LoopStep
  <1>5. CASE FinallyThrows(r)
    <2>1. Becomes(r, "over", op[r].hand, 0, "unflushed")
      BY <1>0, <1>5, Failing
    <2> QED
      BY <1>1, <2>1, LoopStep DEF Settled
  <1> QED
    BY <1>2, <1>3, <1>4, <1>5 DEF Failure

LEMMA LoopProgress ==
  ASSUME SerialInv, LoopInv, NEW r \in Ops, Step(r)
  PROVE  LoopInv'
  <1>0. op \in [Ops -> Operation] /\ Rest
    BY TypeParts DEF SerialInv
  <1>1. CASE Snapshot(r)
    <2>1. CASE queue["nextTurn"] = <<>>
      BY <1>0, <1>1, <2>1, Moving, LoopMove DEF Settled
    <2>2. CASE queue["nextTurn"] # <<>>
      BY <1>1, <2>2, LoopTake DEF Snapshot, Queues
    <2> QED
      BY <2>1, <2>2
  <1>2. CASE Notified(r)
    BY <1>0, <1>2, Moving, LoopMove DEF Settled
  <1>3. CASE StartLoop(r)
    BY <1>0, <1>3, Moving, LoopMove DEF Settled
  <1>4. CASE PersistMessage(r) \/ FlushFirst(r) \/ FlushNext(r)
    BY <1>4, LoopHandling
  <1>5. CASE PersistPrompt(r)
    BY <1>0, <1>5, Moving, LoopMove DEF Settled
  <1>6. CASE DrainSteering(r)
    <2>1. CASE queue["steer"] = <<>>
      BY <1>0, <1>6, <2>1, Moving, LoopMove DEF Settled
    <2>2. CASE queue["steer"] # <<>>
      BY <1>6, <2>2, LoopTake DEF DrainSteering, Queues
    <2> QED
      BY <2>1, <2>2
  <1>7. CASE DrainFollowUp(r)
    <2>1. CASE queue["followUp"] = <<>>
      BY <1>0, <1>7, <2>1, Moving, LoopMove DEF Settled
    <2>2. CASE queue["followUp"] # <<>>
      BY <1>7, <2>2, LoopTake DEF DrainFollowUp, Queues
    <2> QED
      BY <2>1, <2>2
  <1>8. CASE Request(r)
    BY <1>0, <1>8, Moving, LoopMove DEF Settled
  <1>9. ASSUME NEW more \in {"tools", "text", "stop"}, Respond(r, more) PROVE LoopInv'
    <2>1. Moves(r, {"stream"}, {"tools", "turnEnd"})
      BY <1>0, <1>9, Moving
    <2> QED
      BY <2>1, LoopMove DEF Settled
  <1>10. ASSUME NEW more \in {"tools", "text"}, PersistResult(r, more) PROVE LoopInv'
    <2>1. Moves(r, {"tools"}, {"turnEnd"})
      BY <1>0, <1>10, Moving
    <2> QED
      BY <2>1, LoopMove DEF Settled
  <1>11. CASE SavePoint(r)
    BY <1>0, <1>11, Moving, LoopMove DEF Settled
  <1>12. CASE PrepareNextTurn(r)
    BY <1>0, <1>12, Moving, LoopMove DEF Settled
  <1>13. CASE AgentEnd(r)
    <2>1. phase' = "idle"
      BY <1>13 DEF AgentEnd, guardVars
    <2> QED
      BY <1>0, <1>13, <2>1, Moving, LoopMove DEF Settled
  <1>14. CASE SettledOk(r)
    <2>1. phase' = phase
      BY <1>14 DEF SettledOk, guardVars
    <2> QED
      BY <1>0, <1>14, <2>1, Moving, LoopMove DEF Settled
  <1>15. CASE Finally(r)
    <2>1. op[r].pc = "finally" /\ Active(r)
      BY <1>15 DEF Finally, Active
    <2>2. pending' = <<>> /\ phase' = IF op[r].outcome = "error" THEN "idle" ELSE phase
      BY <1>15 DEF Finally, Flushed
    <2>3. phase' = "idle"
      BY <2>1, <2>2 DEF LoopInv, Settled
    <2>4. Becomes(r, "over", op[r].hand, op[r].writing, op[r].outcome)
      BY <1>0, <1>15, Moving DEF Moves
    <2> QED
      BY <2>1, <2>2, <2>3, <2>4, LoopStep DEF Settled
  <1>16. CASE RunFailure(r)
    BY <1>0, <1>16, Moving, LoopMove DEF Settled
  <1>17. CASE FailTurnEnd(r)
    BY <1>0, <1>17, Moving, LoopMove DEF Settled
  <1>18. CASE EndStructural(r)
    BY <1>18 DEF EndStructural, LoopInv
  <1> QED
    BY <1>1, <1>2, <1>3, <1>4, <1>5, <1>6, <1>7, <1>8, <1>9, <1>10, <1>11,
       <1>12, <1>13, <1>14, <1>15, <1>16, <1>17, <1>18 DEF Step

LEMMA LoopAlways ==
  ASSUME Host = "serial", Structural = "no"
  PROVE  Spec => []LoopInv
  <1>1. Init => LoopInv
    BY DEF Init, LoopInv, Active, Settled, Idle
  <1>2. SerialInv /\ LoopInv /\ [Next]_vars => LoopInv'
    <2> SUFFICES ASSUME SerialInv, LoopInv, [Next]_vars PROVE LoopInv'
      OBVIOUS
    <2>0. op \in [Ops -> Operation] /\ Rest
      BY TypeParts DEF SerialInv
    <2>1. CASE Prompt
      <3>1. /\ ops' \in Ops /\ ops' > ops /\ \A r \in Ops : ~Active(r)
        BY <2>0, <2>1, Bounds DEF Prompt, MayStart, Rest, Ops
      <3>2. op[ops'].outcome = "ok"
        BY <2>0, <3>1 DEF SerialInv, Fresh, Idle
      <3>3. "snapshot" \in Location
        BY DEF Location
      <3>4. Becomes(ops', "snapshot", op[ops'].hand, op[ops'].writing, op[ops'].outcome)
        BY <2>0, <2>1, <3>1, <3>3, GoBecomes DEF Prompt
      <3>5. \A s \in Ops : s # ops' => ~Active(s)' /\ op'[s].pc \notin Settled
        BY <3>1, <3>4 DEF Active, Becomes, Settled
      <3>6. op'[ops'].pc = "snapshot" /\ op'[ops'].outcome = "ok"
        BY <3>2, <3>4 DEF Becomes
      <3>7. \A s \in Ops : op'[s].pc # "working"
        BY <3>4 DEF LoopInv, Becomes
      <3> QED
        BY <3>1, <3>5, <3>6, <3>7 DEF LoopInv, Active, Settled
    <2>2. CASE StartStructural
      BY <2>2 DEF StartStructural
    <2>3. CASE RequestWrite \/ Abort \/ (\E w \in direct : DirectWrite(w))
               \/ \E q \in Queues : Enqueue(q)
      <3>1. \A r \in Ops : op'[r].pc = op[r].pc /\ op'[r].outcome = op[r].outcome
        BY <2>0, <2>3, AbortKeeps DEF RequestWrite, DirectWrite, Enqueue
      <3>2. phase' = phase /\ (phase = "idle" => pending' = pending)
        BY <2>3 DEF RequestWrite, Abort, DirectWrite, Enqueue, guardVars
      <3> QED
        BY <3>1, <3>2 DEF LoopInv, Active
    <2>4. CASE \E r \in Ops : Step(r) \/ Failure(r)
      BY <2>4, LoopProgress, LoopFailure
    <2>5. CASE UNCHANGED vars
      BY <2>5 DEF vars, guardVars, LoopInv, Active
    <2> QED
      BY <2>1, <2>2, <2>3, <2>4, <2>5 DEF Next
  <1> QED
    BY <1>1, <1>2, SerialAlways, PTL DEF Spec

(* With no operation under way nothing is left pending by those that        *)
(* entered their loop, for such a host, however they ended.                 *)
THEOREM LoopsLeaveNothing ==
  ASSUME Host = "serial", Structural = "no"
  PROVE  Spec => []NothingLeftByLoops
  <1>1. LoopInv => NothingLeftByLoops
    BY DEF LoopInv, NothingLeftByLoops
  <1> QED
    BY <1>1, LoopAlways, PTL
=============================================================================
