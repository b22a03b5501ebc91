---------------------------- MODULE EventStream ----------------------------
(***************************************************************************)
(* The event stream every provider returns and the agent loop iterates     *)
(* (packages/ai/src/utils/event-stream.ts).  A producer pushes events and   *)
(* ends the stream; any number of consumers iterate it with `for await`.    *)
(*                                                                         *)
(* Events are numbered in the order in which the stream accepts them, so    *)
(* `accepted' is both how many were accepted and the name of the newest.    *)
(* Everything between two awaits is one step.                               *)
(***************************************************************************)
EXTENDS Naturals, Sequences, Functions

CONSTANTS Consumers,      \* the async iterators opened on the stream
          MaxPushes       \* bound: how often push() is called

ASSUME PushBound == MaxPushes \in Nat

VARIABLES queue,      \* events nobody took yet
          waiting,    \* consumers whose next() found the queue empty
          stream,     \* "open"; "done" by a completing event; "ended" by end()
          settledBy,  \* what resolved result(): nothing yet, an event, end()
          offered,    \* push() calls so far
          accepted,   \* events accepted so far
          completing, \* history: the completing event accepted, or 0
          consumer,   \* what each consumer does
          delivered   \* history: which event was handed to whom, in order

streamVars == <<queue, waiting, stream, settledBy, offered, accepted,
                completing, consumer, delivered>>

StreamTypeOK ==
    /\ queue \in Seq(1 .. MaxPushes)
    /\ waiting \in Seq(Consumers)
    /\ stream \in {"open", "done", "ended"}
    /\ completing \in 0 .. MaxPushes
    /\ settledBy \in {"nothing", "event", "end"}
    /\ offered \in 0 .. MaxPushes /\ accepted \in 0 .. offered
    /\ consumer \in [Consumers -> {"busy", "waiting", "finished"}]
    /\ delivered \in Seq([to : Consumers, event : 1 .. MaxPushes])

StreamInit ==
    /\ queue = <<>> /\ waiting = <<>>
    /\ stream = "open"
    /\ settledBy = "nothing"
    /\ offered = 0 /\ accepted = 0 /\ completing = 0
    /\ consumer = [c \in Consumers |-> "busy"]
    /\ delivered = <<>>

-----------------------------------------------------------------------------
Hand(c, e) == delivered' = Append(delivered, [to |-> c, event |-> e])

(* Mutant: a later resolution overwrites the result.                        *)
ResolveAgain(by) == settledBy' = by

(* A promise resolves once; later resolutions are ignored.                  *)
Resolve(by) == settledBy' = IF settledBy = "nothing" THEN by ELSE settledBy

(* push(event) after the stream is done returns at once.                    *)
PushIgnored ==
    /\ stream # "open"
    /\ offered < MaxPushes
    /\ offered' = offered + 1
    /\ UNCHANGED <<queue, waiting, stream, settledBy, accepted, completing,
                   consumer, delivered>>

(* Mutant: push() queues without looking for a waiter.                      *)
PushWithoutWaking(completes) ==
    /\ stream = "open" /\ offered < MaxPushes
    /\ offered' = offered + 1 /\ accepted' = accepted + 1
    /\ queue' = Append(queue, accepted + 1)
    /\ UNCHANGED <<waiting, stream, settledBy, completing, consumer, delivered>>

(* Mutant: push() queues the event and hands it to a waiter as well.        *)
PushTwice(completes) ==
    LET e == accepted + 1 IN
    /\ stream = "open" /\ offered < MaxPushes /\ waiting # <<>>
    /\ offered' = offered + 1 /\ accepted' = e
    /\ queue' = Append(queue, e)
    /\ waiting' = Tail(waiting)
    /\ consumer' = [consumer EXCEPT ![Head(waiting)] = "busy"]
    /\ Hand(Head(waiting), e)
    /\ UNCHANGED <<stream, settledBy, completing>>

(* push(event): the oldest waiter gets the event, else it is queued.        *)
PushAccepted(completes) ==
    LET e == accepted + 1 IN
    /\ stream = "open"
    /\ offered < MaxPushes
    /\ offered' = offered + 1
    /\ accepted' = e
    /\ IF completes
          THEN stream' = "done" /\ completing' = e /\ Resolve("event")
          ELSE UNCHANGED <<stream, completing, settledBy>>
    /\ IF waiting # <<>>
          THEN /\ waiting' = Tail(waiting)
               /\ consumer' = [consumer EXCEPT ![Head(waiting)] = "busy"]
               /\ Hand(Head(waiting), e)
               /\ UNCHANGED queue
          ELSE /\ queue' = Append(queue, e)
               /\ UNCHANGED <<waiting, consumer, delivered>>

(* Mutant: end() forgets the waiters.                                       *)
EndWithoutWaking(withResult) ==
    /\ stream' = "ended"
    /\ IF withResult THEN Resolve("end") ELSE UNCHANGED settledBy
    /\ UNCHANGED <<queue, waiting, offered, accepted, completing, consumer,
                   delivered>>

(* end(result?): every waiter is told that the stream is over.              *)
End(withResult) ==
    /\ stream' = "ended"
    /\ IF withResult THEN Resolve("end") ELSE UNCHANGED settledBy
    /\ waiting' = <<>>
    /\ consumer' = [c \in Consumers |->
                   IF c \in Range(waiting) THEN "finished" ELSE consumer[c]]
    /\ UNCHANGED <<queue, offered, accepted, completing, delivered>>

(* One round of the async generator, when its consumer asks for an event.   *)
TakeQueued(c) ==
    /\ consumer[c] = "busy"
    /\ queue # <<>>
    /\ queue' = Tail(queue)
    /\ Hand(c, Head(queue))
    /\ UNCHANGED <<waiting, stream, settledBy, offered, accepted,
                   completing, consumer>>

Finish(c) ==
    /\ consumer[c] = "busy"
    /\ queue = <<>>
    /\ stream # "open"
    /\ consumer' = [consumer EXCEPT ![c] = "finished"]
    /\ UNCHANGED <<queue, waiting, stream, settledBy, offered, accepted,
                   completing, delivered>>

Wait(c) ==
    /\ consumer[c] = "busy"
    /\ queue = <<>>
    /\ stream = "open"
    /\ waiting' = Append(waiting, c)
    /\ consumer' = [consumer EXCEPT ![c] = "waiting"]
    /\ UNCHANGED <<queue, stream, settledBy, offered, accepted, completing,
                   delivered>>

(* The consumer returns out of its loop (agent-loop.ts returns on "done").  *)
Leave(c) ==
    /\ consumer[c] = "busy"
    /\ consumer' = [consumer EXCEPT ![c] = "finished"]
    /\ UNCHANGED <<queue, waiting, stream, settledBy, offered, accepted,
                   completing, delivered>>

Ask(c) == TakeQueued(c) \/ Finish(c) \/ Wait(c)

EndAny == \E withResult \in BOOLEAN : End(withResult)

StreamNext ==
    \/ PushIgnored
    \/ \E completes \in BOOLEAN : PushAccepted(completes)
    \/ EndAny
    \/ \E c \in Consumers : Ask(c) \/ Leave(c)

StreamSpec == StreamInit /\ [][StreamNext]_streamVars

(* Consumers keep asking; the producer ends the stream it opened, as every  *)
(* provider does after its last event.                                     *)
StreamFairSpec ==
    /\ StreamSpec
    /\ \A c \in Consumers : WF_streamVars(Ask(c))
    /\ WF_streamVars(stream # "ended" /\ EndAny)

-----------------------------------------------------------------------------
(* push/shift hand out every accepted event exactly once and in the order   *)
(* of acceptance: the i-th event handed out is the i-th accepted, whichever *)
(* of queue and waiters it went through, and the queue holds the rest.      *)
EachEventOnce ==
    /\ accepted = Len(delivered) + Len(queue)
    /\ \A i \in 1 .. Len(delivered) : delivered[i].event = i
    /\ \A i \in 1 .. Len(queue) : queue[i] = Len(delivered) + i

(* No lost wake-up: a consumer never sleeps beside a queued event, nor on a *)
(* stream that end() closed.                                                *)
NoLostWakeup ==
    /\ \A c \in Consumers : consumer[c] = "waiting" <=> c \in Range(waiting)
    /\ waiting # <<>> => queue = <<>> /\ stream # "ended"

(* The completing event is the last one accepted, and result() is its       *)
(* message whatever end(result) is given afterwards.                        *)
CompletionIsFinal ==
    completing # 0 =>
        /\ accepted = completing
        /\ settledBy = "event"
        /\ stream # "open"

(* A stream that is ended releases its consumers once they have drained it. *)
EndReleases ==
    (stream = "ended") ~> \A c \in Consumers : consumer[c] = "finished"
=============================================================================
