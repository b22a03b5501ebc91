------------------------- MODULE AgentSession_proofs -------------------------
(***************************************************************************)
(* The chain of runs, retries and compactions of a prompt, for every number *)
(* of prompts, retries and messages: type correctness, that the result of   *)
(* every shell command is kept exactly once, the bound on failures in a     *)
(* row, that tool results directly follow their calls, and that the context *)
(* of the agent is what a reload of the session would give.                 *)
(***************************************************************************)
EXTENDS AgentSession, FiniteSetTheorems, SequenceTheorems, WellFoundedInduction, TLAPS

-----------------------------------------------------------------------------
(* Sequences and sets of positions.                                         *)

Shell == {m \in Message : m.role = "bash"}

LEMMA ConcatIs ==
    ASSUME NEW S, NEW s \in Seq(S), NEW t \in Seq(S)
    PROVE  /\ s \o t \in Seq(S) /\ Len(s \o t) = Len(s) + Len(t)
           /\ \A i \in 1 .. Len(s) : (s \o t)[i] = s[i]
           /\ \A i \in 1 .. Len(t) : (s \o t)[Len(s) + i] = t[i]
           /\ \A k \in 1 .. Len(s \o t) :
                 k \in 1 .. Len(s) \/ \E i \in 1 .. Len(t) : k = Len(s) + i
<1> DEFINE r == s \o t
           n == Len(s)
           h == Len(t)
<1>1. /\ r \in Seq(S) /\ Len(r) = n + h
      /\ \A i \in 1 .. n + h : r[i] = IF i <= n THEN s[i] ELSE t[i - n]
  BY ConcatProperties
<1>2. n \in Nat /\ h \in Nat
  BY LenProperties
<1>. HIDE DEF r, n, h
<1>3. \A i \in 1 .. n : i \in 1 .. n + h /\ i <= n
  BY <1>2
<1>4. \A i \in 1 .. h : n + i \in 1 .. n + h /\ ~(n + i <= n) /\ (n + i) - n = i
  BY <1>2
<1>5. \A k \in 1 .. n + h : k \in 1 .. n \/ (k - n \in 1 .. h /\ k = n + (k - n))
  BY <1>2
<1>6. \A i \in 1 .. n : r[i] = s[i]
  BY <1>1, <1>3
<1>7. \A i \in 1 .. h : r[n + i] = t[i]
  BY <1>1, <1>4
<1>. QED  BY <1>1, <1>5, <1>6, <1>7 DEF r, n, h

(* The positions of shell results in a log.                                 *)
BashIn(l) == {i \in DOMAIN l : l[i].role = "bash"}

LEMMA BashFinite ==
    ASSUME NEW s \in Seq(Message)
    PROVE  IsFiniteSet(BashIn(s)) /\ Cardinality(BashIn(s)) \in Nat
<1>1. Len(s) \in Nat /\ DOMAIN s = 1 .. Len(s)
  BY LenProperties
<1>2. IsFiniteSet(1 .. Len(s))
  BY <1>1, FS_Interval
<1>3. BashIn(s) \in SUBSET (1 .. Len(s))
  BY <1>1 DEF BashIn
<1>4. IsFiniteSet(BashIn(s))
  BY <1>2, <1>3, FS_Subset
<1>. QED  BY <1>4, FS_CardinalityType

(* Entries that are no shell results add none; shell results are added.     *)
LEMMA BashConcat ==
    ASSUME NEW s \in Seq(Message), NEW t \in Seq(Message)
    PROVE  /\ (\A i \in 1 .. Len(t) : t[i].role # "bash") =>
                 BashIn(s \o t) = BashIn(s)
           /\ (\A i \in 1 .. Len(t) : t[i].role = "bash") =>
                 Cardinality(BashIn(s \o t)) = Cardinality(BashIn(s)) + Len(t)
<1> DEFINE r == s \o t
           n == Len(s)
           h == Len(t)
<1>1. /\ r \in Seq(Message) /\ Len(r) = n + h
      /\ \A i \in 1 .. n : r[i] = s[i]
      /\ \A i \in 1 .. h : r[n + i] = t[i]
      /\ \A k \in 1 .. n + h : k \in 1 .. n \/ \E i \in 1 .. h : k = n + i
  <2>. HIDE DEF Message
  <2>. QED  BY ConcatIs
<1>2. /\ n \in Nat /\ h \in Nat
      /\ DOMAIN s = 1 .. n /\ DOMAIN r = 1 .. n + h
  BY <1>1, LenProperties
<1>. HIDE DEF r, n, h
<1>3. ASSUME \A i \in 1 .. h : t[i].role # "bash" PROVE BashIn(r) = BashIn(s)
  <2>1. \A k \in 1 .. n : k \in 1 .. n + h
    BY <1>2
  <2>2. \A k \in 1 .. n : k \in BashIn(r) <=> k \in BashIn(s)
    BY <1>1, <1>2, <2>1 DEF BashIn
  <2>3. BashIn(s) \subseteq 1 .. n /\ BashIn(r) \subseteq 1 .. n + h
    BY <1>2 DEF BashIn
  <2>4. \A k \in BashIn(r) : k \in 1 .. n
    BY <1>1, <1>3, <2>3 DEF BashIn
  <2>. QED  BY <2>2, <2>3, <2>4
<1>4. ASSUME \A i \in 1 .. h : t[i].role = "bash"
      PROVE  Cardinality(BashIn(r)) = Cardinality(BashIn(s)) + h
  <2>0. \A k \in 1 .. n : k \in 1 .. n + h
    BY <1>2
  <2>1. \A k \in n + 1 .. n + h : k - n \in 1 .. h /\ n + (k - n) = k
                                  /\ k \in 1 .. n + h /\ k \notin 1 .. n
    BY <1>2
  <2>2. \A i \in 1 .. h : n + i \in n + 1 .. n + h
    BY <1>2
  <2>3. BashIn(r) = BashIn(s) \cup (n + 1 .. n + h)
    <3>1. \A k \in n + 1 .. n + h : r[k].role = "bash"
      BY <1>1, <1>4, <2>1
    <3>. QED  BY <1>1, <1>2, <2>0, <2>1, <2>2, <3>1 DEF BashIn
  <2>4. BashIn(s) \cap (n + 1 .. n + h) = {}
    BY <1>2, <2>1 DEF BashIn
  <2>5. IsFiniteSet(n + 1 .. n + h) /\ Cardinality(n + 1 .. n + h) = h
    <3>1. n + 1 \in Int /\ n + h \in Int
      BY <1>2
    <3>2. /\ IsFiniteSet(n + 1 .. n + h)
          /\ Cardinality(n + 1 .. n + h) =
                IF n + 1 > n + h THEN 0 ELSE (n + h) - (n + 1) + 1
      BY <3>1, FS_Interval
    <3>. QED  BY <1>2, <3>2
  <2>6. IsFiniteSet(BashIn(s)) /\ Cardinality(BashIn(s)) \in Nat
    BY BashFinite
  <2>7. Cardinality(BashIn(s) \cup (n + 1 .. n + h)) =
           Cardinality(BashIn(s)) + h - Cardinality({})
    <3> DEFINE P == BashIn(s)
               Q == n + 1 .. n + h
    <3>1. IsFiniteSet(P) /\ IsFiniteSet(Q) /\ Cardinality(Q) = h /\ P \cap Q = {}
      BY <2>4, <2>5, <2>6
    <3>. HIDE DEF P, Q
    <3>2. Cardinality(P \cup Q) = Cardinality(P) + Cardinality(Q) - Cardinality(P \cap Q)
      BY <3>1, FS_Union
    <3>. QED  BY <3>1, <3>2 DEF P, Q
  <2>8. Cardinality({}) = 0
    BY FS_EmptySet
  <2>9. \A b \in Nat : b + h - 0 = b + h
    BY <1>2
  <2>. QED  BY <2>3, <2>6, <2>7, <2>8, <2>9
<1>. QED  BY <1>3, <1>4 DEF r, n, h

(* The errors of a log since the last message that ends a row.              *)
LEMMA RowFinite ==
    ASSUME NEW s \in Seq(Message)
    PROVE  /\ IsFiniteSet(FailuresInRow(s)) /\ Cardinality(FailuresInRow(s)) \in Nat
           /\ FailuresInRow(s) \subseteq 1 .. Len(s)
<1>1. Len(s) \in Nat /\ DOMAIN s = 1 .. Len(s)
  BY LenProperties
<1>2. IsFiniteSet(1 .. Len(s))
  BY <1>1, FS_Interval
<1>3. FailuresInRow(s) \in SUBSET (1 .. Len(s))
  BY <1>1 DEF FailuresInRow
<1>4. IsFiniteSet(FailuresInRow(s))
  BY <1>2, <1>3, FS_Subset
<1>. QED  BY <1>3, <1>4, FS_CardinalityType

(* Entries that neither fail nor end a row do not change it; one that ends  *)
(* it empties it; an error makes it longer by one.                          *)
LEMMA RowConcat ==
    ASSUME NEW s \in Seq(Message), NEW t \in Seq(Message)
    PROVE  /\ (\A i \in 1 .. Len(t) : ~IsError(t[i]) /\ ~EndsRow(t[i])) =>
                 FailuresInRow(s \o t) = FailuresInRow(s)
           /\ (/\ \A i \in 1 .. Len(t) : ~IsError(t[i])
               /\ \E i \in 1 .. Len(t) : EndsRow(t[i])) =>
                 FailuresInRow(s \o t) = {}
           /\ (Len(t) = 1 /\ IsError(t[1])) =>
                 Cardinality(FailuresInRow(s \o t)) =
                    Cardinality(FailuresInRow(s)) + 1
<1> DEFINE r == s \o t
           n == Len(s)
           h == Len(t)
<1>1. /\ r \in Seq(Message) /\ Len(r) = n + h
      /\ \A i \in 1 .. n : r[i] = s[i]
      /\ \A i \in 1 .. h : r[n + i] = t[i]
      /\ \A k \in 1 .. n + h : k \in 1 .. n \/ \E i \in 1 .. h : k = n + i
  <2>. HIDE DEF Message
  <2>. QED  BY ConcatIs
<1>2. /\ n \in Nat /\ h \in Nat
      /\ DOMAIN s = 1 .. n /\ DOMAIN r = 1 .. n + h
  BY <1>1, LenProperties
<1>. HIDE DEF r, n, h
<1>3. /\ \A k \in 1 .. n : k \in 1 .. n + h
      /\ \A i \in 1 .. h : n + i \in 1 .. n + h /\ ~(n + i \in 1 .. n)
      /\ \A k \in 1 .. n : \A i \in 1 .. h : ~(n + i < k)
  BY <1>2
<1>4. ASSUME \A i \in 1 .. h : ~IsError(t[i]) /\ ~EndsRow(t[i])
      PROVE  FailuresInRow(r) = FailuresInRow(s)
  <2>1. ASSUME NEW k, k \in FailuresInRow(r) PROVE k \in FailuresInRow(s)
    <3>1. k \in 1 .. n
      BY <1>1, <1>2, <1>4, <2>1 DEF FailuresInRow
    <3>. QED  BY <1>1, <1>2, <1>3, <2>1, <3>1 DEF FailuresInRow
  <2>2. ASSUME NEW k, k \in FailuresInRow(s) PROVE k \in FailuresInRow(r)
    <3>1. k \in 1 .. n /\ k \in 1 .. n + h /\ IsError(r[k])
      BY <1>1, <1>2, <1>3, <2>2 DEF FailuresInRow
    <3>2. ASSUME NEW j \in 1 .. n + h, EndsRow(r[j]) PROVE j < k
      <4>1. j \in 1 .. n
        BY <1>1, <1>4, <3>2
      <4>. QED  BY <1>1, <1>2, <2>2, <3>2, <4>1 DEF FailuresInRow
    <3>. QED  BY <1>2, <3>1, <3>2 DEF FailuresInRow
  <2>. QED  BY <2>1, <2>2
<1>5. ASSUME \A i \in 1 .. h : ~IsError(t[i]), NEW i \in 1 .. h, EndsRow(t[i])
      PROVE  FailuresInRow(r) = {}
  <2> SUFFICES ASSUME NEW k, k \in FailuresInRow(r) PROVE FALSE
    OBVIOUS
  <2>0. k \in 1 .. n + h /\ IsError(r[k])
    BY <1>2 DEF FailuresInRow
  <2>1. k \in 1 .. n
    BY <1>1, <1>5, <2>0
  <2>2. EndsRow(r[n + i]) /\ n + i \in 1 .. n + h
    BY <1>1, <1>3, <1>5
  <2>3. n + i < k
    BY <1>2, <2>2 DEF FailuresInRow
  <2>. QED  BY <1>3, <2>1, <2>3
<1>6. ASSUME h = 1, IsError(t[1])
      PROVE  Cardinality(FailuresInRow(r)) = Cardinality(FailuresInRow(s)) + 1
  <2>1. 1 \in 1 .. h /\ \A i \in 1 .. h : i = 1
    BY <1>6
  <2>2. r[n + 1] = t[1] /\ ~EndsRow(t[1])
    BY <1>1, <1>6, <2>1 DEF EndsRow, IsError, IsAnswer
  <2>3. n + 1 \in 1 .. n + h /\ n + 1 \notin 1 .. n /\ \A k \in 1 .. n : k < n + 1
    BY <1>2, <1>6
  <2>4. \A k \in 1 .. n + h : k \in 1 .. n \/ k = n + 1
    BY <1>1, <2>1
  <2>5. FailuresInRow(r) = FailuresInRow(s) \cup {n + 1}
    <3>1. \A j \in 1 .. n + h : EndsRow(r[j]) <=> j \in 1 .. n /\ EndsRow(s[j])
      BY <1>1, <2>2, <2>4
    <3>2. \A k \in 1 .. n + h :
             k \in FailuresInRow(r) <=>
                IsError(r[k]) /\ \A j \in 1 .. n : EndsRow(s[j]) => j < k
      BY <1>2, <1>3, <3>1 DEF FailuresInRow
    <3>3. \A k \in 1 .. n : k \in FailuresInRow(r) <=> k \in FailuresInRow(s)
      BY <1>1, <1>2, <1>3, <3>2 DEF FailuresInRow
    <3>4. n + 1 \in FailuresInRow(r)
      BY <1>6, <2>2, <2>3, <3>2
    <3>5. FailuresInRow(r) \subseteq 1 .. n + h /\ FailuresInRow(s) \subseteq 1 .. n
      BY <1>2 DEF FailuresInRow
    <3>. QED  BY <1>3, <2>4, <3>3, <3>4, <3>5
  <2>6. n + 1 \notin FailuresInRow(s)
    BY <1>2, <2>3 DEF FailuresInRow
  <2>7. IsFiniteSet(FailuresInRow(s))
    BY RowFinite
  <2>. QED  BY <2>5, <2>6, <2>7, FS_AddElement
<1>7. (\A i \in 1 .. h : ~IsError(t[i])) /\ (\E i \in 1 .. h : EndsRow(t[i])) =>
         FailuresInRow(r) = {}
  BY <1>5
<1>. QED  BY <1>4, <1>6, <1>7 DEF r, n, h

(* The first and the last of a set of positions.                            *)
FirstOf(S) == CHOOSE i \in S : \A j \in S : i <= j

LEMMA FirstIs ==
    ASSUME NEW S, S \subseteq Nat, S # {}
    PROVE  FirstOf(S) \in S /\ \A j \in S : FirstOf(S) <= j
<1>1. \E x \in S : \A y \in S : ~(<<y, x>> \in OpToRel(<, Nat))
  BY NatLessThanWellFounded, WFMin
<1>2. PICK x \in S : \A y \in S : ~(<<y, x>> \in OpToRel(<, Nat))
  BY <1>1
<1>3. \A y \in S : ~(y < x)
  BY <1>2 DEF OpToRel
<1>4. \A y \in S : x <= y
  BY <1>3
<1>. QED  BY <1>4 DEF FirstOf

LEMMA LastIs ==
    ASSUME NEW n \in Nat, NEW S, S \subseteq 1 .. n, S # {}
    PROVE  LastOf(S) \in S /\ \A j \in S : j <= LastOf(S)
<1> DEFINE T == {n - i : i \in S}
<1>1. T \subseteq Nat /\ T # {}
  <2>1. \A i \in S : n - i \in Nat
    OBVIOUS
  <2>. QED  BY <2>1
<1>2. FirstOf(T) \in T /\ \A j \in T : FirstOf(T) <= j
  BY <1>1, FirstIs
<1>3. PICK x \in S : \A j \in S : n - x <= n - j
  BY <1>2
<1>4. \A j \in S : j <= x
  BY <1>3
<1>. QED  BY <1>4 DEF LastOf

LEMMA LogElement ==
    ASSUME NEW s \in Seq(Message), NEW i \in DOMAIN s
    PROVE  s[i] \in Message /\ i \in 1 .. Len(s) /\ Len(s) \in Nat
<1>. HIDE DEF Message
<1>. QED  BY LenProperties, ElementOfSeq

LEMMA MessageIs ==
    ASSUME NEW role \in {"none", "user", "assistant", "result", "bash", "compaction",
                         "summary"},
           NEW stop \in Stops \cup {"none"}, NEW n \in Nat
    PROVE  Msg(role, stop, n) \in Message
  BY DEF Msg, Message

LEMMA KeepIs ==
    ASSUME NEW keep, log \in Seq(Message), keep \in KeepFrom PROVE keep \in Nat
<1> DEFINE start == IF CompactionsIn(log) = {} THEN 1
                    ELSE log[LastOf(CompactionsIn(log))].n
           cuts == {i \in start .. Len(log) :
                       log[i].role \in {"user", "assistant", "bash"}}
<1>1. start \in Nat
  <2>1. CASE CompactionsIn(log) # {}
    <3>1. Len(log) \in Nat /\ DOMAIN log = 1 .. Len(log)
      BY LenProperties
    <3>2. LastOf(CompactionsIn(log)) \in DOMAIN log
      BY <2>1, <3>1, LastIs DEF CompactionsIn
    <3>3. log[LastOf(CompactionsIn(log))] \in Message
      BY <3>2, LogElement
    <3>. QED  BY <2>1, <3>3 DEF Message
  <2>. QED  BY <2>1
<1>2. Len(log) \in Nat
  BY LenProperties
<1>. HIDE DEF start
<1>3. cuts = {} => keep = start
  BY DEF KeepFrom, start
<1>4. cuts # {} => keep \in cuts
  BY DEF KeepFrom, start
<1>5. cuts \subseteq Nat
  BY <1>1, <1>2
<1>. QED  BY <1>1, <1>3, <1>4, <1>5

-----------------------------------------------------------------------------
(* What the operations of a chain do to the session, whatever context they  *)
(* are given.                                                               *)

(* Hear, without the context.                                               *)
Heard(l, ms, t, a) ==
    LET fine == \E i \in DOMAIN ms : IsAnswer(ms[i]) /\ ~IsError(ms[i])
        ends == \E i \in DOMAIN ms : EndsRow(ms[i])
    IN  \/ /\ connected = "yes" /\ log' = l \o ms
           /\ tried' = IF ends THEN "no" ELSE t
           /\ attempt' = IF fine THEN 0 ELSE a
           /\ missed' = missed
        \/ /\ connected # "yes" /\ log' = l /\ tried' = t /\ attempt' = a
           /\ missed' = IF ms = <<>> THEN missed ELSE "yes"

LEMMA HearIs ==
    ASSUME NEW x, NEW l, NEW ms, NEW t, NEW a, Hear(x, l, ms, t, a)
    PROVE  Heard(l, ms, t, a)
  BY DEF Hear, Heard, EndsRow

(* The chain ends, or goes on to the user's message.                        *)
Ended(c, l, t, a) ==
    /\ log' = l \o pending /\ pending' = <<>>
    /\ tried' = t /\ attempt' = a /\ missed' = missed
    /\ \E pc \in {"done", "failed", "sending"} : Goto(c, pc, "no")
    /\ UNCHANGED <<queue, run>>

(* The agent is called again.                                               *)
Resumed(c, l, t, a) ==
    /\ ~Streaming /\ CallModel(c)
    /\ \E pre \in {"no", "loop"} : Goto(c, "running", pre)
    /\ Heard(l, Poll, t, a) /\ Polled /\ pending' = pending

(* A compaction begins.                                                     *)
Compacting(c, t, a) ==
    /\ \E keep \in Nat, why \in {"overflow", "threshold"} :
          /\ chain' = [chain EXCEPT ![c] = [@ EXCEPT !.pc = "compacting", !.why = why,
                                                     !.keep = keep, !.msg = None]]
          /\ why = "overflow" => tried = "no" /\ t = "yes"
          /\ CanCompact /\ keep \in KeepFrom
    /\ tried' = t /\ attempt' = a
    /\ UNCHANGED <<queue, run, log, pending, missed>>

LEMMA EndIs ==
    ASSUME NEW c, NEW pc \in {"done", "failed", "sending"}, NEW x, NEW l \in Seq(Message),
           NEW t, NEW a, pending \in Seq(Message), End(c, pc, x, l, t, a)
    PROVE  Ended(c, l, t, a)
<1> DEFINE m == l \o pending
<1>1. Hear(x \o pending, m, <<>>, t, a) /\ Goto(c, pc, "no")
      /\ pending' = <<>> /\ UNCHANGED <<queue, run>>
  BY DEF End
<1>2. m \in Seq(Message) /\ m \o <<>> = m
  BY ConcatProperties, ConcatEmptySeq
<1>. HIDE DEF m
<1>3. Heard(m, <<>>, t, a)
  BY <1>1, HearIs
<1>4. DOMAIN <<>> = {}
  OBVIOUS
<1>5. log' = m /\ tried' = t /\ attempt' = a /\ missed' = missed
  BY <1>2, <1>3, <1>4 DEF Heard
<1>. QED  BY <1>1, <1>5 DEF Ended, m

LEMMA ContinueIs ==
    ASSUME NEW c, NEW x, NEW l \in Seq(Message),
           NEW t, NEW a, pending \in Seq(Message), Continue(c, x, l, t, a)
    PROVE  Ended(c, l, t, a) \/ Resumed(c, l, t, a)
<1>1. CASE ~CanContinue(x)
  BY <1>1, EndIs DEF Continue
<1>2. CASE CanContinue(x)
  <2>1. /\ ~Streaming /\ CallModel(c)
        /\ Goto(c, "running", IF chain[c].pre = "no" THEN "no" ELSE "loop")
        /\ Hear(x, l, Poll, t, a) /\ Polled /\ pending' = pending
    BY <1>2 DEF Continue, CanContinue
  <2>2. Heard(l, Poll, t, a)
    BY <2>1, HearIs
  <2>3. \E pre \in {"no", "loop"} : Goto(c, "running", pre)
    BY <2>1
  <2>. QED  BY <2>1, <2>2, <2>3 DEF Resumed
<1>. QED  BY <1>1, <1>2

LEMMA GoOnIs ==
    ASSUME NEW c, NEW x, NEW l \in Seq(Message),
           NEW t, NEW a, pending \in Seq(Message), GoOn(c, x, l, t, a)
    PROVE  Ended(c, l, t, a) \/ (queue > 0 /\ Resumed(c, l, t, a))
<1>1. CASE chain[c].pre # "first" /\ queue > 0
  BY <1>1, ContinueIs DEF GoOn
<1>2. CASE ~(chain[c].pre # "first" /\ queue > 0)
  BY <1>2, EndIs DEF GoOn, Finish
<1>. QED  BY <1>1, <1>2

LEMMA StartCompactionIs ==
    ASSUME NEW c, NEW why \in {"overflow", "threshold"}, NEW t, NEW a,
           log \in Seq(Message), StartCompaction(c, why), tried' = t, attempt' = a,
           CanCompact, why = "overflow" => tried = "no" /\ t = "yes"
    PROVE  Compacting(c, t, a)
<1>1. PICK keep \in KeepFrom :
         chain' = [chain EXCEPT ![c] = [@ EXCEPT !.pc = "compacting", !.why = why,
                                                 !.keep = keep, !.msg = None]]
  BY DEF StartCompaction
<1>2. keep \in Nat
  BY KeepIs
<1>. QED  BY <1>1, <1>2 DEF StartCompaction, Compacting

LEMMA CheckIs ==
    ASSUME NEW c, NEW msg, NEW a, log \in Seq(Message), pending \in Seq(Message),
           Check(c, msg, a)
    PROVE  \E t \in {tried, "yes"} :
              \/ Ended(c, log, t, a)
              \/ queue > 0 /\ Resumed(c, log, t, a)
              \/ Compacting(c, t, a)
<1> DEFINE first == Need(msg) = "overflow" /\ tried = "no" /\ CanCompact
           second == Need(msg) = "overflow" /\ tried = "no" /\ ~CanCompact
           third == Need(msg) = "threshold" /\ CanCompact
<1>1. CASE first
  <2>1. tried' = "yes" /\ attempt' = a /\ StartCompaction(c, "overflow")
    BY <1>1 DEF Check
  <2>. QED  BY <1>1, <2>1, StartCompactionIs
<1>2. CASE second
  <2>1. GoOn(c, WithoutLastAnswer(ctx), log, "yes", a)
    BY <1>2 DEF Check
  <2>. QED  BY <2>1, GoOnIs
<1>3. CASE third
  <2>1. attempt' = a /\ tried' = tried /\ StartCompaction(c, "threshold")
    BY <1>3 DEF Check
  <2>. QED  BY <1>3, <2>1, StartCompactionIs
<1>4. CASE ~first /\ ~second /\ ~third
  <2>1. GoOn(c, ctx, log, tried, a)
    BY <1>4 DEF Check
  <2>. QED  BY <2>1, GoOnIs
<1>. QED  BY <1>1, <1>2, <1>3, <1>4

-----------------------------------------------------------------------------
(* Types.                                                                   *)

(* The session and its counts.                                              *)
LogOK ==
    /\ queue \in Nat /\ attempt \in 0 .. MaxRetries
    /\ {tried, missed} \subseteq {"yes", "no"}
    /\ log \in Seq(Message) /\ last \in Message /\ pending \in Seq(Shell)

(* The run, the chains and compact().                                       *)
ControlOK ==
    /\ connected \in {"yes", "no"}
    /\ run \in Run /\ chain \in [Chains -> Chain]
    /\ controller \in 0 .. Prompts
    /\ manual \in [pc : {"none", "waiting", "ready", "summarising"}, keep : Nat]
    /\ \A c \in Chains : (chain[c].pc = "running") <=> (Streaming /\ run.chain = c)
    /\ Streaming => run.chain \in Chains
    /\ controller # 0 => chain[controller].pc = "sleeping"
    /\ (connected = "no") <=> (manual.pc # "none")

DoneOK ==
    done \in [{"steers", "bashes", "aborts", "compacts", "tools", "failures"} -> Nat]

LEMMA TypeParts == TypeOK <=> LogOK /\ ControlOK /\ DoneOK
<1>. HIDE DEF Message, Run, Chain
<1>. QED  BY DEF TypeOK, LogOK, ControlOK, DoneOK, Shell

LEMMA TypePartsNext == LogOK' /\ ControlOK' /\ DoneOK' => TypeOK'
<1>. HIDE DEF Message, Run, Chain
<1>. QED  BY DEF TypeOK, LogOK, ControlOK, DoneOK, Shell

LEMMA ShellSeq ==
    ASSUME NEW s \in Seq(Shell)
    PROVE  s \in Seq(Message) /\ \A i \in 1 .. Len(s) : s[i].role = "bash"
<1>1. Shell \subseteq Message /\ \A m \in Shell : m.role = "bash"
  BY DEF Shell
<1>. HIDE DEF Message, Shell
<1>2. \A i \in 1 .. Len(s) : s[i] \in Shell
  BY ElementOfSeq
<1>. QED  BY <1>1, <1>2

LEMMA LogFacts ==
    ASSUME LogOK
    PROVE  /\ log \in Seq(Message) /\ pending \in Seq(Message)
           /\ MaxRetries \in Nat /\ attempt \in Nat
           /\ <<>> \in Seq(Message) /\ <<>> \in Seq(Shell)
<1>1. MaxRetries \in Nat
  BY SessionAssumption
<1>2. \A S : <<>> \in Seq(S)
  BY EmptySeq
<1>. HIDE DEF Message
<1>. QED  BY <1>1, <1>2, ShellSeq DEF LogOK

LEMMA EraIs ==
    ASSUME NEW s \in Seq(Message) PROVE Cardinality(CompactionsIn(s)) \in Nat
<1>1. Len(s) \in Nat /\ DOMAIN s = 1 .. Len(s)
  BY LenProperties
<1>2. IsFiniteSet(1 .. Len(s))
  BY <1>1, FS_Interval
<1>3. CompactionsIn(s) \in SUBSET (1 .. Len(s))
  BY <1>1 DEF CompactionsIn
<1>. QED  BY <1>2, <1>3, FS_Subset, FS_CardinalityType

LEMMA UserIs ==
    /\ User \in Message /\ User.role = "user" /\ None \in Message
    /\ <<User>> \in Seq(Message) /\ Len(<<User>>) = 1 /\ <<User>>[1] = User
    /\ EndsRow(User) /\ ~IsError(User) /\ User.role # "bash"
<1>1. User \in Message /\ None \in Message
  BY MessageIs DEF User, None
<1>2. User.role = "user"
  BY DEF User, Msg
<1>. HIDE DEF Message, User
<1>. QED  BY <1>1, <1>2 DEF EndsRow, IsError, IsAnswer

LEMMA PollIs ==
    /\ Poll \in Seq(Message) /\ (queue = 0 => Poll = <<>>) /\ (queue > 0 => Poll = <<User>>)
    /\ (queue \in Nat /\ Polled => queue' \in Nat)
<1>1. <<>> \in Seq(Message) /\ <<User>> \in Seq(Message)
  BY UserIs, EmptySeq
<1>2. Len(<<>>) = 0 /\ Len(<<User>>) = 1
  OBVIOUS
<1>. HIDE DEF Message, User
<1>. QED  BY <1>1, <1>2 DEF Poll, Polled

LEMMA HeardTypes ==
    ASSUME LogOK, NEW l \in Seq(Message), NEW ms \in Seq(Message),
           NEW t \in {"yes", "no"}, NEW a \in 0 .. MaxRetries, Heard(l, ms, t, a)
    PROVE  /\ log' \in Seq(Message) /\ tried' \in {"yes", "no"}
           /\ attempt' \in 0 .. MaxRetries /\ missed' \in {"yes", "no"}
<1>1. l \o ms \in Seq(Message)
  BY ConcatProperties
<1>2. 0 \in 0 .. MaxRetries /\ missed \in {"yes", "no"}
  BY LogFacts DEF LogOK
<1>. HIDE DEF Message
<1>. QED  BY <1>1, <1>2 DEF Heard

(* A chain that moves, with no run of its own before or after.              *)
LEMMA ChainMoves ==
    ASSUME ControlOK, NEW c \in Chains, NEW e \in Chain, chain[c].pc # "running",
           chain' = [chain EXCEPT ![c] = e], e.pc # "running", run' = run,
           UNCHANGED <<connected, manual>>,
           controller' \in {0, controller, c}, controller' = c => e.pc = "sleeping"
    PROVE  ControlOK'
<1>. HIDE DEF Chain, Run
<1>1. chain' \in [Chains -> Chain] /\ chain'[c] = e
      /\ \A d \in Chains : d # c => chain'[d] = chain[d]
  BY DEF ControlOK
<1>2. controller' \in 0 .. Prompts
  <2>1. 0 \in 0 .. Prompts /\ c \in 0 .. Prompts
    BY SessionAssumption DEF Chains
  <2>. QED  BY <2>1 DEF ControlOK
<1>3. controller' # 0 => chain'[controller'].pc = "sleeping"
  <2>1. controller' # 0 => controller' \in Chains
    BY <1>2 DEF Chains
  <2>. QED  BY <1>1, <2>1 DEF ControlOK
<1>4. \A d \in Chains : (chain'[d].pc = "running") <=> (Streaming' /\ run'.chain = d)
  BY <1>1 DEF ControlOK, Streaming
<1>. QED  BY <1>1, <1>2, <1>3, <1>4 DEF ControlOK, Streaming

(* A chain that calls the agent.                                            *)
LEMMA ChainCalls ==
    ASSUME ControlOK, NEW c \in Chains, NEW e \in Chain, ~Streaming,
           chain' = [chain EXCEPT ![c] = e], e.pc = "running", CallModel(c),
           log' \in Seq(Message), UNCHANGED <<connected, manual>>,
           controller' \in {0, controller}, controller' # c
    PROVE  ControlOK'
<1>0. run' \in Run /\ run'.stage = "calling" /\ run'.chain = c
  <2>1. Cardinality(CompactionsIn(log')) \in Nat
    BY EraIs
  <2>. QED  BY <2>1 DEF CallModel, Run, Chains
<1>. HIDE DEF Chain, Run
<1>1. chain' \in [Chains -> Chain] /\ chain'[c] = e
      /\ \A d \in Chains : d # c => chain'[d] = chain[d]
  BY DEF ControlOK
<1>2. controller' \in 0 .. Prompts
  <2>1. 0 \in 0 .. Prompts /\ c \in 0 .. Prompts
    BY SessionAssumption DEF Chains
  <2>. QED  BY <2>1 DEF ControlOK
<1>3. controller' # 0 => chain'[controller'].pc = "sleeping"
  <2>1. controller' # 0 => controller' \in Chains
    BY <1>2 DEF Chains
  <2>. QED  BY <1>1, <2>1 DEF ControlOK
<1>4. \A d \in Chains : (chain'[d].pc = "running") <=> (Streaming' /\ run'.chain = d)
  BY <1>0, <1>1 DEF ControlOK, Streaming
<1>. QED  BY <1>0, <1>1, <1>2, <1>3, <1>4 DEF ControlOK, Streaming

LEMMA GotoIs ==
    ASSUME ControlOK, NEW c \in Chains, NEW pre \in {"no", "first", "loop"},
           NEW pc \in {"idle", "post", "sending", "running", "sleeping", "cancelled",
                       "compacting", "done", "failed"}, Goto(c, pc, pre)
    PROVE  \E e \in Chain : chain' = [chain EXCEPT ![c] = e] /\ e.pc = pc /\ e.pre = pre
<1> DEFINE e == [chain[c] EXCEPT !.pc = pc, !.pre = pre, !.msg = None, !.why = "none",
                                 !.keep = 0]
<1>1. chain[c] \in Chain
  BY DEF ControlOK
<1>2. None \in Message
  BY UserIs
<1>3. e \in Chain /\ e.pc = pc /\ e.pre = pre
  <2>. HIDE DEF Message, None
  <2>. QED  BY <1>1, <1>2 DEF Chain
<1>4. chain' = [chain EXCEPT ![c] = e]
  BY DEF Goto
<1>. QED  BY <1>3, <1>4

(* The three outcomes keep the types.                                       *)
LEMMA EndedTypes ==
    ASSUME LogOK, ControlOK, NEW c \in Chains, chain[c].pc # "running",
           NEW l \in Seq(Message), NEW t \in {"yes", "no"}, NEW a \in 0 .. MaxRetries,
           Ended(c, l, t, a), last' \in Message, UNCHANGED <<connected, manual>>,
           controller' \in {0, controller}, controller' # c
    PROVE  LogOK' /\ ControlOK'
<1>1. LogOK'
  <2>1. l \o pending \in Seq(Message) /\ <<>> \in Seq(Shell)
    BY LogFacts, ConcatProperties
  <2>. HIDE DEF Message, Shell
  <2>. QED  BY <2>1 DEF Ended, LogOK
<1>2. ControlOK'
  <2>1. PICK pc \in {"done", "failed", "sending"} : Goto(c, pc, "no")
    BY DEF Ended
  <2>2. PICK e \in Chain : chain' = [chain EXCEPT ![c] = e] /\ e.pc = pc
    BY <2>1, GotoIs
  <2>3. run' = run
    BY DEF Ended
  <2>. HIDE DEF Chain
  <2>. QED  BY <2>2, <2>3, ChainMoves
<1>. QED  BY <1>1, <1>2

LEMMA ResumedTypes ==
    ASSUME LogOK, ControlOK, NEW c \in Chains,
           NEW l \in Seq(Message), NEW t \in {"yes", "no"}, NEW a \in 0 .. MaxRetries,
           Resumed(c, l, t, a), last' \in Message, UNCHANGED <<connected, manual>>,
           controller' \in {0, controller}, controller' # c
    PROVE  LogOK' /\ ControlOK'
<1>1. /\ log' \in Seq(Message) /\ tried' \in {"yes", "no"}
      /\ attempt' \in 0 .. MaxRetries /\ missed' \in {"yes", "no"}
  BY HeardTypes, PollIs DEF Resumed
<1>2. LogOK'
  <2>1. queue' \in Nat /\ pending' = pending
    BY PollIs DEF Resumed, LogOK
  <2>. HIDE DEF Message, Shell
  <2>. QED  BY <1>1, <2>1 DEF LogOK
<1>3. ControlOK'
  <2>1. PICK pre \in {"no", "loop"} : Goto(c, "running", pre)
    BY DEF Resumed
  <2>2. PICK e \in Chain : chain' = [chain EXCEPT ![c] = e] /\ e.pc = "running"
    BY <2>1, GotoIs
  <2>3. ~Streaming /\ CallModel(c)
    BY DEF Resumed
  <2>. HIDE DEF Chain, Message
  <2>. QED  BY <1>1, <2>2, <2>3, ChainCalls
<1>. QED  BY <1>2, <1>3

LEMMA CompactingTypes ==
    ASSUME LogOK, ControlOK, NEW c \in Chains, chain[c].pc # "running",
           NEW t \in {"yes", "no"}, NEW a \in 0 .. MaxRetries,
           Compacting(c, t, a), last' \in Message, UNCHANGED <<connected, manual>>,
           controller' \in {0, controller}, controller' # c
    PROVE  LogOK' /\ ControlOK'
<1>1. LogOK'
  <2>. HIDE DEF Message, Shell
  <2>. QED  BY DEF Compacting, LogOK
<1>2. ControlOK'
  <2>1. PICK keep \in Nat, why \in {"overflow", "threshold"} :
           chain' = [chain EXCEPT ![c] = [@ EXCEPT !.pc = "compacting", !.why = why,
                                                   !.keep = keep, !.msg = None]]
    BY DEF Compacting
  <2> DEFINE e == [chain[c] EXCEPT !.pc = "compacting", !.why = why,
                                   !.keep = keep, !.msg = None]
  <2>2. e \in Chain /\ e.pc = "compacting"
    <3>1. chain[c] \in Chain /\ None \in Message
      BY UserIs DEF ControlOK
    <3>. HIDE DEF Message, None
    <3>. QED  BY <3>1 DEF Chain
  <2>3. run' = run /\ chain' = [chain EXCEPT ![c] = e]
    BY <2>1 DEF Compacting
  <2>. HIDE DEF Chain, e
  <2>. QED  BY <2>2, <2>3, ChainMoves
<1>. QED  BY <1>1, <1>2

LEMMA CheckTypes ==
    ASSUME LogOK, ControlOK, NEW c \in Chains, chain[c].pc # "running",
           NEW a \in 0 .. MaxRetries, NEW msg, Check(c, msg, a),
           last' \in Message, UNCHANGED <<connected, manual>>,
           controller' \in {0, controller}, controller' # c
    PROVE  LogOK' /\ ControlOK'
<1>1. log \in Seq(Message) /\ pending \in Seq(Message) /\ tried \in {"yes", "no"}
  BY LogFacts DEF LogOK
<1>2. PICK t \in {tried, "yes"} :
         \/ Ended(c, log, t, a)
         \/ queue > 0 /\ Resumed(c, log, t, a)
         \/ Compacting(c, t, a)
  BY <1>1, CheckIs
<1>3. t \in {"yes", "no"}
  BY <1>1
<1>. QED  BY <1>1, <1>2, <1>3, EndedTypes, ResumedTypes, CompactingTypes

LEMMA ContinueTypes ==
    ASSUME LogOK, ControlOK, NEW c \in Chains, chain[c].pc # "running",
           NEW x, NEW l \in Seq(Message), NEW t \in {"yes", "no"},
           NEW a \in 0 .. MaxRetries,
           Continue(c, x, l, t, a) \/ GoOn(c, x, l, t, a) \/ Finish(c, x, l, t, a),
           last' \in Message, UNCHANGED <<connected, manual>>,
           controller' \in {0, controller}, controller' # c
    PROVE  LogOK' /\ ControlOK'
<1>1. pending \in Seq(Message)
  BY LogFacts
<1>2. Ended(c, l, t, a) \/ Resumed(c, l, t, a)
  BY <1>1, ContinueIs, GoOnIs, EndIs DEF Finish
<1>. QED  BY <1>2, EndedTypes, ResumedTypes

(* The action of a chain is not that of the pause under way.                *)
LEMMA NotPausing ==
    ASSUME ControlOK, NEW c \in Chains, chain[c].pc # "sleeping"
    PROVE  controller # c
  BY SessionAssumption DEF ControlOK, Chains

LEMMA StopIs ==
    ASSUME ControlOK, Stop
    PROVE  /\ run' \in Run /\ run'.stage = run.stage /\ run'.chain = run.chain
           /\ chain' \in [Chains -> Chain] /\ controller' = 0
           /\ \A c \in Chains :
                 \/ chain'[c] = chain[c] /\ c # controller
                 \/ /\ c = controller /\ chain[c].pc = "sleeping"
                    /\ chain'[c] = [chain[c] EXCEPT !.pc = "cancelled"]
<1>1. run' \in Run /\ run'.stage = run.stage /\ run'.chain = run.chain
  BY DEF Stop, ControlOK, Run
<1>2. CASE controller = 0
  <2>1. \A c \in Chains : c # controller
    BY <1>2, SessionAssumption DEF Chains
  <2>. HIDE DEF Chain, Run
  <2>. QED  BY <1>1, <1>2, <2>1 DEF Stop, ControlOK
<1>3. CASE controller # 0
  <2>1. controller \in Chains /\ chain[controller].pc = "sleeping"
    BY <1>3, SessionAssumption DEF ControlOK, Chains
  <2>2. [chain[controller] EXCEPT !.pc = "cancelled"] \in Chain
    <3>1. chain[controller] \in Chain
      BY <2>1 DEF ControlOK
    <3>. HIDE DEF Message
    <3>. QED  BY <3>1 DEF Chain
  <2>3. chain' = [chain EXCEPT ![controller].pc = "cancelled"] /\ controller' = 0
    BY <1>3 DEF Stop
  <2>. HIDE DEF Chain, Run
  <2>. QED  BY <1>1, <2>1, <2>2, <2>3 DEF ControlOK
<1>. QED  BY <1>2, <1>3

LEMMA StopTypes ==
    ASSUME ControlOK, Stop, connected' \in {"yes", "no"},
           manual' \in [pc : {"none", "waiting", "ready", "summarising"}, keep : Nat],
           (connected' = "no") <=> (manual'.pc # "none")
    PROVE  ControlOK'
<1>1. /\ run' \in Run /\ run'.stage = run.stage /\ run'.chain = run.chain
      /\ chain' \in [Chains -> Chain] /\ controller' = 0
      /\ \A c \in Chains : (chain'[c].pc = "running") <=> (chain[c].pc = "running")
  <2>1. \A c \in Chains : chain[c] \in Chain
    BY DEF ControlOK
  <2>2. \A e \in Chain : [e EXCEPT !.pc = "cancelled"].pc = "cancelled"
    <3>. HIDE DEF Message
    <3>. QED  BY DEF Chain
  <2>. HIDE DEF Chain, Run
  <2>. QED  BY <2>1, <2>2, StopIs
<1>2. 0 \in 0 .. Prompts
  BY SessionAssumption
<1>. HIDE DEF Chain, Run
<1>. QED  BY <1>1, <1>2 DEF ControlOK, Streaming

LEMMA TwoMessages ==
    ASSUME NEW S, NEW a \in S, NEW b \in S
    PROVE  <<a>> \o <<b>> = <<a, b>> /\ <<a>> \o <<>> = <<a>>
<1>1. <<a>> \in Seq(S) /\ <<b>> \in Seq(S) /\ <<a, b>> \in Seq(S)
  OBVIOUS
<1>2. <<a>> \o <<>> = <<a>>
  BY <1>1, ConcatEmptySeq
<1> DEFINE r == <<a>> \o <<b>>
<1>3. /\ r \in Seq(S) /\ Len(r) = 1 + 1
      /\ \A i \in 1 .. 1 + 1 : r[i] = IF i <= 1 THEN <<a>>[i] ELSE <<b>>[i - 1]
  <2>1. Len(<<a>>) = 1 /\ Len(<<b>>) = 1
    OBVIOUS
  <2>. QED  BY <1>1, <2>1, ConcatProperties
<1>. HIDE DEF r
<1>4. Len(r) = Len(<<a, b>>) /\ r[1] = a /\ r[2] = b
  BY <1>3
<1>5. \A i \in 1 .. Len(r) : r[i] = <<a, b>>[i]
  BY <1>3, <1>4
<1>6. r = <<a, b>>
  BY <1>1, <1>3, <1>4, <1>5, SeqEqual
<1>. QED  BY <1>2, <1>6 DEF r

LEMMA RespondIs ==
    ASSUME TypeOK, Respond
    PROVE  \E stop \in Stops, ms \in Seq(Message) :
              LET m == Msg("assistant", stop, run.era)
                  more == stop \in {"stop", "big", "full"} /\ queue > 0
              IN  /\ m \in Message /\ run.stage = "calling"
                  /\ ms = IF more THEN <<m, User>> ELSE <<m>>
                  /\ Hear(ctx, log, ms, tried, attempt) /\ Heard(log, ms, tried, attempt)
                  /\ last' = IF connected = "yes" THEN m ELSE last
                  /\ queue' = IF more THEN queue - 1 ELSE queue
                  /\ run' = [run EXCEPT !.stage = IF stop = "tools" THEN "tools"
                                 ELSE IF more THEN "calling" ELSE "ending"]
                  /\ done' \in {done, [done EXCEPT !.tools = @ + 1],
                                [done EXCEPT !.failures = @ + 1]}
                  /\ UNCHANGED <<connected, pending, chain, controller, manual>>
<1>1. PICK stop \in Stops :
         LET m == Msg("assistant", stop, run.era)
             more == stop \in {"stop", "big", "full"} /\ queue > 0
         IN  /\ done' = CASE stop = "tools" -> [done EXCEPT !.tools = @ + 1]
                          [] stop \in {"stop", "aborted"} -> done
                          [] OTHER -> [done EXCEPT !.failures = @ + 1]
             /\ Hear(ctx, log, <<m>> \o (IF more THEN Poll ELSE <<>>), tried, attempt)
             /\ last' = IF connected = "yes" THEN m ELSE last
             /\ queue' = IF more THEN queue - 1 ELSE queue
             /\ run' = [run EXCEPT !.stage = IF stop = "tools" THEN "tools"
                                             ELSE IF more THEN "calling" ELSE "ending"]
  BY DEF Respond
<1> DEFINE m == Msg("assistant", stop, run.era)
           more == stop \in {"stop", "big", "full"} /\ queue > 0
           ms == <<m>> \o (IF more THEN Poll ELSE <<>>)
<1>2. run.stage = "calling" /\ UNCHANGED <<connected, pending, chain, controller, manual>>
  BY DEF Respond
<1>3. m \in Message
  <2>1. run.era \in Nat
    BY DEF TypeOK, Run
  <2>. QED  BY <2>1, MessageIs
<1>4. ms = IF more THEN <<m, User>> ELSE <<m>>
  <2>1. (more => Poll = <<User>>) /\ User \in Message
    BY PollIs, UserIs
  <2>. HIDE DEF m, User, Message, Poll
  <2>2. <<m>> \o <<User>> = <<m, User>> /\ <<m>> \o <<>> = <<m>>
    BY <1>3, <2>1, TwoMessages
  <2>. QED  BY <2>1, <2>2
<1>5. ms \in Seq(Message)
  <2>1. User \in Message
    BY UserIs
  <2>. HIDE DEF Message, User, m, more, ms
  <2>. QED  BY <1>3, <1>4, <2>1
<1>6. Hear(ctx, log, ms, tried, attempt) /\ Heard(log, ms, tried, attempt)
  BY <1>1, HearIs
<1>7. done' \in {done, [done EXCEPT !.tools = @ + 1], [done EXCEPT !.failures = @ + 1]}
  BY <1>1
<1>. HIDE DEF Message, ms, m
<1>. QED  BY <1>1, <1>2, <1>3, <1>4, <1>5, <1>6, <1>7 DEF m

LEMMA FinishToolsIs ==
    ASSUME TypeOK, FinishTools
    PROVE  \E ms \in Seq(Message) :
              /\ ms = IF queue > 0 THEN <<Msg("result", "none", 0), User>>
                      ELSE <<Msg("result", "none", 0)>>
              /\ Msg("result", "none", 0) \in Message
              /\ Hear(ctx, log, ms, tried, attempt) /\ Heard(log, ms, tried, attempt)
              /\ Polled
              /\ run' = [run EXCEPT !.stage = "calling", !.era = Era]
              /\ UNCHANGED <<connected, last, pending, chain, controller, manual, done>>
<1> DEFINE m == Msg("result", "none", 0)
           ms == <<m>> \o Poll
<1>1. m \in Message /\ User \in Message
  BY MessageIs, UserIs
<1>2. ms = IF queue > 0 THEN <<m, User>> ELSE <<m>>
  <2>1. queue \in Nat
    BY DEF TypeOK
  <2>2. Poll = IF queue > 0 THEN <<User>> ELSE <<>>
    BY DEF Poll
  <2>. HIDE DEF m, User, Message, Poll
  <2>3. <<m>> \o <<User>> = <<m, User>> /\ <<m>> \o <<>> = <<m>>
    BY <1>1, TwoMessages
  <2>. QED  BY <2>2, <2>3
<1>3. ms \in Seq(Message)
  <2>. HIDE DEF Message, User, m, ms
  <2>. QED  BY <1>1, <1>2
<1>4. Hear(ctx, log, ms, tried, attempt) /\ Heard(log, ms, tried, attempt) /\ Polled
      /\ run' = [run EXCEPT !.stage = "calling", !.era = Era]
      /\ UNCHANGED <<connected, last, pending, chain, controller, manual, done>>
  BY HearIs DEF FinishTools
<1>. QED  BY <1>1, <1>2, <1>3, <1>4

(* The actions of the user and the host keep the types.                     *)
LEMMA HostTypes ==
    ASSUME TypeOK, Steer \/ RecordBash \/ Abort \/ Compact \/ \E c \in Chains : Prompt(c)
    PROVE  TypeOK'
<1>0. LogOK /\ ControlOK /\ DoneOK
  BY TypeParts
<1>1. ASSUME NEW what \in {"steers", "bashes", "aborts", "compacts"}, May(what)
      PROVE  DoneOK'
  BY <1>0, <1>1 DEF May, DoneOK
<1>2. CASE Steer
  <2>1. LogOK' /\ ControlOK' /\ DoneOK'
    <3>. HIDE DEF Message, Shell, Run, Chain
    <3>. QED  BY <1>0, <1>1, <1>2 DEF Steer, LogOK, ControlOK, Streaming
  <2>. QED  BY <2>1, TypePartsNext
<1>3. CASE RecordBash
  <2> DEFINE m == Msg("bash", "none", done.bashes)
  <2>1. m \in Shell /\ m \in Message
    <3>1. done.bashes \in Nat
      BY <1>0 DEF DoneOK
    <3>2. m \in Message /\ m.role = "bash"
      BY <3>1, MessageIs DEF Msg
    <3>. QED  BY <3>2 DEF Shell
  <2>2. \A S : \A s \in Seq(S) : \A e \in S : Append(s, e) \in Seq(S)
    BY AppendProperties
  <2>3. LogOK'
    <3>1. log' \in {log, Append(log, m)} /\ pending' \in {pending, Append(pending, m)}
          /\ UNCHANGED <<queue, attempt, tried, missed, last>>
      BY <1>3 DEF RecordBash
    <3>. HIDE DEF Message, Shell, m
    <3>. QED  BY <1>0, <2>1, <2>2, <3>1 DEF LogOK
  <2>4. ControlOK' /\ DoneOK'
    <3>. HIDE DEF Message, Shell, Run, Chain
    <3>. QED  BY <1>0, <1>1, <1>3 DEF RecordBash, ControlOK, Streaming
  <2>. QED  BY <2>3, <2>4, TypePartsNext
<1>4. CASE Abort
  <2>1. ControlOK'
    BY <1>0, <1>4, StopTypes DEF Abort, ControlOK
  <2>2. LogOK' /\ DoneOK'
    <3>. HIDE DEF Message, Shell
    <3>. QED  BY <1>0, <1>1, <1>4 DEF Abort, LogOK
  <2>. QED  BY <2>1, <2>2, TypePartsNext
<1>5. CASE Compact
  <2>1. ControlOK'
    <3>1. /\ connected' = "no" /\ Stop
          /\ manual' = [pc |-> IF Streaming THEN "waiting" ELSE "ready", keep |-> 0]
      BY <1>5 DEF Compact
    <3>. QED  BY <1>0, <3>1, StopTypes
  <2>2. LogOK' /\ DoneOK'
    <3>. HIDE DEF Message, Shell
    <3>. QED  BY <1>0, <1>1, <1>5 DEF Compact, LogOK
  <2>. QED  BY <2>1, <2>2, TypePartsNext
<1>6. ASSUME NEW c \in Chains, Prompt(c) PROVE TypeOK'
  <2>1. LogOK'
    <3>1. log \o pending \in Seq(Message) /\ <<>> \in Seq(Shell)
      BY <1>0, LogFacts, ConcatProperties
    <3>2. /\ log' = log \o pending /\ pending' = <<>>
          /\ UNCHANGED <<queue, attempt, tried, missed, last>>
      BY <1>6 DEF Prompt
    <3>. HIDE DEF Message, Shell
    <3>. QED  BY <1>0, <3>1, <3>2 DEF LogOK
  <2>2. ControlOK'
    <3> DEFINE e == [chain[c] EXCEPT !.pc = "post", !.pre = "first"]
    <3>1. e \in Chain /\ e.pc = "post"
      <4>1. chain[c] \in Chain
        BY <1>0 DEF ControlOK
      <4>. HIDE DEF Message
      <4>. QED  BY <4>1 DEF Chain
    <3>2. /\ chain' = [chain EXCEPT ![c] = e] /\ chain[c].pc = "idle"
          /\ UNCHANGED <<run, connected, manual, controller>>
      BY <1>6 DEF Prompt
    <3>. HIDE DEF Chain, e
    <3>. QED  BY <1>0, <3>1, <3>2, ChainMoves, NotPausing
  <2>3. DoneOK'
    BY <1>0, <1>6 DEF Prompt, DoneOK
  <2>. QED  BY <2>1, <2>2, <2>3, TypePartsNext
<1>. QED  BY <1>2, <1>3, <1>4, <1>5, <1>6

(* compact() and the run of the agent keep them.                            *)
LEMMA RunTypes ==
    ASSUME TypeOK, CompactBegins \/ CompactEnds \/ Respond \/ FinishTools \/ EndRun
    PROVE  TypeOK'
<1>0. LogOK /\ ControlOK /\ DoneOK
  BY TypeParts
<1>1. CASE CompactBegins
  <2>1. LogOK' /\ DoneOK'
    <3>. HIDE DEF Message, Shell
    <3>. QED  BY <1>0, <1>1 DEF CompactBegins, LogOK, DoneOK
  <2>2. ControlOK'
    <3>1. manual' \in [pc : {"none", "waiting", "ready", "summarising"}, keep : Nat]
          /\ \/ manual'.pc = "summarising" /\ connected' = connected
             \/ manual'.pc = "none" /\ connected' = "yes"
      <4>1. \A keep \in KeepFrom : keep \in Nat
        BY <1>0, KeepIs DEF LogOK
      <4>. QED  BY <1>1, <4>1 DEF CompactBegins
    <3>2. manual.pc = "ready" /\ UNCHANGED <<run, chain, controller>>
      BY <1>1 DEF CompactBegins
    <3>. HIDE DEF Run, Chain
    <3>. QED  BY <1>0, <3>1, <3>2 DEF ControlOK, Streaming
  <2>. QED  BY <2>1, <2>2, TypePartsNext
<1>2. CASE CompactEnds
  <2>1. LogOK'
    <3>1. log' \in {log, Compacted(manual.keep)}
          /\ UNCHANGED <<queue, attempt, tried, missed, last, pending>>
      BY <1>2 DEF CompactEnds
    <3>2. Compacted(manual.keep) \in Seq(Message)
      <4>1. manual.keep \in Nat /\ log \in Seq(Message)
        BY <1>0 DEF ControlOK, LogOK
      <4>2. Msg("compaction", "none", manual.keep) \in Message
        BY <4>1, MessageIs
      <4>. HIDE DEF Message
      <4>. QED  BY <4>1, <4>2, AppendProperties DEF Compacted
    <3>. HIDE DEF Message, Shell
    <3>. QED  BY <1>0, <3>1, <3>2 DEF LogOK
  <2>2. ControlOK' /\ DoneOK'
    <3>1. /\ manual' = [pc |-> "none", keep |-> 0] /\ connected' = "yes"
          /\ UNCHANGED <<run, chain, controller, done>>
      BY <1>2 DEF CompactEnds
    <3>. HIDE DEF Run, Chain
    <3>. QED  BY <1>0, <3>1 DEF ControlOK, Streaming, DoneOK
  <2>. QED  BY <2>1, <2>2, TypePartsNext
<1>3. CASE Respond
  <2>1. PICK stop \in Stops, ms \in Seq(Message) :
           LET m == Msg("assistant", stop, run.era)
               more == stop \in {"stop", "big", "full"} /\ queue > 0
           IN  /\ m \in Message /\ run.stage = "calling"
               /\ Heard(log, ms, tried, attempt)
               /\ last' = IF connected = "yes" THEN m ELSE last
               /\ queue' = IF more THEN queue - 1 ELSE queue
               /\ run' = [run EXCEPT !.stage = IF stop = "tools" THEN "tools"
                              ELSE IF more THEN "calling" ELSE "ending"]
               /\ done' \in {done, [done EXCEPT !.tools = @ + 1],
                             [done EXCEPT !.failures = @ + 1]}
               /\ UNCHANGED <<connected, pending, chain, controller, manual>>
    BY <1>3, RespondIs
  <2>2. LogOK'
    <3>1. /\ log' \in Seq(Message) /\ tried' \in {"yes", "no"}
          /\ attempt' \in 0 .. MaxRetries /\ missed' \in {"yes", "no"}
      BY <1>0, <2>1, HeardTypes DEF LogOK
    <3>2. queue' \in Nat /\ last' \in Message /\ pending' = pending
      <4>1. queue > 0 => queue - 1 \in Nat
        BY <1>0 DEF LogOK
      <4>. HIDE DEF Message
      <4>. QED  BY <1>0, <2>1, <4>1 DEF LogOK
    <3>. HIDE DEF Message, Shell
    <3>. QED  BY <1>0, <3>1, <3>2 DEF LogOK
  <2>3. DoneOK'
    BY <1>0, <2>1 DEF DoneOK
  <2>4. ControlOK'
    <3>1. /\ run' \in Run /\ run'.stage \in {"calling", "tools", "ending"}
          /\ run'.chain = run.chain /\ run.stage = "calling"
          /\ UNCHANGED <<connected, chain, controller, manual>>
      BY <1>0, <2>1 DEF ControlOK, Run
    <3>. HIDE DEF Run, Chain
    <3>. QED  BY <1>0, <3>1 DEF ControlOK, Streaming
  <2>. QED  BY <2>2, <2>3, <2>4, TypePartsNext
<1>4. CASE FinishTools
  <2>1. PICK ms \in Seq(Message) :
           /\ Heard(log, ms, tried, attempt) /\ Polled
           /\ run' = [run EXCEPT !.stage = "calling", !.era = Era]
           /\ UNCHANGED <<connected, last, pending, chain, controller, manual, done>>
    BY <1>4, FinishToolsIs
  <2>2. LogOK' /\ DoneOK'
    <3>1. /\ log' \in Seq(Message) /\ tried' \in {"yes", "no"}
          /\ attempt' \in 0 .. MaxRetries /\ missed' \in {"yes", "no"}
      BY <1>0, <2>1, HeardTypes DEF LogOK
    <3>2. queue' \in Nat
      BY <1>0, <2>1, PollIs DEF LogOK
    <3>. HIDE DEF Message, Shell
    <3>. QED  BY <1>0, <2>1, <3>1, <3>2 DEF LogOK, DoneOK
  <2>3. ControlOK'
    <3>1. Era \in Nat
      BY <1>0, EraIs DEF Era, LogOK
    <3>2. /\ run' \in Run /\ run'.stage = "calling" /\ run'.chain = run.chain
          /\ run.stage = "tools"
      BY <1>0, <1>4, <2>1, <3>1 DEF ControlOK, Run, FinishTools
    <3>. HIDE DEF Run, Chain
    <3>. QED  BY <1>0, <2>1, <3>2 DEF ControlOK, Streaming
  <2>. QED  BY <2>2, <2>3, TypePartsNext
<1>5. CASE EndRun
  <2>1. LogOK' /\ DoneOK'
    <3>. HIDE DEF Message, Shell
    <3>. QED  BY <1>0, <1>5 DEF EndRun, LogOK, DoneOK
  <2>2. ControlOK'
    <3> DEFINE c == run.chain
               e == [chain[c] EXCEPT !.pc = "post"]
    <3>1. Streaming /\ c \in Chains /\ chain[c].pc = "running"
      BY <1>0, <1>5 DEF EndRun, ControlOK, Streaming
    <3>2. e \in Chain /\ e.pc = "post"
      <4>1. chain[c] \in Chain
        BY <1>0, <3>1 DEF ControlOK
      <4>. HIDE DEF Message
      <4>. QED  BY <4>1 DEF Chain
    <3>3. /\ chain' = [chain EXCEPT ![c] = e] /\ run'.stage = "none"
          /\ UNCHANGED <<connected, controller>>
          /\ manual' = IF manual.pc = "waiting" THEN [manual EXCEPT !.pc = "ready"]
                       ELSE manual
      BY <1>5 DEF EndRun
    <3>4. run' \in Run
      <4>1. 0 \in 0 .. Prompts
        BY SessionAssumption
      <4>. QED  BY <1>5, <4>1 DEF EndRun, Run
    <3>5. controller # c
      BY <1>0, <3>1, NotPausing
    <3>. HIDE DEF Run, Chain, e, c
    <3>6. chain' \in [Chains -> Chain] /\ chain'[c].pc = "post"
          /\ \A d \in Chains : d # c => chain'[d] = chain[d]
      BY <1>0, <3>1, <3>2, <3>3 DEF ControlOK
    <3>7. \A d \in Chains : chain'[d].pc # "running"
      BY <1>0, <3>1, <3>6 DEF ControlOK, c
    <3>8. controller # 0 => controller \in Chains
      BY <1>0, SessionAssumption DEF ControlOK, Chains
    <3>. QED  BY <1>0, <3>3, <3>4, <3>5, <3>6, <3>7, <3>8 DEF ControlOK, Streaming
  <2>. QED  BY <2>1, <2>2, TypePartsNext
<1>. QED  BY <1>1, <1>2, <1>3, <1>4, <1>5

(* The actions of a chain keep them.                                        *)
LEMMA SendIs ==
    ASSUME TypeOK, NEW c \in Chains, Send(c)
    PROVE  /\ chain[c].pc = "sending"
           /\ UNCHANGED <<connected, last, controller, manual, done>>
           /\ \/ /\ End(c, "failed", ctx, log, tried, attempt)
                 /\ Ended(c, log, tried, attempt)
              \/ \E ms \in Seq(Message) :
                    /\ ~Streaming /\ CallModel(c) /\ Goto(c, "running", "no")
                    /\ ms = IF queue > 0 THEN <<User, User>> ELSE <<User>>
                    /\ Hear(ctx, log, ms, tried, attempt)
                    /\ Heard(log, ms, tried, attempt) /\ Polled /\ pending' = pending
<1>0. LogOK /\ ControlOK /\ DoneOK
  BY TypeParts
<1>1. /\ chain[c].pc = "sending"
      /\ UNCHANGED <<connected, last, controller, manual, done>>
  BY DEF Send
<1>2. CASE Streaming
  <2>1. End(c, "failed", ctx, log, tried, attempt)
    BY <1>2 DEF Send
  <2>. QED  BY <1>0, <1>1, <2>1, EndIs, LogFacts
<1>3. CASE ~Streaming
  <2> DEFINE ms == <<User>> \o Poll
  <2>1. /\ Hear(ctx, log, ms, tried, attempt)
        /\ Heard(log, ms, tried, attempt) /\ Polled /\ CallModel(c)
        /\ Goto(c, "running", "no") /\ pending' = pending
    BY <1>3, HearIs DEF Send
  <2>2. ms = IF queue > 0 THEN <<User, User>> ELSE <<User>>
    <3>1. User \in Message /\ Poll = IF queue > 0 THEN <<User>> ELSE <<>>
      BY UserIs DEF Poll
    <3>. HIDE DEF User, Message, Poll
    <3>2. <<User>> \o <<User>> = <<User, User>> /\ <<User>> \o <<>> = <<User>>
      BY <3>1, TwoMessages
    <3>. QED  BY <3>1, <3>2
  <2>3. ms \in Seq(Message)
    BY UserIs, PollIs, ConcatProperties
  <2>. HIDE DEF ms, User, Message
  <2>. QED  BY <1>1, <1>3, <2>1, <2>2, <2>3
<1>. QED  BY <1>2, <1>3

LEMMA PostRunIs ==
    ASSUME TypeOK, NEW c \in Chains, PostRun(c)
    PROVE  /\ chain[c].pc = "post" /\ chain[c].pre # "first" /\ last' = None
           /\ UNCHANGED <<connected, manual, done>>
           /\ \/ Ended(c, log, tried, attempt) /\ controller' = controller
              \/ last.stop = "retry" /\ Retry(c)
              \/ /\ controller' = controller
                 /\ \E msg : \E a \in {0, attempt} : Check(c, msg, a)
<1>0. LogOK
  BY TypeParts
<1>1. ASSUME Finish(c, ctx, log, tried, attempt)
      PROVE  Ended(c, log, tried, attempt)
  BY <1>0, <1>1, EndIs, LogFacts DEF Finish
<1>. QED  BY <1>1 DEF PostRun

LEMMA RetryTypes ==
    ASSUME LogOK, ControlOK, NEW c \in Chains, Retry(c), chain[c].pc = "post",
           last' \in Message, UNCHANGED <<connected, manual>>
    PROVE  LogOK' /\ ControlOK'
<1>1. LogOK'
  <2>1. attempt + 1 \in 0 .. MaxRetries
    BY LogFacts DEF Retry, LogOK
  <2>. HIDE DEF Message, Shell
  <2>. QED  BY <2>1 DEF Retry, LogOK
<1>2. ControlOK'
  <2> DEFINE e == [chain[c] EXCEPT !.pc = "sleeping", !.msg = last]
  <2>1. e \in Chain /\ e.pc = "sleeping"
    <3>1. chain[c] \in Chain /\ last \in Message
      BY DEF ControlOK, LogOK
    <3>. HIDE DEF Message
    <3>. QED  BY <3>1 DEF Chain
  <2>2. /\ chain' = [chain EXCEPT ![c] = e] /\ controller' = c
        /\ run' = run
    <3>1. chain' = [chain EXCEPT ![c].pc = "sleeping", ![c].msg = last]
      BY DEF Retry
    <3>2. chain \in [Chains -> Chain]
      BY DEF ControlOK
    <3>. HIDE DEF Chain, Message
    <3>. QED  BY <3>1, <3>2 DEF Retry
  <2>. HIDE DEF Chain, e
  <2>. QED  BY <2>1, <2>2, ChainMoves
<1>. QED  BY <1>1, <1>2

LEMMA ChainTypes ==
    ASSUME TypeOK, NEW c \in Chains,
           \/ PromptChecks(c) \/ Send(c) \/ PostRun(c) \/ SleepEnds(c)
           \/ RetryCancelled(c) \/ CompactionSucceeds(c) \/ CompactionFails(c)
    PROVE  TypeOK'
<1>0. /\ LogOK /\ ControlOK /\ DoneOK
      /\ log \in Seq(Message) /\ last \in Message /\ pending \in Seq(Message)
      /\ tried \in {"yes", "no"} /\ attempt \in 0 .. MaxRetries
      /\ 0 \in 0 .. MaxRetries
  BY TypeParts, LogFacts DEF LogOK
<1>1. ASSUME LogOK' /\ ControlOK', done' = done PROVE TypeOK'
  <2>1. DoneOK'
    BY <1>0, <1>1 DEF DoneOK
  <2>. QED  BY <1>1, <2>1, TypePartsNext
<1>2. CASE PromptChecks(c)
  <2>1. /\ chain[c].pc = "post" /\ \E msg : Check(c, msg, attempt)
        /\ UNCHANGED <<connected, last, controller, manual, done>>
    BY <1>2 DEF PromptChecks
  <2>2. controller # c
    BY <1>0, <2>1, NotPausing
  <2>. QED  BY <1>0, <1>1, <2>1, <2>2, CheckTypes
<1>3. CASE Send(c)
  <2>1. /\ chain[c].pc = "sending"
        /\ UNCHANGED <<connected, last, controller, manual, done>>
    BY <1>3, SendIs
  <2>2. controller # c
    BY <1>0, <2>1, NotPausing
  <2>3. CASE Ended(c, log, tried, attempt)
    BY <1>0, <1>1, <2>1, <2>2, <2>3, EndedTypes
  <2>4. ASSUME NEW ms \in Seq(Message), ~Streaming, CallModel(c),
               Goto(c, "running", "no"), Heard(log, ms, tried, attempt),
               Polled, pending' = pending
        PROVE  TypeOK'
    <3>1. /\ log' \in Seq(Message) /\ tried' \in {"yes", "no"}
          /\ attempt' \in 0 .. MaxRetries /\ missed' \in {"yes", "no"}
      BY <1>0, <2>4, HeardTypes
    <3>2. LogOK'
      <4>1. queue' \in Nat
        BY <1>0, <2>4, PollIs DEF LogOK
      <4>. HIDE DEF Message, Shell
      <4>. QED  BY <1>0, <2>1, <2>4, <3>1, <4>1 DEF LogOK
    <3>3. PICK e \in Chain : chain' = [chain EXCEPT ![c] = e] /\ e.pc = "running"
      BY <1>0, <2>4, GotoIs
    <3>4. ControlOK'
      <4>. HIDE DEF Chain, Message
      <4>. QED  BY <1>0, <2>1, <2>2, <2>4, <3>1, <3>3, ChainCalls
    <3>. QED  BY <1>1, <2>1, <3>2, <3>4
  <2>. QED  BY <1>3, <2>3, <2>4, SendIs
<1>4. CASE PostRun(c)
  <2>1. /\ chain[c].pc = "post" /\ last' = None
        /\ UNCHANGED <<connected, manual, done>>
        /\ \/ Ended(c, log, tried, attempt) /\ controller' = controller
           \/ Retry(c)
           \/ /\ controller' = controller
              /\ \E msg : \E a \in {0, attempt} : Check(c, msg, a)
    BY <1>4, PostRunIs
  <2>2. controller # c /\ None \in Message
    BY <1>0, <2>1, NotPausing, UserIs
  <2>3. \A a \in {0, attempt} : a \in 0 .. MaxRetries
    BY <1>0
  <2>4. CASE Ended(c, log, tried, attempt) /\ controller' = controller
    BY <1>0, <1>1, <2>1, <2>2, <2>4, EndedTypes
  <2>5. CASE Retry(c)
    BY <1>0, <1>1, <2>1, <2>2, <2>5, RetryTypes
  <2>6. ASSUME NEW msg, NEW a \in {0, attempt}, Check(c, msg, a),
               controller' = controller
        PROVE  TypeOK'
    BY <1>0, <1>1, <2>1, <2>2, <2>3, <2>6, CheckTypes
  <2>. QED  BY <2>1, <2>4, <2>5, <2>6
<1>5. CASE SleepEnds(c)
  <2>1. /\ chain[c].pc = "sleeping" /\ Continue(c, ctx, log, tried, attempt)
        /\ controller' = 0 /\ UNCHANGED <<connected, last, manual, done>>
    BY <1>5 DEF SleepEnds
  <2>2. c # 0
    BY SessionAssumption DEF Chains
  <2>. QED  BY <1>0, <1>1, <2>1, <2>2, ContinueTypes
<1>6. CASE RetryCancelled(c)
  <2>1. /\ chain[c].pc = "cancelled" /\ Check(c, chain[c].msg, 0)
        /\ UNCHANGED <<connected, last, controller, manual, done>>
    BY <1>6 DEF RetryCancelled
  <2>2. controller # c
    BY <1>0, <2>1, NotPausing
  <2>. QED  BY <1>0, <1>1, <2>1, <2>2, CheckTypes
<1>7. CASE CompactionSucceeds(c)
  <2> DEFINE l == Compacted(chain[c].keep)
  <2>1. /\ chain[c].pc = "compacting"
        /\ \E x : \/ Continue(c, x, l, tried, attempt)
                  \/ GoOn(c, x, l, tried, attempt)
        /\ UNCHANGED <<connected, last, controller, manual, done>>
    BY <1>7 DEF CompactionSucceeds
  <2>2. l \in Seq(Message)
    <3>1. Msg("compaction", "none", chain[c].keep) \in Message
      BY <1>0, MessageIs DEF ControlOK, Chain
    <3>. HIDE DEF Message
    <3>. QED  BY <1>0, <3>1, AppendProperties DEF Compacted
  <2>3. controller # c
    BY <1>0, <2>1, NotPausing
  <2>. HIDE DEF l
  <2>. QED  BY <1>0, <1>1, <2>1, <2>2, <2>3, ContinueTypes
<1>8. CASE CompactionFails(c)
  <2>1. /\ chain[c].pc = "compacting" /\ GoOn(c, ctx, log, tried, attempt)
        /\ UNCHANGED <<connected, last, controller, manual, done>>
    BY <1>8 DEF CompactionFails
  <2>2. controller # c
    BY <1>0, <2>1, NotPausing
  <2>. QED  BY <1>0, <1>1, <2>1, <2>2, ContinueTypes
<1>. QED  BY <1>2, <1>3, <1>4, <1>5, <1>6, <1>7, <1>8

LEMMA InitTypes == Init => TypeOK
<1> SUFFICES ASSUME Init PROVE TypeOK
  OBVIOUS
<1>0. /\ SessionAssumption /\ 0 \in 0 .. MaxRetries /\ 0 \in 0 .. Prompts
      /\ None \in Message /\ User \in Message
      /\ Msg("assistant", "cut", 0) \in Message
  BY SessionAssumption, UserIs, MessageIs DEF Stops, Aborted
<1>1. LogOK
  <2>1. <<>> \in Seq(Shell) /\ <<>> \in Seq(Message)
    BY EmptySeq
  <2>2. <<User, Msg("assistant", "cut", 0)>> \in Seq(Message)
    <3> DEFINE m == Msg("assistant", "cut", 0)
    <3>. HIDE DEF Message, User, m
    <3>. QED  BY <1>0 DEF m
  <2>3. log \in Seq(Message)
    BY <2>1, <2>2 DEF Init
  <2>. HIDE DEF Message, Shell
  <2>. QED  BY <1>0, <2>1, <2>3 DEF Init, LogOK
<1>2. ControlOK
  <2>1. run \in Run /\ run.stage = "none"
    BY <1>0 DEF Init, Run
  <2>2. [pc |-> "idle", pre |-> "no", why |-> "none", keep |-> 0, msg |-> None] \in Chain
    BY <1>0 DEF Chain
  <2>3. chain \in [Chains -> Chain] /\ \A c \in Chains : chain[c].pc = "idle"
    BY <2>2 DEF Init
  <2>. HIDE DEF Chain, Run
  <2>. QED  BY <1>0, <2>1, <2>3 DEF Init, ControlOK, Streaming
<1>3. DoneOK
  BY DEF Init, DoneOK
<1>. QED  BY <1>1, <1>2, <1>3, TypeParts

LEMMA TypeStep == TypeOK /\ [Next]_vars => TypeOK'
<1> SUFFICES ASSUME TypeOK, [Next]_vars PROVE TypeOK'
  OBVIOUS
<1>1. CASE Next
  BY <1>1, HostTypes, RunTypes, ChainTypes DEF Next, System
<1>2. CASE UNCHANGED vars
  <2>. HIDE DEF Message, Run, Chain
  <2>. QED  BY <1>2 DEF vars, TypeOK, Streaming
<1>. QED  BY <1>1, <1>2

(* The variables of the session keep their types, and its parts agree: a    *)
(* chain waits for the run that is its own, what abortRetry would cancel is *)
(* a pause, and the session listens unless compact() is at work.            *)
THEOREM TypeCorrect == Spec => []TypeOK
<1>1. Init => TypeOK
  BY InitTypes
<1>2. TypeOK /\ [Next]_vars => TypeOK'
  BY TypeStep
<1>. QED  BY <1>1, <1>2, PTL DEF Spec

-----------------------------------------------------------------------------
(* The results of shell commands.                                           *)

(* What is held back is held back for a chain that will put it in place.    *)
BashInv ==
    /\ Cardinality(BashIn(log)) + Len(pending) = done.bashes
    /\ pending # <<>> => \E c \in Chains : Underway(c)

LEMMA BashAfter ==
    ASSUME TypeOK, BashInv, NEW l \in Seq(Message), BashIn(l) = BashIn(log),
           log' = l \o pending, pending' = <<>>, done'.bashes = done.bashes
    PROVE  BashInv'
<1>1. LogOK
  BY TypeParts
<1>2. pending \in Seq(Message) /\ \A i \in 1 .. Len(pending) : pending[i].role = "bash"
  BY <1>1, ShellSeq DEF LogOK
<1>3. Cardinality(BashIn(log')) = Cardinality(BashIn(l)) + Len(pending)
  BY <1>2, BashConcat
<1>4. Len(pending') = 0 /\ \A n \in Nat : n + 0 = n
  OBVIOUS
<1>5. Cardinality(BashIn(log')) \in Nat
  <2>1. log' \in Seq(Message)
    BY <1>2, ConcatProperties
  <2>. QED  BY <2>1, BashFinite
<1>. QED  BY <1>3, <1>4, <1>5 DEF BashInv

LEMMA BashHeard ==
    ASSUME NEW l \in Seq(Message), NEW ms \in Seq(Message), NEW t, NEW a,
           \A i \in 1 .. Len(ms) : ms[i].role # "bash", Heard(l, ms, t, a)
    PROVE  BashIn(log') = BashIn(l)
<1>1. BashIn(l \o ms) = BashIn(l)
  BY BashConcat
<1>. QED  BY <1>1 DEF Heard

(* Nothing recorded, nothing put in place, and a chain goes on.             *)
LEMMA BashStays ==
    ASSUME BashInv, BashIn(log') = BashIn(log), pending' = pending,
           done'.bashes = done.bashes,
           \A c \in Chains : Underway(c) => \E d \in Chains : Underway(d)'
    PROVE  BashInv'
  BY DEF BashInv

LEMMA PollNoBash == \A i \in 1 .. Len(Poll) : Poll[i].role # "bash"
<1>1. User.role # "bash" /\ Len(<<User>>) = 1 /\ <<User>>[1] = User
  BY UserIs
<1>2. Len(<<>>) = 0
  OBVIOUS
<1>3. \A i \in 1 .. 1 : i = 1
  OBVIOUS
<1>. HIDE DEF User
<1>. QED  BY <1>1, <1>2, <1>3 DEF Poll

(* What a chain does: it moves, and stays under way or ends.                *)
LEMMA BashOutcome ==
    ASSUME TypeOK, BashInv, NEW c \in Chains, NEW l \in Seq(Message),
           BashIn(l) = BashIn(log), NEW t, NEW a, done' = done,
           Ended(c, l, t, a) \/ Resumed(c, l, t, a) \/ (l = log /\ Compacting(c, t, a))
    PROVE  BashInv'
<1>0. ControlOK
  BY TypeParts
<1>1. CASE Ended(c, l, t, a)
  BY <1>1, BashAfter DEF Ended
<1>2. CASE Resumed(c, l, t, a)
  <2>1. BashIn(log') = BashIn(log)
    BY <1>2, PollIs, PollNoBash, BashHeard DEF Resumed
  <2>2. PICK pre \in {"no", "loop"} : Goto(c, "running", pre)
    BY <1>2 DEF Resumed
  <2>3. PICK e \in Chain : chain' = [chain EXCEPT ![c] = e] /\ e.pc = "running"
    BY <1>0, <2>2, GotoIs
  <2>4. Underway(c)'
    BY <1>0, <2>3 DEF ControlOK, Underway
  <2>. QED  BY <1>2, <2>1, <2>4, BashStays DEF Resumed
<1>3. CASE Compacting(c, t, a) /\ l = log
  <2>1. chain'[c].pc = "compacting"
    <3>1. chain \in [Chains -> Chain]
      BY <1>0 DEF ControlOK
    <3>2. PICK keep \in Nat, why \in {"overflow", "threshold"} :
             chain' = [chain EXCEPT ![c] = [@ EXCEPT !.pc = "compacting", !.why = why,
                                                     !.keep = keep, !.msg = None]]
      BY <1>3 DEF Compacting
    <3>3. chain[c] \in Chain
      BY <3>1
    <3>4. [chain[c] EXCEPT !.pc = "compacting", !.why = why,
                           !.keep = keep, !.msg = None].pc = "compacting"
      <4>. HIDE DEF Message
      <4>. QED  BY <3>3 DEF Chain
    <3>. HIDE DEF Chain
    <3>. QED  BY <3>1, <3>2, <3>4
  <2>. QED  BY <1>3, <2>1, BashStays DEF Compacting, Underway
<1>. QED  BY <1>1, <1>2, <1>3

LEMMA BashCompacted ==
    ASSUME log \in Seq(Message), NEW keep \in Nat
    PROVE  Compacted(keep) \in Seq(Message) /\ BashIn(Compacted(keep)) = BashIn(log)
<1> DEFINE m == Msg("compaction", "none", keep)
<1>1. m \in Message /\ m.role # "bash"
  BY MessageIs DEF Msg
<1>2. Compacted(keep) = log \o <<m>> /\ <<m>> \in Seq(Message)
  <2>. HIDE DEF m, Message
  <2>. QED  BY <1>1, AppendIsConcat DEF Compacted, m
<1>3. Len(<<m>>) = 1 /\ <<m>>[1] = m /\ \A i \in 1 .. 1 : i = 1
  OBVIOUS
<1>. HIDE DEF m
<1>4. \A i \in 1 .. Len(<<m>>) : <<m>>[i].role # "bash"
  BY <1>1, <1>3
<1>5. log \o <<m>> \in Seq(Message)
  BY <1>2, ConcatProperties
<1>. QED  BY <1>2, <1>4, <1>5, BashConcat

LEMMA BashHost ==
    ASSUME TypeOK, BashInv, Steer \/ RecordBash \/ Abort \/ Compact \/ \E c \in Chains : Prompt(c)
    PROVE  BashInv'
<1>0. /\ LogOK /\ ControlOK /\ DoneOK
      /\ log \in Seq(Message) /\ pending \in Seq(Message) /\ pending \in Seq(Shell)
  BY TypeParts, LogFacts DEF LogOK
<1>1. ASSUME NEW what \in {"steers", "aborts", "compacts"}, May(what)
      PROVE  done'.bashes = done.bashes
  BY <1>0, <1>1 DEF May, DoneOK
<1>2. CASE Steer
  BY <1>1, <1>2, BashStays DEF Steer, Underway
<1>3. CASE RecordBash
  <2> DEFINE m == Msg("bash", "none", done.bashes)
  <2>1. m \in Shell /\ m \in Message /\ m.role = "bash"
    <3>1. done.bashes \in Nat
      BY <1>0 DEF DoneOK
    <3>2. m \in Message /\ m.role = "bash"
      BY <3>1, MessageIs DEF Msg
    <3>. QED  BY <3>2 DEF Shell
  <2>2. done'.bashes = done.bashes + 1
    BY <1>0, <1>3 DEF RecordBash, May, DoneOK
  <2>3. CASE Streaming
    <3>1. pending' = Append(pending, m) /\ log' = log /\ chain' = chain
      BY <1>3, <2>3 DEF RecordBash
    <3>2. Len(pending') = Len(pending) + 1
      <4>. HIDE DEF m, Shell
      <4>. QED  BY <1>0, <2>1, <3>1, AppendProperties
    <3>3. Underway(run.chain) /\ run.chain \in Chains
      BY <1>0, <2>3 DEF ControlOK, Underway
    <3>4. \A b, p \in Nat : b + (p + 1) = (b + p) + 1
      OBVIOUS
    <3>5. Cardinality(BashIn(log)) \in Nat /\ Len(pending) \in Nat
      BY <1>0, BashFinite, LenProperties
    <3>. QED  BY <2>2, <3>1, <3>2, <3>3, <3>4, <3>5 DEF BashInv, Underway
  <2>4. CASE ~Streaming
    <3>1. log' = Append(log, m) /\ pending' = pending /\ chain' = chain
      BY <1>3, <2>4 DEF RecordBash
    <3>2. Append(log, m) = log \o <<m>> /\ <<m>> \in Seq(Message)
      <4>. HIDE DEF m, Message
      <4>. QED  BY <1>0, <2>1, AppendIsConcat
    <3>3. Len(<<m>>) = 1 /\ \A i \in 1 .. Len(<<m>>) : <<m>>[i] = m
      OBVIOUS
    <3>. HIDE DEF m
    <3>4. Cardinality(BashIn(log')) = Cardinality(BashIn(log)) + 1
      BY <1>0, <2>1, <3>1, <3>2, <3>3, BashConcat
    <3>5. \A b, p \in Nat : (b + 1) + p = (b + p) + 1
      OBVIOUS
    <3>6. Cardinality(BashIn(log)) \in Nat /\ Len(pending) \in Nat
      BY <1>0, BashFinite, LenProperties
    <3>. QED  BY <2>2, <3>1, <3>4, <3>5, <3>6 DEF BashInv, Underway
  <2>. QED  BY <2>3, <2>4
<1>4. CASE Abort \/ Compact
  <2>1. Stop /\ UNCHANGED <<log, pending>> /\ done'.bashes = done.bashes
    BY <1>1, <1>4 DEF Abort, Compact
  <2>2. \A c \in Chains : Underway(c) => Underway(c)'
    <3>1. \A c \in Chains : chain[c] \in Chain
      BY <1>0 DEF ControlOK
    <3>2. \A e \in Chain : [e EXCEPT !.pc = "cancelled"].pc = "cancelled"
      <4>. HIDE DEF Message
      <4>. QED  BY DEF Chain
    <3>. HIDE DEF Chain, Run
    <3>. QED  BY <1>0, <2>1, <3>1, <3>2, StopIs DEF Underway
  <2>. QED  BY <2>1, <2>2, BashStays
<1>5. ASSUME NEW c \in Chains, Prompt(c) PROVE BashInv'
  BY <1>0, <1>5, BashAfter DEF Prompt
<1>. QED  BY <1>2, <1>3, <1>4, <1>5

LEMMA BashRun ==
    ASSUME TypeOK, BashInv, CompactBegins \/ CompactEnds \/ Respond \/ FinishTools \/ EndRun
    PROVE  BashInv'
<1>0. /\ LogOK /\ ControlOK /\ DoneOK /\ log \in Seq(Message)
  BY TypeParts DEF LogOK
<1>1. CASE CompactBegins
  BY <1>1, BashStays DEF CompactBegins, Underway
<1>2. CASE CompactEnds
  <2>1. log' \in {log, Compacted(manual.keep)}
        /\ UNCHANGED <<pending, chain, done>>
    BY <1>2 DEF CompactEnds
  <2>2. manual.keep \in Nat
    BY <1>0 DEF ControlOK
  <2>3. BashIn(log') = BashIn(log)
    BY <1>0, <2>1, <2>2, BashCompacted
  <2>. QED  BY <2>1, <2>3, BashStays DEF Underway
<1>3. CASE Respond
  <2>1. PICK stop \in Stops, ms \in Seq(Message) :
           LET m == Msg("assistant", stop, run.era)
               more == stop \in {"stop", "big", "full"} /\ queue > 0
           IN  /\ m \in Message /\ ms = IF more THEN <<m, User>> ELSE <<m>>
               /\ Heard(log, ms, tried, attempt)
               /\ done' \in {done, [done EXCEPT !.tools = @ + 1],
                             [done EXCEPT !.failures = @ + 1]}
               /\ UNCHANGED <<pending, chain>>
    BY <1>3, RespondIs
  <2>2. \A i \in 1 .. Len(ms) : ms[i].role # "bash"
    <3> DEFINE m == Msg("assistant", stop, run.era)
    <3>1. m.role # "bash" /\ User.role # "bash"
      BY UserIs DEF Msg
    <3>2. ms \in {<<m, User>>, <<m>>}
      BY <2>1
    <3>. HIDE DEF m, User
    <3>. QED  BY <3>1, <3>2
  <2>3. BashIn(log') = BashIn(log)
    BY <1>0, <2>1, <2>2, BashHeard
  <2>4. done'.bashes = done.bashes
    BY <1>0, <2>1 DEF DoneOK
  <2>. QED  BY <2>1, <2>3, <2>4, BashStays DEF Underway
<1>4. CASE FinishTools
  <2>1. PICK ms \in Seq(Message) :
              /\ ms = IF queue > 0 THEN <<Msg("result", "none", 0), User>>
                      ELSE <<Msg("result", "none", 0)>>
              /\ Heard(log, ms, tried, attempt)
              /\ UNCHANGED <<pending, chain, done>>
    BY <1>4, FinishToolsIs
  <2>2. \A i \in 1 .. Len(ms) : ms[i].role # "bash"
    <3> DEFINE m == Msg("result", "none", 0)
    <3>1. m.role # "bash" /\ User.role # "bash"
      BY UserIs DEF Msg
    <3>2. ms \in {<<m, User>>, <<m>>}
      BY <2>1
    <3>. HIDE DEF m, User
    <3>. QED  BY <3>1, <3>2
  <2>3. BashIn(log') = BashIn(log)
    BY <1>0, <2>1, <2>2, BashHeard
  <2>. QED  BY <2>1, <2>3, BashStays DEF Underway
<1>5. CASE EndRun
  <2> DEFINE c == run.chain
  <2>1. c \in Chains /\ chain \in [Chains -> Chain]
    BY <1>0, <1>5 DEF EndRun, ControlOK, Streaming
  <2>2. chain' = [chain EXCEPT ![c].pc = "post"] /\ UNCHANGED <<log, pending, done>>
    BY <1>5 DEF EndRun
  <2>3. chain'[c].pc = "post"
    <3>1. \A e \in Chain : [e EXCEPT !.pc = "post"].pc = "post"
      <4>. HIDE DEF Message
      <4>. QED  BY DEF Chain
    <3>. HIDE DEF Chain, c
    <3>. QED  BY <2>1, <2>2, <3>1
  <2>. HIDE DEF c
  <2>. QED  BY <2>1, <2>2, <2>3, BashStays DEF Underway
<1>. QED  BY <1>1, <1>2, <1>3, <1>4, <1>5

LEMMA BashChain ==
    ASSUME TypeOK, BashInv, NEW c \in Chains,
           \/ PromptChecks(c) \/ Send(c) \/ PostRun(c) \/ SleepEnds(c)
           \/ RetryCancelled(c) \/ CompactionSucceeds(c) \/ CompactionFails(c)
    PROVE  BashInv'
<1>0. /\ LogOK /\ ControlOK /\ DoneOK
      /\ log \in Seq(Message) /\ pending \in Seq(Message)
  BY TypeParts, LogFacts DEF LogOK
<1>1. ASSUME NEW msg, NEW a, Check(c, msg, a), done' = done PROVE BashInv'
  <2>1. PICK t \in {tried, "yes"} :
           Ended(c, log, t, a) \/ Resumed(c, log, t, a) \/ Compacting(c, t, a)
    BY <1>0, <1>1, CheckIs
  <2>. QED  BY <1>0, <1>1, <2>1, BashOutcome
<1>2. CASE PromptChecks(c)
  BY <1>1, <1>2 DEF PromptChecks
<1>3. CASE Send(c)
  <2>1. done' = done
    BY <1>3, SendIs
  <2>2. CASE Ended(c, log, tried, attempt)
    BY <1>0, <2>1, <2>2, BashOutcome
  <2>3. ASSUME NEW ms \in Seq(Message), Goto(c, "running", "no"),
               ms = IF queue > 0 THEN <<User, User>> ELSE <<User>>,
               Heard(log, ms, tried, attempt), pending' = pending
        PROVE  BashInv'
    <3>1. \A i \in 1 .. Len(ms) : ms[i].role # "bash"
      <4>1. User.role # "bash"
        BY UserIs
      <4>. HIDE DEF User
      <4>. QED  BY <2>3, <4>1
    <3>2. BashIn(log') = BashIn(log)
      BY <1>0, <2>3, <3>1, BashHeard
    <3>3. PICK e \in Chain : chain' = [chain EXCEPT ![c] = e] /\ e.pc = "running"
      BY <1>0, <2>3, GotoIs
    <3>4. Underway(c)'
      BY <1>0, <3>3 DEF ControlOK, Underway
    <3>. QED  BY <2>1, <2>3, <3>2, <3>4, BashStays
  <2>. QED  BY <1>3, <2>2, <2>3, SendIs
<1>4. CASE PostRun(c)
  <2>1. /\ done' = done
        /\ \/ Ended(c, log, tried, attempt)
           \/ Retry(c)
           \/ \E msg : \E a \in {0, attempt} : Check(c, msg, a)
    BY <1>4, PostRunIs
  <2>2. CASE Retry(c)
    <3>1. chain'[c].pc = "sleeping"
      <4>1. chain \in [Chains -> Chain]
        BY <1>0 DEF ControlOK
      <4>2. chain' = [chain EXCEPT ![c].pc = "sleeping", ![c].msg = last]
        BY <2>2 DEF Retry
      <4>3. \A e \in Chain : [[e EXCEPT !.pc = "sleeping"] EXCEPT !.msg = last].pc = "sleeping"
        <5>. HIDE DEF Message
        <5>. QED  BY DEF Chain
      <4>. HIDE DEF Chain
      <4>. QED  BY <4>1, <4>2, <4>3
    <3>. QED  BY <2>1, <2>2, <3>1, BashStays DEF Retry, Underway
  <2>. QED  BY <1>0, <1>1, <2>1, <2>2, BashOutcome
<1>5. CASE SleepEnds(c)
  BY <1>0, <1>5, ContinueIs, BashOutcome DEF SleepEnds
<1>6. CASE RetryCancelled(c)
  BY <1>1, <1>6 DEF RetryCancelled
<1>7. CASE CompactionSucceeds(c)
  <2> DEFINE l == Compacted(chain[c].keep)
  <2>1. chain[c].keep \in Nat
    BY <1>0 DEF ControlOK, Chain
  <2>2. l \in Seq(Message) /\ BashIn(l) = BashIn(log)
    BY <1>0, <2>1, BashCompacted
  <2>3. /\ \E x : \/ Continue(c, x, l, tried, attempt)
                  \/ GoOn(c, x, l, tried, attempt)
        /\ done' = done
    BY <1>7 DEF CompactionSucceeds
  <2>. HIDE DEF l
  <2>4. Ended(c, l, tried, attempt) \/ Resumed(c, l, tried, attempt)
    BY <1>0, <2>2, <2>3, ContinueIs, GoOnIs
  <2>. QED  BY <2>2, <2>3, <2>4, BashOutcome
<1>8. CASE CompactionFails(c)
  BY <1>0, <1>8, GoOnIs, BashOutcome DEF CompactionFails
<1>. QED  BY <1>2, <1>3, <1>4, <1>5, <1>6, <1>7, <1>8

(* Every result of a shell command is in the session once, or is held back  *)
(* for a chain that is still under way: recordBashResult, the flush at the  *)
(* beginning and the end of a prompt, and every path on which a prompt ends *)
(* or fails.                                                                *)
THEOREM ShellResultsKept == Spec => []BashKept
<1>1. Init => BashInv
  <2> SUFFICES ASSUME Init PROVE BashInv
    OBVIOUS
  <2>1. BashIn(log) = {}
    <3>1. log \in {<<>>, <<User, Msg("assistant", "cut", 0)>>}
      BY DEF Init
    <3>2. User.role # "bash" /\ Msg("assistant", "cut", 0).role # "bash"
      BY DEF User, Msg
    <3> DEFINE m == Msg("assistant", "cut", 0)
    <3>. HIDE DEF User, m
    <3>. QED  BY <3>1, <3>2 DEF BashIn, m
  <2>2. Len(pending) = 0 /\ done.bashes = 0 /\ pending = <<>>
    BY DEF Init
  <2>3. 0 + 0 = 0
    OBVIOUS
  <2>. QED  BY <2>1, <2>2, <2>3, FS_EmptySet DEF BashInv
<1>2. TypeOK /\ BashInv /\ [Next]_vars => BashInv'
  <2> SUFFICES ASSUME TypeOK, BashInv, [Next]_vars PROVE BashInv'
    OBVIOUS
  <2>1. CASE Next
    BY <2>1, BashHost, BashRun, BashChain DEF Next, System
  <2>2. CASE UNCHANGED vars
    BY <2>2, BashStays DEF vars, Underway
  <2>. QED  BY <2>1, <2>2
<1>3. BashInv => BashKept
  BY DEF BashInv, BashKept, BashIn
<1>. QED  BY <1>1, <1>2, <1>3, TypeCorrect, PTL DEF Spec

-----------------------------------------------------------------------------
(* Failures in a row.                                                       *)

(* A host that waits for a prompt has one chain under way.                  *)
Alone == \A c, d \in Chains : Underway(c) /\ Underway(d) => c = d

Fails(l) == Cardinality(FailuresInRow(l))

(* What the recovery from an overflow allows once more.                     *)
Allowed(t) == IF t = "yes" THEN MaxRetries + 1 ELSE 0

(* The model is being called, or will be for the failure just counted.      *)
Counted ==
    \/ run.stage \in {"calling", "tools"}
    \/ \E c \in Chains :
          \/ chain[c].pc = "sleeping"
          \/ chain[c].pc = "compacting" /\ chain[c].why = "overflow"

(* An answer has ended the run, and is still to be dealt with.              *)
Answered ==
    \/ run.stage = "ending"
    \/ \E c \in Chains : chain[c].pc = "post" /\ chain[c].pre # "first"

(* The bounds of a row of f failures.                                       *)
Bounds(f, t, a) ==
    /\ f <= Allowed(t) + MaxRetries + 1
    /\ Counted => f <= Allowed(t) + a
    /\ Answered /\ last.stop = "retry" => f <= Allowed(t) + a + 1

RowInv == missed = "no" => Bounds(Fails(log), tried, attempt)

LEMMA AllowedIs ==
    ASSUME LogOK, NEW t \in {tried, "yes"}, NEW f \in Nat, NEW a \in Nat
    PROVE  /\ Allowed(t) \in Nat /\ MaxRetries \in Nat
           /\ f <= Allowed(tried) + MaxRetries + 1 => f <= Allowed(t) + MaxRetries + 1
           /\ 0 <= Allowed(t) + a /\ 0 <= Allowed(t) + MaxRetries + 1
           /\ 0 <= Allowed(t) + a + 1
           /\ (tried = "no" /\ t = "yes" /\ f <= Allowed(tried) + MaxRetries + 1) =>
                 f <= Allowed(t) + a
<1>1. MaxRetries \in Nat
  BY LogFacts
<1>. QED  BY <1>1 DEF Allowed

LEMMA FailsType ==
    ASSUME NEW l \in Seq(Message) PROVE Fails(l) \in Nat
  BY RowFinite DEF Fails

(* What chains there are beside the one that moves.                         *)
LEMMA OnlyOne ==
    ASSUME Alone, ControlOK, NEW c \in Chains, Underway(c)
    PROVE  /\ \A d \in Chains \ {c} : ~Underway(d)
           /\ chain[c].pc # "running" => ~Streaming
<1>1. \A d \in Chains \ {c} : ~Underway(d)
  BY DEF Alone
<1>2. Streaming => run.chain \in Chains /\ chain[run.chain].pc = "running"
  BY DEF ControlOK
<1>3. Streaming => Underway(run.chain)
  BY <1>2 DEF Underway
<1>. QED  BY <1>1, <1>2, <1>3

(* Chain c, alone under way, moves; none is under way beside it after that. *)
LEMMA MovedIs ==
    ASSUME Alone, ControlOK, NEW c \in Chains, Underway(c), NEW e \in Chain,
           chain' = [chain EXCEPT ![c] = e]
    PROVE  /\ Alone' /\ chain'[c] = e
           /\ \A d \in Chains : chain'[d].pc \notin {"idle", "done", "failed"} => d = c
<1>. HIDE DEF Chain
<1>1. chain'[c] = e /\ \A d \in Chains \ {c} : chain'[d] = chain[d]
  BY DEF ControlOK
<1>2. \A d \in Chains \ {c} : ~Underway(d)
  BY OnlyOne
<1>3. \A d \in Chains : chain'[d].pc \notin {"idle", "done", "failed"} => d = c
  BY <1>1, <1>2 DEF Underway
<1>. QED  BY <1>1, <1>3 DEF Alone, Underway

LEMMA RowEnded ==
    ASSUME TypeOK, Alone, RowInv, NEW c \in Chains, Underway(c), chain[c].pc # "running",
           NEW l \in Seq(Message), Fails(l) = Fails(log), NEW t \in {tried, "yes"},
           NEW a \in 0 .. MaxRetries, Ended(c, l, t, a)
    PROVE  Alone' /\ RowInv'
<1>0. LogOK /\ ControlOK /\ pending \in Seq(Message) /\ log \in Seq(Message)
      /\ \A i \in 1 .. Len(pending) : pending[i].role = "bash"
  BY TypeParts, ShellSeq DEF LogOK
<1>1. PICK pc \in {"done", "failed", "sending"} : Goto(c, pc, "no")
  BY DEF Ended
<1>2. PICK e \in Chain : chain' = [chain EXCEPT ![c] = e] /\ e.pc = pc
  BY <1>0, <1>1, GotoIs
<1>3. /\ Alone' /\ chain'[c] = e
      /\ \A d \in Chains : chain'[d].pc \notin {"idle", "done", "failed"} => d = c
  <2>. HIDE DEF Chain
  <2>. QED  BY <1>0, <1>2, MovedIs
<1>4. run'.stage = "none"
  BY <1>0, OnlyOne DEF Ended, Streaming
<1>5. ~Counted' /\ ~Answered'
  BY <1>2, <1>3, <1>4 DEF Counted, Answered
<1>6. log' = l \o pending /\ tried' = t /\ missed' = missed
  BY DEF Ended
<1>7. Fails(log') = Fails(log)
  <2>1. \A i \in 1 .. Len(pending) : ~IsError(pending[i]) /\ ~EndsRow(pending[i])
    BY <1>0 DEF IsError, EndsRow, IsAnswer
  <2>2. FailuresInRow(l \o pending) = FailuresInRow(l)
    BY <1>0, <2>1, RowConcat
  <2>. QED  BY <1>6, <2>2 DEF Fails
<1>8. Fails(log) \in Nat /\ a \in Nat
  BY <1>0, FailsType
<1>9. missed' = "no" => Fails(log') <= Allowed(tried') + MaxRetries + 1
  BY <1>0, <1>6, <1>7, <1>8, AllowedIs DEF RowInv, Bounds
<1>. QED  BY <1>3, <1>5, <1>9 DEF RowInv, Bounds, Allowed

LEMMA RowResumed ==
    ASSUME TypeOK, Alone, RowInv, NEW c \in Chains, Underway(c), chain[c].pc # "running",
           NEW l \in Seq(Message), Fails(l) = Fails(log), NEW t \in {tried, "yes"},
           NEW a \in 0 .. MaxRetries, Resumed(c, l, t, a),
           queue > 0 \/ (missed = "no" => Fails(log) <= Allowed(t) + a)
    PROVE  Alone' /\ RowInv'
<1>0. LogOK /\ ControlOK /\ log \in Seq(Message) /\ queue \in Nat
  BY TypeParts DEF LogOK
<1>1. PICK pre \in {"no", "loop"} : Goto(c, "running", pre)
  BY DEF Resumed
<1>2. PICK e \in Chain : chain' = [chain EXCEPT ![c] = e] /\ e.pc = "running"
  BY <1>0, <1>1, GotoIs
<1>3. /\ Alone' /\ chain'[c] = e
      /\ \A d \in Chains : chain'[d].pc \notin {"idle", "done", "failed"} => d = c
  <2>. HIDE DEF Chain
  <2>. QED  BY <1>0, <1>2, MovedIs
<1>4. run'.stage = "calling"
  BY DEF Resumed, CallModel
<1>5. ~Answered'
  BY <1>2, <1>3, <1>4 DEF Answered
<1>6. Heard(l, Poll, t, a)
  BY DEF Resumed
<1>7. Fails(log) \in Nat /\ a \in Nat
  BY <1>0, FailsType
<1>8. CASE queue = 0
  <2>1. Poll = <<>> /\ l \o <<>> = l
    BY <1>8, PollIs, ConcatEmptySeq
  <2>2. DOMAIN <<>> = {}
    OBVIOUS
  <2>3. log' = l /\ tried' = t /\ attempt' = a /\ missed' = missed
    BY <1>6, <2>1, <2>2 DEF Heard
  <2>4. missed = "no" => Fails(log) <= Allowed(t) + MaxRetries + 1
    BY <1>0, <1>7, AllowedIs DEF RowInv, Bounds
  <2>5. missed = "no" => Fails(log) <= Allowed(t) + a
    BY <1>8
  <2>6. missed' = "no" => /\ Fails(log') <= Allowed(tried') + MaxRetries + 1
                          /\ Fails(log') <= Allowed(tried') + attempt'
    BY <2>3, <2>4, <2>5
  <2>. QED  BY <1>3, <1>5, <2>6 DEF RowInv, Bounds, Allowed
<1>9. CASE queue > 0
  <2>1. /\ Poll = <<User>> /\ Len(<<User>>) = 1 /\ <<User>>[1] = User
        /\ <<User>> \in Seq(Message) /\ EndsRow(User) /\ ~IsError(User)
        /\ <<User>> # <<>>
    <3>1. <<User>> # <<>>
      OBVIOUS
    <3>. HIDE DEF User
    <3>. QED  BY <1>9, <3>1, PollIs, UserIs
  <2>. HIDE DEF User
  <2>2. CASE connected = "yes"
    <3>1. \A i \in 1 .. Len(<<User>>) : ~IsError(<<User>>[i])
      BY <2>1
    <3>2. 1 \in 1 .. Len(<<User>>) /\ EndsRow(<<User>>[1])
      BY <2>1
    <3>3. FailuresInRow(l \o <<User>>) = {}
      BY <2>1, <3>1, <3>2, RowConcat
    <3>4. log' = l \o <<User>> /\ tried' \in {"no", t} /\ attempt' \in {0, a}
      BY <1>6, <2>1, <2>2 DEF Heard
    <3>5. Fails(log') = 0
      BY <3>3, <3>4, FS_EmptySet DEF Fails
    <3>6. Allowed(tried') \in Nat /\ attempt' \in Nat /\ MaxRetries \in Nat
      BY <1>0, <1>7, <3>4, LogFacts DEF Allowed
    <3>7. /\ 0 <= Allowed(tried') + MaxRetries + 1
          /\ 0 <= Allowed(tried') + attempt' /\ 0 <= Allowed(tried') + attempt' + 1
      BY <3>6
    <3>. QED  BY <1>3, <3>5, <3>7 DEF RowInv, Bounds, Allowed
  <2>3. CASE connected # "yes"
    BY <1>3, <1>6, <2>1, <2>3 DEF Heard, RowInv
  <2>. QED  BY <2>2, <2>3
<1>. QED  BY <1>0, <1>8, <1>9

LEMMA RowCompacting ==
    ASSUME TypeOK, Alone, RowInv, NEW c \in Chains, Underway(c), chain[c].pc # "running",
           NEW t \in {tried, "yes"}, NEW a \in 0 .. MaxRetries, Compacting(c, t, a)
    PROVE  Alone' /\ RowInv'
<1>0. LogOK /\ ControlOK /\ log \in Seq(Message)
  BY TypeParts DEF LogOK
<1>1. PICK keep \in Nat, why \in {"overflow", "threshold"} :
         /\ chain' = [chain EXCEPT ![c] = [@ EXCEPT !.pc = "compacting", !.why = why,
                                                    !.keep = keep, !.msg = None]]
         /\ why = "overflow" => tried = "no" /\ t = "yes"
  BY DEF Compacting
<1> DEFINE e == [chain[c] EXCEPT !.pc = "compacting", !.why = why,
                                 !.keep = keep, !.msg = None]
<1>2. e \in Chain /\ e.pc = "compacting" /\ e.why = why
  <2>1. chain[c] \in Chain /\ None \in Message
    BY <1>0, UserIs DEF ControlOK
  <2>. HIDE DEF Message, None
  <2>. QED  BY <2>1 DEF Chain
<1>3. chain' = [chain EXCEPT ![c] = e]
  BY <1>1
<1>. HIDE DEF e
<1>4. /\ Alone' /\ chain'[c] = e
      /\ \A d \in Chains : chain'[d].pc \notin {"idle", "done", "failed"} => d = c
  <2>. HIDE DEF Chain
  <2>. QED  BY <1>0, <1>2, <1>3, MovedIs
<1>5. run'.stage = "none" /\ log' = log /\ tried' = t /\ attempt' = a /\ missed' = missed
  BY <1>0, OnlyOne DEF Compacting, Streaming
<1>6. ~Answered' /\ (Counted' => why = "overflow")
  BY <1>2, <1>4, <1>5 DEF Answered, Counted
<1>7. Fails(log) \in Nat /\ a \in Nat
  BY <1>0, FailsType
<1>8. missed' = "no" => Fails(log') <= Allowed(tried') + MaxRetries + 1
  BY <1>0, <1>5, <1>7, AllowedIs DEF RowInv, Bounds
<1>9. missed' = "no" /\ why = "overflow" => Fails(log') <= Allowed(tried') + attempt'
  BY <1>0, <1>1, <1>5, <1>7, AllowedIs DEF RowInv, Bounds
<1>. QED  BY <1>4, <1>6, <1>8, <1>9 DEF RowInv, Bounds, Allowed

(* Nothing changes the row, and nobody calls the model, or has an answer to *)
(* deal with, who did not before.                                           *)
LEMMA RowStays ==
    ASSUME RowInv, Fails(log') = Fails(log), UNCHANGED <<tried, attempt, missed>>,
           Counted' => Counted,
           Answered' => Answered /\ last' = last
    PROVE  RowInv'
  BY DEF RowInv, Bounds, Allowed

(* Entries that are no answers and no user messages.                        *)
LEMMA RowAdds ==
    ASSUME log \in Seq(Message), NEW ms \in Seq(Message),
           \A i \in 1 .. Len(ms) : ms[i].role \in {"bash", "compaction", "result"}
    PROVE  log \o ms \in Seq(Message) /\ Fails(log \o ms) = Fails(log)
<1>1. \A i \in 1 .. Len(ms) : ~IsError(ms[i]) /\ ~EndsRow(ms[i])
  BY DEF IsError, EndsRow, IsAnswer
<1>2. FailuresInRow(log \o ms) = FailuresInRow(log)
  BY <1>1, RowConcat
<1>. QED  BY <1>2, ConcatProperties DEF Fails

LEMMA RowAppends ==
    ASSUME log \in Seq(Message), NEW m \in Message,
           m.role \in {"bash", "compaction", "result"}
    PROVE  Append(log, m) \in Seq(Message) /\ Fails(Append(log, m)) = Fails(log)
<1>1. Append(log, m) = log \o <<m>> /\ <<m>> \in Seq(Message)
  <2>. HIDE DEF Message
  <2>. QED  BY AppendIsConcat
<1>2. \A i \in 1 .. Len(<<m>>) : <<m>>[i].role \in {"bash", "compaction", "result"}
  OBVIOUS
<1>. HIDE DEF Message
<1>3. log \o <<m>> \in Seq(Message) /\ Fails(log \o <<m>>) = Fails(log)
  BY <1>1, <1>2, RowAdds
<1>. QED  BY <1>1, <1>3

LEMMA RowCompacted ==
    ASSUME log \in Seq(Message), NEW keep \in Nat
    PROVE  Compacted(keep) \in Seq(Message) /\ Fails(Compacted(keep)) = Fails(log)
<1> DEFINE m == Msg("compaction", "none", keep)
<1>1. m \in Message /\ m.role = "compaction"
  BY MessageIs DEF Msg
<1>. HIDE DEF m, Message
<1>. QED  BY <1>1, RowAppends DEF Compacted, m

(* The actions of the user and the host.                                    *)
LEMMA RowHost ==
    ASSUME Overlap = "no", TypeOK, Alone, RowInv,
           Steer \/ RecordBash \/ Abort \/ Compact \/ \E c \in Chains : Prompt(c)
    PROVE  Alone' /\ RowInv'
<1>0. /\ LogOK /\ ControlOK /\ DoneOK /\ log \in Seq(Message) /\ pending \in Seq(Message)
      /\ \A i \in 1 .. Len(pending) : pending[i].role = "bash"
  BY TypeParts, ShellSeq DEF LogOK
<1>1. CASE Steer
  BY <1>1, RowStays DEF Steer, Alone, Underway, Counted, Answered
<1>2. CASE RecordBash
  <2> DEFINE m == Msg("bash", "none", done.bashes)
  <2>1. m \in Message /\ m.role = "bash"
    BY <1>0, MessageIs DEF Msg, DoneOK
  <2>2. log' \in {log, Append(log, m)} /\ UNCHANGED <<run, chain, tried, attempt, missed, last>>
    BY <1>2 DEF RecordBash
  <2>. HIDE DEF m, Message
  <2>3. m \in Message /\ m.role \in {"bash", "compaction", "result"}
    BY <2>1
  <2>4. Fails(Append(log, m)) = Fails(log)
    BY <1>0, <2>3, RowAppends
  <2>5. Fails(log') = Fails(log)
    BY <2>2, <2>4
  <2>. QED  BY <2>2, <2>5, RowStays DEF Alone, Underway, Counted, Answered
<1>3. CASE Abort \/ Compact
  <2>1. Stop /\ UNCHANGED <<log, tried, attempt, missed, last>>
    BY <1>3 DEF Abort, Compact
  <2>2. \A c \in Chains :
           \/ chain'[c] = chain[c]
           \/ chain[c].pc = "sleeping" /\ chain'[c].pc = "cancelled"
    <3>1. \A c \in Chains : chain[c] \in Chain
      BY <1>0 DEF ControlOK
    <3>2. \A e \in Chain : [e EXCEPT !.pc = "cancelled"].pc = "cancelled"
      <4>. HIDE DEF Message
      <4>. QED  BY DEF Chain
    <3>. HIDE DEF Chain, Run
    <3>. QED  BY ZenonT(60), <1>0, <2>1, <3>1, <3>2, StopIs
  <2>3. run'.stage = run.stage
    BY <1>0, <2>1, StopIs
  <2>4. (Counted' => Counted) /\ (Answered' => Answered)
    BY <2>2, <2>3 DEF Counted, Answered
  <2>5. Alone'
    <3>1. \A c \in Chains : chain'[c].pc \notin {"idle", "done", "failed"} => Underway(c)
      BY <2>2 DEF Underway
    <3>. QED  BY <3>1 DEF Alone, Underway
  <2>. QED  BY <2>1, <2>4, <2>5, RowStays
<1>4. ASSUME NEW c \in Chains, Prompt(c) PROVE Alone' /\ RowInv'
  <2>1. /\ \A d \in Chains : ~Underway(d)
        /\ ~Streaming /\ log' = log \o pending
        /\ chain' = [chain EXCEPT ![c] = [@ EXCEPT !.pc = "post", !.pre = "first"]]
        /\ UNCHANGED <<run, tried, attempt, missed, last>>
    BY <1>4 DEF Prompt
  <2>2. Fails(log') = Fails(log)
    BY <1>0, <2>1, RowAdds
  <2>3. /\ chain'[c].pc = "post" /\ chain'[c].pre = "first"
        /\ \A d \in Chains \ {c} : chain'[d] = chain[d]
    <3>1. chain \in [Chains -> Chain]
      BY <1>0 DEF ControlOK
    <3> DEFINE e == [chain[c] EXCEPT !.pc = "post", !.pre = "first"]
    <3>2. e.pc = "post" /\ e.pre = "first"
      <4>1. chain[c] \in Chain
        BY <3>1
      <4>. HIDE DEF Message
      <4>. QED  BY <4>1 DEF Chain
    <3>3. chain' = [chain EXCEPT ![c] = e]
      BY <2>1
    <3>. HIDE DEF Chain, e
    <3>. QED  BY <3>1, <3>2, <3>3
  <2>4. Alone'
    BY <2>1, <2>3 DEF Alone, Underway
  <2>5. ~Counted' /\ ~Answered'
    BY <2>1, <2>3 DEF Counted, Answered, Underway, Streaming
  <2>. QED  BY <2>1, <2>2, <2>4, <2>5, RowStays
<1>. QED  BY <1>1, <1>2, <1>3, <1>4

(* compact() and the run of the agent.                                      *)
LEMMA RowRun ==
    ASSUME TypeOK, Alone, RowInv,
           CompactBegins \/ CompactEnds \/ FinishTools \/ EndRun
    PROVE  Alone' /\ RowInv'
<1>0. /\ LogOK /\ ControlOK /\ log \in Seq(Message)
  BY TypeParts DEF LogOK
<1>1. CASE CompactBegins
  BY <1>1, RowStays DEF CompactBegins, Alone, Underway, Counted, Answered
<1>2. CASE CompactEnds
  <2>1. log' \in {log, Compacted(manual.keep)}
        /\ UNCHANGED <<run, chain, tried, attempt, missed, last>>
    BY <1>2 DEF CompactEnds
  <2>2. manual.keep \in Nat
    BY <1>0 DEF ControlOK
  <2>3. Fails(log') = Fails(log)
    BY <1>0, <2>1, <2>2, RowCompacted
  <2>. QED  BY <2>1, <2>3, RowStays DEF Alone, Underway, Counted, Answered
<1>3. CASE FinishTools
  <2> DEFINE m == Msg("result", "none", 0)
  <2>1. PICK ms \in Seq(Message) :
              /\ ms = IF queue > 0 THEN <<m, User>> ELSE <<m>>
              /\ m \in Message
              /\ Heard(log, ms, tried, attempt)
              /\ run' = [run EXCEPT !.stage = "calling", !.era = Era]
              /\ UNCHANGED <<last, chain>>
    BY <1>3, FinishToolsIs
  <2>2. m.role = "result"
    BY DEF Msg
  <2>3. run'.stage = "calling" /\ run.stage = "tools"
    BY <1>0, <1>3, <2>1 DEF ControlOK, Run, FinishTools
  <2>4. Alone'
    BY <2>1 DEF Alone, Underway
  <2>5. Counted /\ (Answered' => Answered /\ last' = last)
    BY <2>1, <2>3 DEF Counted, Answered
  <2>. HIDE DEF m, User
  <2>6. CASE connected # "yes"
    <3>1. missed' = "yes"
      <4>1. <<m>> # <<>> /\ <<m, User>> # <<>>
        OBVIOUS
      <4>. QED  BY <2>1, <2>6, <4>1 DEF Heard
    <3>. QED  BY <2>4, <3>1 DEF RowInv
  <2>7. CASE connected = "yes" /\ queue > 0
    <3>1. ms = <<m, User>> /\ Len(ms) = 2 /\ ms[1] = m /\ ms[2] = User
      BY <2>1, <2>7
    <3>2. ~IsError(m) /\ ~IsError(User) /\ EndsRow(User)
      BY <2>2, UserIs DEF IsError, IsAnswer
    <3>3. \A i \in 1 .. Len(ms) : ~IsError(ms[i])
      BY <3>1, <3>2
    <3>4. 2 \in 1 .. Len(ms) /\ EndsRow(ms[2])
      BY <3>1, <3>2
    <3>5. FailuresInRow(log \o ms) = {}
      BY <1>0, <3>3, <3>4, RowConcat
    <3>6. log' = log \o ms /\ tried' \in {"no", tried} /\ attempt' \in {0, attempt}
      BY <2>1, <2>7 DEF Heard
    <3>7. Fails(log') = 0
      BY <3>5, <3>6, FS_EmptySet DEF Fails
    <3>8. Allowed(tried') \in Nat /\ attempt' \in Nat /\ MaxRetries \in Nat
      BY <1>0, <3>6, LogFacts DEF Allowed
    <3>9. /\ 0 <= Allowed(tried') + MaxRetries + 1
          /\ 0 <= Allowed(tried') + attempt' /\ 0 <= Allowed(tried') + attempt' + 1
      BY <3>8
    <3>. QED  BY <2>4, <3>7, <3>9 DEF RowInv, Bounds, Allowed
  <2>8. CASE connected = "yes" /\ ~(queue > 0)
    <3>1. ms = <<m>> /\ Len(ms) = 1 /\ ms[1] = m
      BY <2>1, <2>8
    <3>2. \A i \in 1 .. Len(ms) : ms[i].role \in {"bash", "compaction", "result"}
      BY <2>2, <3>1
    <3>3. Fails(log \o ms) = Fails(log)
      BY <1>0, <3>2, RowAdds
    <3>4. \A i \in DOMAIN ms : ~IsAnswer(ms[i]) /\ ~EndsRow(ms[i])
      <4>1. DOMAIN ms = 1 .. Len(ms)
        BY LenProperties
      <4>. QED  BY <2>2, <3>1, <4>1 DEF IsAnswer, EndsRow
    <3>5. log' = log \o ms /\ UNCHANGED <<tried, attempt, missed>>
      BY <2>1, <2>8, <3>4 DEF Heard
    <3>. QED  BY <2>4, <2>5, <3>3, <3>5, RowStays
  <2>. QED  BY <2>6, <2>7, <2>8
<1>4. CASE EndRun
  <2> DEFINE c == run.chain
  <2>1. c \in Chains /\ chain \in [Chains -> Chain] /\ run.stage = "ending"
        /\ chain[c].pc = "running"
    BY <1>0, <1>4 DEF EndRun, ControlOK, Streaming
  <2>2. /\ chain' = [chain EXCEPT ![c].pc = "post"] /\ run'.stage = "none"
        /\ UNCHANGED <<log, tried, attempt, missed, last>>
    BY <1>4 DEF EndRun
  <2> DEFINE e == [chain[c] EXCEPT !.pc = "post"]
  <2>3. e \in Chain /\ e.pc = "post"
    <3>1. chain[c] \in Chain
      BY <2>1
    <3>. HIDE DEF Message
    <3>. QED  BY <3>1 DEF Chain
  <2>4. chain' = [chain EXCEPT ![c] = e] /\ Underway(c)
    BY <2>1, <2>2 DEF Underway
  <2>. HIDE DEF c, e
  <2>5. /\ Alone' /\ chain'[c] = e
        /\ \A d \in Chains : chain'[d].pc \notin {"idle", "done", "failed"} => d = c
    <3>. HIDE DEF Chain
    <3>. QED  BY <1>0, <2>1, <2>3, <2>4, MovedIs
  <2>6. ~Counted' /\ Answered
    BY <2>1, <2>2, <2>3, <2>5 DEF Counted, Answered
  <2>. QED  BY <2>2, <2>5, <2>6, RowStays
<1>. QED  BY <1>1, <1>2, <1>3, <1>4

LEMMA RowRespond ==
    ASSUME TypeOK, Alone, RowInv, Respond PROVE Alone' /\ RowInv'
<1>0. /\ LogOK /\ ControlOK /\ log \in Seq(Message) /\ attempt \in Nat
      /\ Fails(log) \in Nat /\ MaxRetries \in Nat /\ attempt <= MaxRetries
  BY TypeParts, FailsType, LogFacts DEF LogOK
<1>1. PICK stop \in Stops, ms \in Seq(Message) :
         LET m == Msg("assistant", stop, run.era)
             more == stop \in {"stop", "big", "full"} /\ queue > 0
         IN  /\ m \in Message /\ run.stage = "calling"
             /\ ms = IF more THEN <<m, User>> ELSE <<m>>
             /\ Heard(log, ms, tried, attempt)
             /\ last' = IF connected = "yes" THEN m ELSE last
             /\ run' = [run EXCEPT !.stage = IF stop = "tools" THEN "tools"
                            ELSE IF more THEN "calling" ELSE "ending"]
             /\ chain' = chain
  BY RespondIs
<1> DEFINE m == Msg("assistant", stop, run.era)
           more == stop \in {"stop", "big", "full"} /\ queue > 0
<1>2. /\ m \in Message /\ run.stage = "calling"
      /\ ms = IF more THEN <<m, User>> ELSE <<m>>
      /\ Heard(log, ms, tried, attempt) /\ chain' = chain
      /\ last' = IF connected = "yes" THEN m ELSE last
      /\ run' = [run EXCEPT !.stage = IF stop = "tools" THEN "tools"
                     ELSE IF more THEN "calling" ELSE "ending"]
  BY <1>1
<1>3. IsAnswer(m) /\ (IsError(m) <=> stop \in Errors)
  BY DEF IsError, IsAnswer, Msg
<1>4. run \in Run
  BY <1>0 DEF ControlOK
<1>. HIDE DEF m
<1>5. Alone'
  BY <1>2 DEF Alone, Underway
<1>6. CASE connected # "yes"
  <2>1. <<m>> # <<>> /\ <<m, User>> # <<>>
    OBVIOUS
  <2>2. missed' = "yes"
    BY <1>2, <1>6, <2>1 DEF Heard
  <2>. QED  BY <1>5, <2>2 DEF RowInv
<1>7. CASE connected = "yes" /\ IsError(m)
  <2>1. ms = <<m>> /\ Len(ms) = 1 /\ ms[1] = m /\ stop # "tools" /\ ~more
    BY <1>2, <1>3, <1>7 DEF Errors
  <2>2. Fails(log \o ms) = Fails(log) + 1
    BY <1>0, <1>7, <2>1, RowConcat DEF Fails
  <2>3. ~EndsRow(m)
    BY <1>3, <1>7 DEF EndsRow, IsAnswer
  <2>4. \A i \in DOMAIN ms : IsError(ms[i]) /\ ~EndsRow(ms[i])
    <3>1. DOMAIN ms = 1 .. Len(ms)
      BY LenProperties
    <3>. QED  BY <1>7, <2>1, <2>3, <3>1
  <2>5. log' = log \o ms /\ UNCHANGED <<tried, attempt, missed>>
    BY <1>2, <1>7, <2>4 DEF Heard
  <2>6. run'.stage = "ending"
    BY <1>2, <1>4, <2>1 DEF Run
  <2>7. Streaming /\ chain[run.chain].pc = "running" /\ run.chain \in Chains
    BY <1>0, <1>2 DEF Streaming, ControlOK
  <2>8. \A d \in Chains : ~Underway(d) \/ d = run.chain
    BY <1>0, <2>7, OnlyOne DEF Underway
  <2>9. ~Counted'
    BY <1>2, <2>6, <2>7, <2>8 DEF Counted, Underway
  <2>10. missed = "no" => Fails(log) <= Allowed(tried) + attempt
    BY <1>2 DEF RowInv, Bounds, Counted
  <2>11. Allowed(tried) \in Nat
    BY <1>0 DEF Allowed
  <2> DEFINE f == Fails(log)
             b == Allowed(tried)
  <2>12. f \in Nat /\ b \in Nat /\ (missed = "no" => f <= b + attempt)
    BY <1>0, <2>10, <2>11
  <2>. HIDE DEF f, b
  <2>13. missed = "no" => f + 1 <= b + attempt + 1 /\ f + 1 <= b + MaxRetries + 1
    BY <1>0, <2>12
  <2>14. missed' = "no" => /\ Fails(log') <= Allowed(tried') + MaxRetries + 1
                           /\ Fails(log') <= Allowed(tried') + attempt' + 1
    BY <2>2, <2>5, <2>13 DEF f, b
  <2>. QED  BY <1>5, <2>9, <2>14 DEF RowInv, Bounds, Allowed
<1>8. CASE connected = "yes" /\ ~IsError(m)
  <2>1. Len(<<m>>) = 1 /\ Len(<<m, User>>) = 2
        /\ <<m>>[1] = m /\ <<m, User>>[1] = m /\ <<m, User>>[2] = User
    OBVIOUS
  <2>2. EndsRow(m) /\ ~IsError(User)
    BY <1>3, <1>8, UserIs DEF EndsRow
  <2>. HIDE DEF User
  <2>3. \A i \in 1 .. Len(ms) : ~IsError(ms[i])
    BY <1>2, <1>8, <2>1, <2>2
  <2>4. 1 \in 1 .. Len(ms) /\ EndsRow(ms[1])
    BY <1>2, <2>1, <2>2
  <2>5. FailuresInRow(log \o ms) = {}
    BY <1>0, <2>3, <2>4, RowConcat
  <2>6. log' = log \o ms /\ tried' \in {"no", tried} /\ attempt' \in {0, attempt}
    BY <1>2, <1>8 DEF Heard
  <2>7. Fails(log') = 0
    BY <2>5, <2>6, FS_EmptySet DEF Fails
  <2>8. Allowed(tried') \in Nat /\ attempt' \in Nat
    BY <1>0, <2>6 DEF Allowed
  <2>9. /\ 0 <= Allowed(tried') + MaxRetries + 1
        /\ 0 <= Allowed(tried') + attempt' /\ 0 <= Allowed(tried') + attempt' + 1
    BY <1>0, <2>8
  <2>. QED  BY <1>5, <2>7, <2>9 DEF RowInv, Bounds, Allowed
<1>. QED  BY <1>6, <1>7, <1>8

(* What a chain does between the runs.                                      *)
LEMMA RowOutcome ==
    ASSUME TypeOK, Alone, RowInv, NEW c \in Chains, Underway(c), chain[c].pc # "running",
           NEW l \in Seq(Message), Fails(l) = Fails(log), NEW t \in {tried, "yes"},
           NEW a \in 0 .. MaxRetries,
           \/ Ended(c, l, t, a)
           \/ queue > 0 /\ Resumed(c, l, t, a)
           \/ l = log /\ Compacting(c, t, a)
    PROVE  Alone' /\ RowInv'
  BY RowEnded, RowResumed, RowCompacting

LEMMA RowCheck ==
    ASSUME TypeOK, Alone, RowInv, NEW c \in Chains, Underway(c), chain[c].pc # "running",
           NEW msg, NEW a \in 0 .. MaxRetries, Check(c, msg, a)
    PROVE  Alone' /\ RowInv'
<1>0. LogOK /\ log \in Seq(Message) /\ pending \in Seq(Message)
  BY TypeParts, LogFacts
<1>1. PICK t \in {tried, "yes"} :
         \/ Ended(c, log, t, a)
         \/ queue > 0 /\ Resumed(c, log, t, a)
         \/ Compacting(c, t, a)
  BY <1>0, CheckIs
<1>. QED  BY <1>0, <1>1, RowOutcome

(* The error is counted as an attempt, and the model will be called again.  *)
LEMMA RowRetry ==
    ASSUME TypeOK, Alone, RowInv, NEW c \in Chains, chain[c].pc = "post",
           chain[c].pre # "first", last.stop = "retry", Retry(c)
    PROVE  Alone' /\ RowInv'
<1>0. /\ LogOK /\ ControlOK /\ log \in Seq(Message) /\ attempt \in Nat
      /\ Fails(log) \in Nat /\ MaxRetries \in Nat
  BY TypeParts, FailsType, LogFacts DEF LogOK
<1>1. /\ attempt' = attempt + 1 /\ UNCHANGED <<run, log, tried, missed>>
      /\ chain' = [chain EXCEPT ![c].pc = "sleeping", ![c].msg = last]
  BY DEF Retry
<1> DEFINE e == [chain[c] EXCEPT !.pc = "sleeping", !.msg = last]
<1>2. e \in Chain /\ e.pc = "sleeping"
  <2>1. chain[c] \in Chain /\ last \in Message
    BY <1>0 DEF ControlOK, LogOK
  <2>. HIDE DEF Message
  <2>. QED  BY <2>1 DEF Chain
<1>3. chain' = [chain EXCEPT ![c] = e] /\ Underway(c)
  <2>1. chain \in [Chains -> Chain]
    BY <1>0 DEF ControlOK
  <2>. HIDE DEF Chain, Message
  <2>. QED  BY <1>1, <2>1 DEF Underway
<1>. HIDE DEF e
<1>4. /\ Alone' /\ chain'[c] = e
      /\ \A d \in Chains : chain'[d].pc \notin {"idle", "done", "failed"} => d = c
  <2>. HIDE DEF Chain
  <2>. QED  BY <1>0, <1>2, <1>3, MovedIs
<1>5. ~Answered'
  <2>1. run.stage = "none"
    BY <1>0, <1>3, OnlyOne DEF Streaming
  <2>. QED  BY <1>1, <1>2, <1>4, <2>1 DEF Answered
<1>6. missed = "no" => /\ Fails(log) <= Allowed(tried) + attempt + 1
                       /\ Fails(log) <= Allowed(tried) + MaxRetries + 1
  BY DEF RowInv, Bounds, Answered
<1>7. Allowed(tried) \in Nat
  BY <1>0 DEF Allowed
<1>8. \A b \in Nat : b + (attempt + 1) = b + attempt + 1
  BY <1>0
<1>9. missed' = "no" => /\ Fails(log') <= Allowed(tried') + attempt'
                        /\ Fails(log') <= Allowed(tried') + MaxRetries + 1
  BY <1>1, <1>6, <1>7, <1>8
<1>. QED  BY <1>4, <1>5, <1>9 DEF RowInv, Bounds, Allowed

LEMMA RowChain ==
    ASSUME TypeOK, Alone, RowInv, NEW c \in Chains,
           \/ PromptChecks(c) \/ Send(c) \/ PostRun(c) \/ SleepEnds(c)
           \/ RetryCancelled(c) \/ CompactionSucceeds(c) \/ CompactionFails(c)
    PROVE  Alone' /\ RowInv'
<1>0. /\ LogOK /\ ControlOK /\ DoneOK
      /\ log \in Seq(Message) /\ pending \in Seq(Message) /\ queue \in Nat
      /\ attempt \in 0 .. MaxRetries /\ 0 \in 0 .. MaxRetries /\ MaxRetries \in Nat
  BY TypeParts, LogFacts DEF LogOK
<1>1. ASSUME NEW pc \in {"post", "sending", "sleeping", "cancelled", "compacting"},
             chain[c].pc = pc
      PROVE  Underway(c) /\ chain[c].pc # "running"
  BY <1>1 DEF Underway
<1>2. CASE PromptChecks(c)
  <2>1. chain[c].pc = "post" /\ \E msg : Check(c, msg, attempt)
    BY <1>2 DEF PromptChecks
  <2>. QED  BY <1>0, <1>1, <2>1, RowCheck
<1>3. CASE Send(c)
  <2>1. chain[c].pc = "sending"
    BY <1>3, SendIs
  <2>2. CASE Ended(c, log, tried, attempt)
    BY <1>0, <1>1, <2>1, <2>2, RowOutcome
  <2>3. ASSUME NEW ms \in Seq(Message), CallModel(c), Goto(c, "running", "no"),
               ms = IF queue > 0 THEN <<User, User>> ELSE <<User>>,
               Heard(log, ms, tried, attempt)
        PROVE  Alone' /\ RowInv'
    <3>1. PICK e \in Chain : chain' = [chain EXCEPT ![c] = e] /\ e.pc = "running"
      BY <1>0, <2>3, GotoIs
    <3>2. /\ Alone' /\ chain'[c] = e
          /\ \A d \in Chains : chain'[d].pc \notin {"idle", "done", "failed"} => d = c
      <4>. HIDE DEF Chain
      <4>. QED  BY <1>0, <1>1, <2>1, <3>1, MovedIs
    <3>3. ~Answered'
      BY <2>3, <3>1, <3>2 DEF Answered, CallModel
    <3>4. Len(<<User>>) = 1 /\ Len(<<User, User>>) = 2 /\ <<User>>[1] = User
          /\ <<User, User>>[1] = User /\ <<User, User>>[2] = User
          /\ <<User>> # <<>> /\ <<User, User>> # <<>>
      OBVIOUS
    <3>5. EndsRow(User) /\ ~IsError(User)
      BY UserIs
    <3>. HIDE DEF User
    <3>6. CASE connected # "yes"
      <4>1. missed' = "yes"
        BY <2>3, <3>4, <3>6 DEF Heard
      <4>. QED  BY <3>2, <4>1 DEF RowInv
    <3>7. CASE connected = "yes"
      <4>1. \A i \in 1 .. Len(ms) : ~IsError(ms[i])
        BY <2>3, <3>4, <3>5
      <4>2. 1 \in 1 .. Len(ms) /\ EndsRow(ms[1])
        BY <2>3, <3>4, <3>5
      <4>3. FailuresInRow(log \o ms) = {}
        BY <1>0, <4>1, <4>2, RowConcat
      <4>4. log' = log \o ms /\ tried' \in {"no", tried} /\ attempt' \in {0, attempt}
        BY <2>3, <3>7 DEF Heard
      <4>5. Fails(log') = 0
        BY <4>3, <4>4, FS_EmptySet DEF Fails
      <4>6. Allowed(tried') \in Nat /\ attempt' \in Nat
        BY <1>0, <4>4 DEF Allowed
      <4>7. /\ 0 <= Allowed(tried') + MaxRetries + 1
            /\ 0 <= Allowed(tried') + attempt' /\ 0 <= Allowed(tried') + attempt' + 1
        BY <1>0, <4>6
      <4>. QED  BY <3>2, <4>5, <4>7 DEF RowInv, Bounds, Allowed
    <3>. QED  BY <3>6, <3>7
  <2>. QED  BY <1>3, <2>2, <2>3, SendIs
<1>4. CASE PostRun(c)
  <2>1. /\ chain[c].pc = "post" /\ chain[c].pre # "first"
        /\ \/ Ended(c, log, tried, attempt)
           \/ last.stop = "retry" /\ Retry(c)
           \/ \E msg : \E a \in {0, attempt} : Check(c, msg, a)
    BY <1>4, PostRunIs
  <2>2. \A a \in {0, attempt} : a \in 0 .. MaxRetries
    BY <1>0
  <2>3. CASE Ended(c, log, tried, attempt)
    BY <1>0, <1>1, <2>1, <2>3, RowOutcome
  <2>4. CASE last.stop = "retry" /\ Retry(c)
    BY <2>1, <2>4, RowRetry
  <2>5. ASSUME NEW msg, NEW a \in {0, attempt}, Check(c, msg, a)
        PROVE  Alone' /\ RowInv'
    BY <1>1, <2>1, <2>2, <2>5, RowCheck
  <2>. QED  BY <2>1, <2>3, <2>4, <2>5
<1>5. CASE SleepEnds(c)
  <2>1. chain[c].pc = "sleeping" /\ Continue(c, ctx, log, tried, attempt)
    BY <1>5 DEF SleepEnds
  <2>2. missed = "no" => Fails(log) <= Allowed(tried) + attempt
    BY <2>1 DEF RowInv, Bounds, Counted
  <2>3. Ended(c, log, tried, attempt) \/ Resumed(c, log, tried, attempt)
    BY <1>0, <2>1, ContinueIs
  <2>. QED  BY <1>0, <1>1, <2>1, <2>2, <2>3, RowEnded, RowResumed
<1>6. CASE RetryCancelled(c)
  <2>1. chain[c].pc = "cancelled" /\ Check(c, chain[c].msg, 0)
    BY <1>6 DEF RetryCancelled
  <2>. QED  BY <1>0, <1>1, <2>1, RowCheck
<1>7. CASE CompactionSucceeds(c)
  <2> DEFINE l == Compacted(chain[c].keep)
  <2>1. chain[c].keep \in Nat /\ chain[c].pc = "compacting"
    BY <1>0, <1>7 DEF ControlOK, Chain, CompactionSucceeds
  <2>2. l \in Seq(Message) /\ Fails(l) = Fails(log)
    BY <1>0, <2>1, RowCompacted
  <2>3. \E x : \/ /\ chain[c].why = "overflow" \/ queue > 0
                  /\ Continue(c, x, l, tried, attempt)
               \/ GoOn(c, x, l, tried, attempt)
    BY <1>7 DEF CompactionSucceeds
  <2>. HIDE DEF l
  <2>4. \/ Ended(c, l, tried, attempt)
        \/ /\ chain[c].why = "overflow" \/ queue > 0
           /\ Resumed(c, l, tried, attempt)
    BY <1>0, <2>2, <2>3, ContinueIs, GoOnIs
  <2>5. chain[c].why = "overflow" /\ missed = "no" =>
           Fails(log) <= Allowed(tried) + attempt
    BY <2>1 DEF RowInv, Bounds, Counted
  <2>. QED  BY <1>0, <1>1, <2>1, <2>2, <2>4, <2>5, RowEnded, RowResumed
<1>8. CASE CompactionFails(c)
  <2>1. chain[c].pc = "compacting" /\ GoOn(c, ctx, log, tried, attempt)
    BY <1>8 DEF CompactionFails
  <2>2. \/ Ended(c, log, tried, attempt)
        \/ queue > 0 /\ Resumed(c, log, tried, attempt)
    BY <1>0, <2>1, GoOnIs
  <2>. QED  BY <1>0, <1>1, <2>1, <2>2, RowOutcome
<1>. QED  BY <1>2, <1>3, <1>4, <1>5, <1>6, <1>7, <1>8

(* One prompt is under way, and its row of errors is bounded.               *)
LEMMA RowHolds ==
    ASSUME Overlap = "no" PROVE Spec => [](Alone /\ RowInv)
<1>1. Init => Alone /\ RowInv
  <2> SUFFICES ASSUME Init PROVE Alone /\ RowInv
    OBVIOUS
  <2>1. \A c \in Chains : chain[c].pc = "idle"
    BY DEF Init
  <2>2. run.stage = "none" /\ tried = "no"
    BY DEF Init
  <2>3. FailuresInRow(log) = {}
    <3> DEFINE m == Msg("assistant", "cut", 0)
    <3>1. log \in {<<>>, <<User, m>>}
      BY DEF Init
    <3>2. ~IsError(User) /\ ~IsError(m)
      BY DEF IsError, IsAnswer, User, Msg, Errors
    <3>. HIDE DEF User, m
    <3>. QED  BY <3>1, <3>2 DEF FailuresInRow
  <2>4. Fails(log) = 0 /\ MaxRetries \in Nat
    BY <2>3, FS_EmptySet, SessionAssumption DEF Fails
  <2>5. 0 <= 0 + MaxRetries + 1
    BY <2>4
  <2>. QED  BY <2>1, <2>2, <2>4, <2>5
            DEF Alone, Underway, RowInv, Bounds, Allowed, Counted, Answered
<1>2. TypeOK /\ Alone /\ RowInv /\ [Next]_vars => Alone' /\ RowInv'
  <2> SUFFICES ASSUME TypeOK, Alone, RowInv, [Next]_vars PROVE Alone' /\ RowInv'
    OBVIOUS
  <2>1. CASE Next
    BY <2>1, RowHost, RowRun, RowRespond, RowChain DEF Next, System
  <2>2. CASE UNCHANGED vars
    BY <2>2, RowStays DEF vars, Alone, Underway, Counted, Answered
  <2>. QED  BY <2>1, <2>2
<1>. QED  BY <1>1, <1>2, TypeCorrect, PTL DEF Spec

(* If the host does not prompt during the pause of another prompt, an       *)
(* unbroken row of errors is at most twice as long as one call of the model *)
(* and its retries, whatever compactions, aborts, queued messages and shell *)
(* commands come in between, as long as no event was missed: _prepareRetry  *)
(* counts every error it goes on from, and _runAutoCompaction goes on from  *)
(* an error only when _overflowRecoveryAttempted was not set.               *)
THEOREM FailuresBounded ==
    ASSUME Overlap = "no" PROVE Spec => []AttemptsBounded
<1>1. Spec => [](Alone /\ RowInv)
  BY RowHolds
<1>2. TypeOK /\ RowInv => AttemptsBounded
  <2> SUFFICES ASSUME TypeOK, RowInv, missed = "no"
               PROVE  Fails(log) <= 2 * (MaxRetries + 1)
    BY DEF AttemptsBounded, Fails
  <2>1. log \in Seq(Message) /\ MaxRetries \in Nat
    BY TypeParts, SessionAssumption DEF LogOK
  <2>2. Fails(log) \in Nat /\ Fails(log) <= Allowed(tried) + MaxRetries + 1
    BY <2>1, FailsType DEF RowInv, Bounds
  <2>3. Allowed(tried) \in {0, MaxRetries + 1}
    BY DEF Allowed
  <2> DEFINE f == Fails(log)
             b == Allowed(tried)
  <2>4. f \in Nat /\ f <= b + MaxRetries + 1 /\ b \in {0, MaxRetries + 1}
    BY <2>2, <2>3
  <2>. HIDE DEF f, b
  <2>5. f <= 2 * (MaxRetries + 1)
    BY <2>1, <2>4
  <2>. QED  BY <2>5 DEF f
<1>. QED  BY <1>1, <1>2, TypeCorrect, PTL

-----------------------------------------------------------------------------
(* What Only takes from a sequence.                                         *)

Nothing == <<>>

(* The function that Only is defined by, one element at a time.             *)
Takes(f, n, s, I) ==
    /\ f[0] = Nothing
    /\ \A i \in 1 .. n : f[i] = IF i \in I THEN Append(f[i - 1], s[i]) ELSE f[i - 1]

LEMMA NothingIs == ASSUME NEW S PROVE Nothing \in Seq(S)
BY EmptySeq DEF Nothing

LEMMA TakesExists ==
    ASSUME NEW S, NEW n \in Nat, NEW s, \A i \in 1 .. n : s[i] \in S, NEW I
    PROVE  \E f : Takes(f, n, s, I) /\ \A i \in 0 .. n : f[i] \in Seq(S)
<1> DEFINE To(f, k) == Takes(f, k, s, I) /\ \A i \in 0 .. k : f[i] \in Seq(S)
           Bad == {k \in 0 .. n : ~\E f : To(f, k)}
<1>1. Bad = {}
  <2> SUFFICES ASSUME Bad # {} PROVE FALSE
    OBVIOUS
  <2> DEFINE k == FirstOf(Bad)
  <2>1. k \in Bad /\ \A j \in Bad : k <= j
    <3>1. Bad \subseteq Nat
      OBVIOUS
    <3>. HIDE DEF Bad
    <3>. QED  BY <3>1, FirstIs
  <2>. HIDE DEF k
  <2>2. k \in 0 .. n /\ ~\E f : To(f, k)
    BY <2>1
  <2>3. k # 0
    <3> DEFINE f == [i \in 0 .. 0 |-> Nothing]
    <3>1. f[0] = Nothing /\ \A i \in 0 .. 0 : f[i] = Nothing
      OBVIOUS
    <3>2. \A i \in 1 .. 0 : FALSE
      OBVIOUS
    <3>. HIDE DEF f
    <3>3. To(f, 0)
      BY <3>1, <3>2, NothingIs DEF Takes
    <3>. HIDE DEF To, Bad
    <3>. QED  BY <2>2, <3>3
  <2>4. k - 1 \in 0 .. n /\ k \in 1 .. n /\ ~(k <= k - 1)
    BY <2>2, <2>3
  <2>5. k - 1 \notin Bad
    BY <2>1, <2>4
  <2>6. PICK f : To(f, k - 1)
    BY <2>4, <2>5
  <2> DEFINE step == IF k \in I THEN Append(f[k - 1], s[k]) ELSE f[k - 1]
             g == [i \in 0 .. k |-> IF i = k THEN step ELSE f[i]]
  <2>7. step \in Seq(S)
    <3>1. k - 1 \in 0 .. k - 1
      BY <2>4
    <3>2. f[k - 1] \in Seq(S) /\ s[k] \in S
      BY <2>4, <2>6, <3>1
    <3>. QED  BY <3>2, AppendProperties
  <2>8. To(g, k)
    <3>1. /\ \A i \in 1 .. k : i \in 0 .. k /\ i - 1 \in 0 .. k /\ i - 1 # k
          /\ \A i \in 1 .. k : i = k \/ i \in 1 .. k - 1
          /\ \A i \in 0 .. k : i = k \/ (i # k /\ i \in 0 .. k - 1)
          /\ \A i \in 1 .. k - 1 : i # k /\ i \in 0 .. k
          /\ 0 \in 0 .. k /\ 0 # k /\ k \in 0 .. k
      BY <2>4
    <3>. HIDE DEF step
    <3>2. \A i \in 0 .. k - 1 : f[i] \in Seq(S)
      BY <2>6
    <3>3. \A i \in 0 .. k : g[i] = IF i = k THEN step ELSE f[i]
      OBVIOUS
    <3>. HIDE DEF g
    <3>4. f[0] = Nothing
      BY <2>6 DEF Takes
    <3>5. \A i \in 0 .. k : g[i] \in Seq(S)
      BY <2>7, <3>1, <3>2, <3>3
    <3>6. g[0] = Nothing /\ g[k] = step /\ \A i \in 1 .. k : g[i - 1] = f[i - 1]
      BY <3>1, <3>3, <3>4
    <3>7. \A i \in 1 .. k - 1 : g[i] = f[i]
      BY <3>1, <3>3
    <3>8. \A i \in 1 .. k :
             g[i] = IF i \in I THEN Append(g[i - 1], s[i]) ELSE g[i - 1]
      <4> SUFFICES ASSUME NEW i \in 1 .. k
                   PROVE  g[i] = IF i \in I THEN Append(g[i - 1], s[i]) ELSE g[i - 1]
        OBVIOUS
      <4>1. CASE i = k
        BY <3>6, <4>1 DEF step
      <4>2. CASE i \in 1 .. k - 1
        BY <2>6, <3>6, <3>7, <4>2 DEF Takes
      <4>. QED  BY <3>1, <4>1, <4>2
    <3>. QED  BY <3>5, <3>6, <3>8 DEF Takes
  <2>. QED  BY <2>2, <2>8
<1>2. n \in 0 .. n
  OBVIOUS
<1>3. PICK f : To(f, n)
  BY <1>1, <1>2
<1>. QED  BY <1>3

(* The function that Only is defined by, from itself.                       *)
Taken(g, n, s, I) == [i \in 0 .. n |-> IF i = 0 THEN Nothing
                                       ELSE IF i \in I THEN Append(g[i - 1], s[i])
                                            ELSE g[i - 1]]

LEMMA TakenExists ==
    ASSUME NEW S, NEW n \in Nat, NEW s, \A i \in 1 .. n : s[i] \in S, NEW I
    PROVE  \E f : f = Taken(f, n, s, I) /\ \A i \in 0 .. n : f[i] \in Seq(S)
<1>1. /\ \A i \in 0 .. n : i = 0 \/ (i # 0 /\ i \in 1 .. n)
      /\ \A i \in 1 .. n : i - 1 \in 0 .. n
      /\ 0 \in 0 .. n
  OBVIOUS
<1>2. PICK w : Takes(w, n, s, I) /\ \A i \in 0 .. n : w[i] \in Seq(S)
  BY TakesExists
<1> DEFINE f == [i \in 0 .. n |-> w[i]]
<1>3. \A i \in 0 .. n : f[i] = w[i]
  OBVIOUS
<1>. HIDE DEF f
<1>4. \A i \in 0 .. n : f[i] = IF i = 0 THEN Nothing
                              ELSE IF i \in I THEN Append(f[i - 1], s[i]) ELSE f[i - 1]
  BY <1>1, <1>2, <1>3 DEF Takes
<1>5. f = Taken(f, n, s, I)
  BY <1>4 DEF Taken, f
<1>6. \A i \in 0 .. n : f[i] \in Seq(S)
  BY <1>2, <1>3
<1>. QED  BY <1>5, <1>6

LEMMA TakesIs ==
    ASSUME NEW S, NEW n \in Nat, NEW s, \A i \in 1 .. n : s[i] \in S, NEW I, NEW from,
           from = Taken(from, n, s, I)
    PROVE  Takes(from, n, s, I) /\ \A i \in 0 .. n : from[i] \in Seq(S)
<1>1. \A i \in 1 .. n : i \in 0 .. n /\ i # 0
  OBVIOUS
<1>2. 0 \in 0 .. n
  OBVIOUS
<1>3. PICK f : Takes(f, n, s, I) /\ \A i \in 0 .. n : f[i] \in Seq(S)
  BY TakesExists
<1>4. from[0] = Nothing
  BY <1>2 DEF Taken
<1>5. \A i \in 1 .. n :
         from[i] = IF i \in I THEN Append(from[i - 1], s[i]) ELSE from[i - 1]
  BY <1>1 DEF Taken
<1>6. \A i \in 0 .. n : from[i] = f[i]
  <2> DEFINE Bad == {i \in 0 .. n : from[i] # f[i]}
  <2> SUFFICES ASSUME Bad # {} PROVE FALSE
    OBVIOUS
  <2>1. PICK k \in Bad : \A j \in Bad : k <= j
    <3>1. Bad \subseteq Nat
      OBVIOUS
    <3>. HIDE DEF Bad
    <3>. QED  BY <3>1, FirstIs
  <2>2. k \in 0 .. n /\ from[k] # f[k]
    BY <2>1
  <2>3. k # 0
    BY <1>3, <1>4, <2>2 DEF Takes
  <2>4. k \in 1 .. n /\ k - 1 \in 0 .. n /\ ~(k <= k - 1)
    BY <2>2, <2>3
  <2>5. from[k - 1] = f[k - 1]
    BY <2>1, <2>4
  <2>6. from[k] = IF k \in I THEN Append(from[k - 1], s[k]) ELSE from[k - 1]
    BY <1>5, <2>4
  <2>7. f[k] = IF k \in I THEN Append(f[k - 1], s[k]) ELSE f[k - 1]
    BY <1>3, <2>4 DEF Takes
  <2>. QED  BY <2>2, <2>5, <2>6, <2>7
<1>7. \A i \in 0 .. n : from[i] \in Seq(S)
  BY <1>3, <1>6
<1>. QED  BY <1>4, <1>5, <1>7 DEF Takes

LEMMA OnlyIs ==
    ASSUME NEW S, NEW s \in Seq(S), NEW I
    PROVE  \E f : /\ Takes(f, Len(s), s, I) /\ Only(s, I) = f[Len(s)]
                  /\ \A i \in 0 .. Len(s) : f[i] \in Seq(S)
<1> DEFINE from == CHOOSE g : g = Taken(g, Len(s), s, I)
<1>1. Only(s, I) = from[Len(s)]
  BY Zenon DEF Only, Taken, Nothing
<1>2. Len(s) \in Nat /\ \A i \in 1 .. Len(s) : s[i] \in S
  BY LenProperties, ElementOfSeq
<1>3. \E f : f = Taken(f, Len(s), s, I)
  <2>1. PICK n : n = Len(s)
    OBVIOUS
  <2>2. n \in Nat /\ \A i \in 1 .. n : s[i] \in S
    BY <1>2, <2>1
  <2>3. \E f : f = Taken(f, n, s, I) /\ \A i \in 0 .. n : f[i] \in Seq(S)
    BY <2>2, TakenExists
  <2>. QED  BY <2>1, <2>3
<1>4. from = Taken(from, Len(s), s, I)
  BY <1>3
<1>. HIDE DEF from
<1>5. Takes(from, Len(s), s, I) /\ \A i \in 0 .. Len(s) : from[i] \in Seq(S)
  BY <1>2, <1>4, TakesIs
<1>. QED  BY <1>1, <1>5

LEMMA AppendConcat ==
    ASSUME NEW S, NEW s \in Seq(S), NEW t \in Seq(S), NEW e \in S
    PROVE  s \o Append(t, e) = Append(s \o t, e) /\ s \o <<>> = s
<1> DEFINE u == <<e>>
<1>1. u \in Seq(S) /\ s \o t \in Seq(S)
  BY ConcatProperties
<1>. HIDE DEF u
<1>2. s \o (t \o u) = (s \o t) \o u
  BY <1>1, ConcatAssociative
<1>3. Append(t, e) = t \o u /\ Append(s \o t, e) = (s \o t) \o u
  BY <1>1, AppendIsConcat DEF u
<1>. QED  BY <1>2, <1>3, ConcatEmptySeq

LEMMA ConcatSecond ==
    ASSUME NEW S, NEW s \in Seq(S), NEW t \in Seq(S)
    PROVE  \A i \in 1 .. Len(t) : (s \o t)[Len(s) + i] = t[i]
BY ConcatIs

(* Only works on one part of a sequence at a time.                          *)
LEMMA OnlyConcat ==
    ASSUME NEW S, NEW s \in Seq(S), NEW t \in Seq(S), NEW I, NEW J, NEW K,
           \A i \in 1 .. Len(s) : i \in K <=> i \in I,
           \A j \in 1 .. Len(t) : Len(s) + j \in K <=> j \in J
    PROVE  Only(s \o t, K) = Only(s, I) \o Only(t, J)
<1> DEFINE r == s \o t
           n == Len(s)
           h == Len(t)
<1>1. /\ r \in Seq(S) /\ Len(r) = n + h
      /\ \A i \in 1 .. n : r[i] = s[i]
      /\ \A i \in 1 .. h : r[n + i] = t[i]
  <2>1. r \in Seq(S)
    BY ConcatIs
  <2>2. Len(r) = n + h
    BY ConcatIs
  <2>3. \A i \in 1 .. n : r[i] = s[i]
    BY ConcatIs
  <2>4. \A i \in 1 .. h : r[n + i] = t[i]
    BY ConcatSecond, Zenon
  <2>. QED  BY <2>1, <2>2, <2>3, <2>4
<1>2. n \in Nat /\ h \in Nat
  BY LenProperties
<1>3. PICK f : /\ Takes(f, n, s, I) /\ Only(s, I) = f[n]
              /\ \A i \in 0 .. n : f[i] \in Seq(S)
  BY OnlyIs
<1>4. PICK g : /\ Takes(g, h, t, J) /\ Only(t, J) = g[h]
              /\ \A i \in 0 .. h : g[i] \in Seq(S)
  BY OnlyIs
<1>. HIDE DEF r
<1>5. PICK w : Takes(w, n + h, r, K) /\ Only(r, K) = w[n + h]
  <2>1. r \in Seq(S)
    BY <1>1
  <2>2. PICK w : Takes(w, Len(r), r, K) /\ Only(r, K) = w[Len(r)]
    BY <2>1, OnlyIs
  <2>. QED  BY <1>1, <2>2
<1>6. \A i \in 1 .. n : (i \in K <=> i \in I)
  OBVIOUS
<1>7. \A j \in 1 .. h : (n + j \in K <=> j \in J) /\ t[j] \in S
  BY ElementOfSeq
<1>. HIDE DEF n, h
<1>8. \A i \in 0 .. n : w[i] = f[i]
  <2> DEFINE Bad == {i \in 0 .. n : w[i] # f[i]}
  <2> SUFFICES ASSUME Bad # {} PROVE FALSE
    OBVIOUS
  <2>1. PICK k \in Bad : \A j \in Bad : k <= j
    <3>0. \A i \in 0 .. n : i \in Nat
      BY <1>2
    <3>1. Bad \subseteq Nat
      BY <3>0
    <3>. HIDE DEF Bad
    <3>. QED  BY <3>1, FirstIs
  <2>2. k \in 0 .. n /\ w[k] # f[k]
    BY <2>1
  <2>3. k # 0
    BY <1>3, <1>5, <2>2 DEF Takes
  <2>4. /\ k \in 1 .. n /\ k \in 1 .. n + h /\ k - 1 \in 0 .. n /\ ~(k <= k - 1)
    BY <1>2, <2>2, <2>3
  <2>5. w[k - 1] = f[k - 1]
    BY <2>1, <2>4
  <2>6. r[k] = s[k] /\ (k \in K <=> k \in I)
    BY <1>1, <1>6, <2>4
  <2>7. w[k] = IF k \in K THEN Append(w[k - 1], r[k]) ELSE w[k - 1]
    BY <1>1, <1>5, <2>4 DEF Takes
  <2>8. f[k] = IF k \in I THEN Append(f[k - 1], s[k]) ELSE f[k - 1]
    BY <1>3, <2>4 DEF Takes, n
  <2>. QED  BY <2>2, <2>5, <2>6, <2>7, <2>8
<1>9. \A j \in 0 .. h : w[n + j] = f[n] \o g[j]
  <2> DEFINE Bad == {j \in 0 .. h : w[n + j] # f[n] \o g[j]}
  <2> SUFFICES ASSUME Bad # {} PROVE FALSE
    OBVIOUS
  <2>1. PICK k \in Bad : \A j \in Bad : k <= j
    <3>0. \A i \in 0 .. h : i \in Nat
      BY <1>2
    <3>1. Bad \subseteq Nat
      BY <3>0
    <3>. HIDE DEF Bad
    <3>. QED  BY <3>1, FirstIs
  <2>2. k \in 0 .. h /\ w[n + k] # f[n] \o g[k]
    BY <2>1
  <2>3. f[n] \in Seq(S) /\ f[n] \o Nothing = f[n]
    <3>1. n \in 0 .. n
      BY <1>2
    <3>2. f[n] \in Seq(S)
      BY <1>3, <3>1
    <3>. QED  BY <3>2, ConcatEmptySeq DEF Nothing
  <2>4. k # 0
    <3>1. n + 0 = n /\ n \in 0 .. n
      BY <1>2
    <3>. QED  BY <1>4, <1>8, <2>2, <2>3, <3>1 DEF Takes
  <2>5. /\ k \in 1 .. h /\ k - 1 \in 0 .. h /\ ~(k <= k - 1)
        /\ n + k \in 1 .. n + h /\ (n + k) - 1 = n + (k - 1)
    BY <1>2, <2>2, <2>4
  <2>6. w[n + (k - 1)] = f[n] \o g[k - 1]
    BY <2>1, <2>5
  <2>7. r[n + k] = t[k] /\ (n + k \in K <=> k \in J) /\ t[k] \in S
    BY <1>1, <1>7, <2>5
  <2>8. w[n + k] = IF n + k \in K THEN Append(w[n + (k - 1)], r[n + k])
                   ELSE w[n + (k - 1)]
    BY <1>1, <1>5, <2>5 DEF Takes
  <2>9. g[k] = IF k \in J THEN Append(g[k - 1], t[k]) ELSE g[k - 1]
    BY <1>4, <2>5 DEF Takes, h
  <2>10. g[k - 1] \in Seq(S)
    BY <1>4, <2>5
  <2>11. f[n] \o Append(g[k - 1], t[k]) = Append(f[n] \o g[k - 1], t[k])
    <3> DEFINE a == f[n]
               b == g[k - 1]
               e == t[k]
    <3>1. a \in Seq(S) /\ b \in Seq(S) /\ e \in S
      BY <2>3, <2>7, <2>10
    <3>. HIDE DEF a, b, e
    <3>2. a \o Append(b, e) = Append(a \o b, e)
      BY <3>1, AppendConcat
    <3>. QED  BY <3>2 DEF a, b, e
  <2>. QED  BY <2>2, <2>6, <2>7, <2>8, <2>9, <2>11
<1>10. h \in 0 .. h
  BY <1>2
<1>. QED  BY <1>3, <1>4, <1>5, <1>9, <1>10 DEF r

(* What counts for the comparison of the context with the session.          *)
Stays(m) == ~IsError(m) /\ m.stop # "full"

LEMMA KeptConcat ==
    ASSUME NEW s \in Seq(Message), NEW t \in Seq(Message)
    PROVE  Kept(s \o t) = Kept(s) \o Kept(t)
<1> DEFINE r == s \o t
           n == Len(s)
           h == Len(t)
           At(q) == {i \in DOMAIN q : ~IsError(q[i]) /\ q[i].stop # "full"}
<1>1. /\ r \in Seq(Message) /\ Len(r) = n + h
      /\ \A i \in 1 .. n : r[i] = s[i]
      /\ \A i \in 1 .. h : r[n + i] = t[i]
      /\ \A k \in 1 .. n + h : k \in 1 .. n \/ \E i \in 1 .. h : k = n + i
  <2>. HIDE DEF Message
  <2>. QED  BY ConcatIs
<1>2. /\ n \in Nat /\ h \in Nat
      /\ DOMAIN s = 1 .. n /\ DOMAIN t = 1 .. h /\ DOMAIN r = 1 .. n + h
  BY <1>1, LenProperties
<1>. HIDE DEF r, n, h
<1>3. /\ \A i \in 1 .. n : i \in 1 .. n + h
      /\ \A i \in 1 .. h : n + i \in 1 .. n + h
  BY <1>2
<1>4. \A i \in 1 .. n : i \in At(r) <=> i \in At(s)
  BY <1>1, <1>2, <1>3
<1>5. \A j \in 1 .. h : n + j \in At(r) <=> j \in At(t)
  BY <1>1, <1>2, <1>3
<1>. HIDE DEF At
<1>6. Only(r, At(r)) = Only(s, At(s)) \o Only(t, At(t))
  <2>. HIDE DEF Message
  <2>. QED  BY SMTT(30), <1>4, <1>5, OnlyConcat DEF r, n, h
<1>. QED  BY <1>6 DEF Kept, At, r

LEMMA KeptDropped ==
    ASSUME NEW s \in Seq(Message), NEW m \in Message, ~Stays(m)
    PROVE  Kept(s \o <<m>>) = Kept(s)
<1>1. <<m>> \in Seq(Message) /\ Len(<<m>>) = 1 /\ <<m>>[1] = m
  <2>. HIDE DEF Message
  <2>. QED  OBVIOUS
<1>. HIDE DEF Message
<1>2. Kept(<<m>>) = <<>>
  <2> DEFINE u == <<m>>
             I == {i \in DOMAIN u : ~IsError(u[i]) /\ u[i].stop # "full"}
  <2>1. 1 \notin I
    BY <1>1 DEF Stays
  <2>2. u \in Seq(Message) /\ Len(u) = 1
    BY <1>1
  <2>. HIDE DEF u
  <2>3. PICK f : Takes(f, 1, u, I) /\ Only(u, I) = f[1]
    <3>1. PICK f : Takes(f, Len(u), u, I) /\ Only(u, I) = f[Len(u)]
      <4>. HIDE DEF I
      <4>. QED  BY <2>2, OnlyIs
    <3>. QED  BY <2>2, <3>1
  <2>4. f[1] = f[0] /\ f[0] = Nothing
    <3>1. 1 \in 1 .. Len(u) /\ 1 - 1 = 0
      BY <2>2
    <3>. HIDE DEF I
    <3>. QED  BY <2>1, <2>3, <3>1 DEF Takes
  <2>. QED  BY <2>3, <2>4 DEF Kept, Nothing, u
<1>3. Kept(s) \in Seq(Message)
  <2> DEFINE I == {i \in DOMAIN s : ~IsError(s[i]) /\ s[i].stop # "full"}
  <2>1. Only(s, I) \in Seq(Message)
    <3>. HIDE DEF I
    <3>1. PICK f : Only(s, I) = f[Len(s)] /\ \A i \in 0 .. Len(s) : f[i] \in Seq(Message)
      BY OnlyIs
    <3>2. Len(s) \in 0 .. Len(s)
      BY LenProperties
    <3>. QED  BY <3>1, <3>2
  <2>. QED  BY <2>1 DEF Kept
<1>4. Kept(s \o <<m>>) = Kept(s) \o Kept(<<m>>)
  BY <1>1, KeptConcat
<1>. QED  BY <1>2, <1>3, <1>4, ConcatEmptySeq

(* A sequence without its last answer.                                      *)
LEMMA WithoutIs ==
    ASSUME NEW s \in Seq(Message), NEW r, r = WithoutLastAnswer(s)
    PROVE  \/ r = s
           \/ /\ s # <<>> /\ IsAnswer(s[Len(s)]) /\ s[Len(s)] \in Message
              /\ r \in Seq(Message) /\ s = r \o <<s[Len(s)]>>
              /\ Len(s) = Len(r) + 1 /\ \A i \in 1 .. Len(r) : r[i] = s[i]
<1>. HIDE DEF Message
<1>1. CASE s # <<>> /\ IsAnswer(s[Len(s)])
  <2> DEFINE n == Len(s)
  <2>1. n \in 1 .. n /\ 1 \in 1 .. n /\ n \in Nat /\ n >= 1 /\ n - 1 \in Nat
    BY <1>1, EmptySeq
  <2>2. r = SubSeq(s, 1, n - 1)
    BY <1>1 DEF WithoutLastAnswer
  <2>3. s[n] \in Message
    BY <2>1, ElementOfSeq
  <2>4. SubSeq(s, 1, n) = SubSeq(s, 1, n - 1) \o <<s[n]>>
    BY <2>1, SubSeqRecursiveSecond
  <2>5. s = r \o <<s[n]>>
    BY <2>2, <2>4, SubSeqFull
  <2>6. r \in Seq(Message) /\ Len(r) = n - 1 /\ \A i \in 1 .. n - 1 : r[i] = s[i]
    <3>1. \A i \in 1 .. n - 1 : i \in 1 .. n
      BY <2>1
    <3>2. \A i \in 1 .. n - 1 : s[i] \in Message
      BY <3>1, ElementOfSeq
    <3> DEFINE k == n - 1
    <3>3. k \in Nat /\ \A i \in 1 .. k : s[i] \in Message
      BY <2>1, <3>2
    <3>. HIDE DEF k, n
    <3>4. /\ SubSeq(s, 1, k) \in Seq(Message)
          /\ Len(SubSeq(s, 1, k)) = IF 1 <= k THEN k - 1 + 1 ELSE 0
          /\ \A i \in 1 .. k - 1 + 1 : SubSeq(s, 1, k)[i] = s[1 + i - 1]
      BY <3>3, SubSeqProperties
    <3>5. k - 1 + 1 = k /\ (~(1 <= k) => k = 0) /\ \A i \in 1 .. k : 1 + i - 1 = i
      BY <3>3
    <3>6. r = SubSeq(s, 1, k)
      BY <2>2 DEF k
    <3>. QED  BY <3>4, <3>5, <3>6 DEF k
  <2>7. n = Len(r) + 1
    BY <2>1, <2>6
  <2>. QED  BY <1>1, <2>3, <2>5, <2>6, <2>7
<1>2. CASE ~(s # <<>> /\ IsAnswer(s[Len(s)]))
  BY <1>2 DEF WithoutLastAnswer
<1>. QED  BY <1>1, <1>2

-----------------------------------------------------------------------------
(* Calls and results, and what a compaction keeps of them.                  *)

Ordered(s) ==
    \A i \in 1 .. Len(s) : s[i].role = "result" => i > 1 /\ s[i - 1].stop = "tools"

(* What t begins with may follow s.                                         *)
Follows(s, t) ==
    \A i \in 1 .. Len(t) :
       t[i].role = "result" =>
          IF i = 1 THEN s # <<>> /\ s[Len(s)].stop = "tools" ELSE t[i - 1].stop = "tools"

LEMMA OrderedConcat ==
    ASSUME NEW s \in Seq(Message), NEW t \in Seq(Message), Ordered(s), Follows(s, t)
    PROVE  Ordered(s \o t)
<1> DEFINE r == s \o t
           n == Len(s)
           h == Len(t)
<1>1. /\ r \in Seq(Message) /\ Len(r) = n + h
      /\ \A i \in 1 .. n : r[i] = s[i]
      /\ \A i \in 1 .. h : r[n + i] = t[i]
      /\ \A k \in 1 .. n + h : k \in 1 .. n \/ \E i \in 1 .. h : k = n + i
  <2>. HIDE DEF Message
  <2>1. r \in Seq(Message) /\ Len(r) = n + h
    BY ConcatIs
  <2>2. \A i \in 1 .. n : r[i] = s[i]
    BY ConcatIs
  <2>3. \A i \in 1 .. h : r[n + i] = t[i]
    BY ConcatIs
  <2>4. \A k \in 1 .. Len(s \o t) : k \in 1 .. n \/ \E i \in 1 .. h : k = n + i
    BY ConcatIs
  <2>. QED  BY <2>1, <2>2, <2>3, <2>4
<1>2. n \in Nat /\ h \in Nat /\ (s # <<>> => n \in 1 .. n)
  BY EmptySeq, LenProperties
<1>. HIDE DEF r, n, h
<1> SUFFICES ASSUME NEW k \in 1 .. n + h, r[k].role = "result"
             PROVE  k > 1 /\ r[k - 1].stop = "tools"
  BY <1>1 DEF Ordered, r
<1>3. CASE k \in 1 .. n
  <2>1. k > 1 /\ s[k - 1].stop = "tools"
    BY <1>1, <1>3 DEF Ordered, n
  <2>2. k - 1 \in 1 .. n
    BY <1>2, <1>3, <2>1
  <2>. QED  BY <1>1, <2>1, <2>2
<1>4. ASSUME NEW i \in 1 .. h, k = n + i PROVE k > 1 /\ r[k - 1].stop = "tools"
  <2>1. t[i].role = "result"
    BY <1>1, <1>4
  <2>2. IF i = 1 THEN s # <<>> /\ s[n].stop = "tools" ELSE t[i - 1].stop = "tools"
    BY <2>1 DEF Follows, n, h
  <2>3. CASE i = 1
    <3>1. k - 1 = n /\ n \in 1 .. n /\ k > 1
      BY <1>2, <1>4, <2>2, <2>3
    <3>. QED  BY <1>1, <2>2, <2>3, <3>1
  <2>4. CASE i # 1
    <3>1. i - 1 \in 1 .. h /\ k - 1 = n + (i - 1) /\ k > 1
      BY <1>2, <1>4, <2>4
    <3>. QED  BY <1>1, <2>2, <2>4, <3>1
  <2>. QED  BY <2>3, <2>4
<1>. QED  BY <1>1, <1>3, <1>4

LEMMA OrderedFollows ==
    ASSUME NEW s, NEW t, Ordered(t) PROVE Follows(s, t)
<1> SUFFICES ASSUME NEW i \in 1 .. Len(t), t[i].role = "result"
             PROVE  IF i = 1 THEN s # <<>> /\ s[Len(s)].stop = "tools"
                    ELSE t[i - 1].stop = "tools"
  BY DEF Follows
<1>1. i > 1 /\ t[i - 1].stop = "tools"
  BY DEF Ordered
<1>. QED  BY <1>1

LEMMA SubSeqIs ==
    ASSUME NEW S, NEW s \in Seq(S), NEW a \in Nat, NEW b \in Nat,
           1 <= a, a <= b + 1, b <= Len(s), NEW r, r = SubSeq(s, a, b)
    PROVE  /\ r \in Seq(S) /\ Len(r) \in Nat /\ a + Len(r) = b + 1
           /\ \A i \in 1 .. Len(r) : r[i] = s[a + i - 1]
<1>1. \A i \in a .. b : s[i] \in S
  <2>1. \A i \in a .. b : i \in 1 .. Len(s)
    BY LenProperties
  <2>. QED  BY <2>1, ElementOfSeq
<1>2. /\ r \in Seq(S) /\ Len(r) = (IF a <= b THEN b - a + 1 ELSE 0)
      /\ \A i \in 1 .. b - a + 1 : r[i] = s[a + i - 1]
  BY <1>1, SubSeqProperties
<1>3. Len(r) \in Nat
  BY <1>2, LenProperties
<1> DEFINE h == Len(r)
<1>4. h \in Nat /\ h = (IF a <= b THEN b - a + 1 ELSE 0)
  BY <1>2, <1>3
<1>. HIDE DEF h
<1>5. a + h = b + 1 /\ h = b - a + 1
  BY <1>4
<1>. QED  BY <1>2, <1>3, <1>5 DEF h

(* Compactions call no tools, so that a call and its results stay together. *)
LEMMA PlainIs ==
    ASSUME NEW s \in Seq(Message), Ordered(s),
           \A i \in 1 .. Len(s) : s[i].role = "compaction" => s[i].stop = "none"
    PROVE  Plain(s) \in Seq(Message) /\ Ordered(Plain(s))
<1> DEFINE n == Len(s)
           I == {i \in DOMAIN s : s[i].role # "compaction"}
<1>0. n \in Nat /\ DOMAIN s = 1 .. n
  BY LenProperties
<1>1. PICK f : /\ Takes(f, n, s, I) /\ Only(s, I) = f[n]
              /\ \A i \in 0 .. n : f[i] \in Seq(Message)
  <2>. HIDE DEF Message, I
  <2>. QED  BY OnlyIs
<1>2. \A i \in 1 .. n : s[i] \in Message
  <2>. HIDE DEF Message
  <2>. QED  BY ElementOfSeq
<1>. HIDE DEF Message, n
<1> DEFINE Good(i) == /\ Ordered(f[i])
                      /\ i > 0 /\ s[i].stop = "tools" =>
                            f[i] # <<>> /\ f[i][Len(f[i])] = s[i]
           Bad == {i \in 0 .. n : ~Good(i)}
<1>3. Bad = {}
  <2> SUFFICES ASSUME Bad # {} PROVE FALSE
    OBVIOUS
  <2>1. PICK k \in Bad : \A j \in Bad : k <= j
    <3>1. Bad \subseteq Nat
      BY <1>0
    <3>. HIDE DEF Bad
    <3>. QED  BY <3>1, FirstIs
  <2>2. k \in 0 .. n /\ ~Good(k)
    BY <2>1
  <2>3. k # 0
    <3>1. f[0] = Nothing /\ Len(Nothing) = 0 /\ \A i \in 1 .. 0 : FALSE
      BY <1>1, EmptySeq DEF Takes, Nothing
    <3>2. Good(0)
      BY <3>1 DEF Ordered
    <3>. QED  BY <2>2, <3>2
  <2>4. /\ k \in 1 .. n /\ k - 1 \in 0 .. n /\ ~(k <= k - 1) /\ k > 0
        /\ k > 1 => k - 1 > 0 /\ k - 1 \in 1 .. n
    BY <1>0, <2>2, <2>3
  <2>5. Good(k - 1)
    BY <2>1, <2>4
  <2>6. f[k] = IF k \in I THEN Append(f[k - 1], s[k]) ELSE f[k - 1]
    BY <1>1, <2>4 DEF Takes, n
  <2>7. f[k - 1] \in Seq(Message) /\ s[k] \in Message
    BY <1>1, <1>2, <2>4
  <2>8. CASE k \in I
    <3> DEFINE u == f[k - 1]
               m == s[k]
    <3>1. u \in Seq(Message) /\ m \in Message /\ Ordered(u) /\ f[k] = Append(u, m)
      BY <2>5, <2>6, <2>7, <2>8
    <3>2. m.role = "result" => u # <<>> /\ u[Len(u)].stop = "tools"
      <4>1. m.role = "result" => k > 1 /\ s[k - 1].stop = "tools"
        BY <2>4 DEF Ordered, n
      <4>. QED  BY <2>4, <2>5, <4>1
    <3>. HIDE DEF u, m
    <3>3. f[k] = u \o <<m>> /\ <<m>> \in Seq(Message)
      BY <3>1, AppendIsConcat
    <3>4. Follows(u, <<m>>)
      <4>1. Len(<<m>>) = 1 /\ <<m>>[1] = m /\ \A i \in 1 .. 1 : i = 1
        OBVIOUS
      <4>. QED  BY <3>2, <4>1 DEF Follows
    <3>5. Ordered(f[k])
      BY <3>1, <3>3, <3>4, OrderedConcat
    <3>6. f[k] # <<>> /\ f[k][Len(f[k])] = m
      BY <3>1, AppendProperties
    <3>. QED  BY <2>2, <3>5, <3>6 DEF m
  <2>9. CASE k \notin I
    <3>1. s[k].stop # "tools"
      BY <1>0, <2>4, <2>9 DEF n
    <3>. QED  BY <2>2, <2>5, <2>6, <2>9, <3>1
  <2>. QED  BY <2>8, <2>9
<1>4. n \in 0 .. n
  BY <1>0
<1>5. Plain(s) = f[n]
  BY <1>1 DEF Plain
<1>. QED  BY <1>1, <1>3, <1>4, <1>5

(* What a compaction keeps begins before it, and not with a tool result.    *)
CutAt(l, keep) == keep \in 1 .. Len(l) /\ l[keep].role # "result"

Cuts(l) ==
    \A i \in 1 .. Len(l) :
       l[i].role = "compaction" =>
          l[i].stop = "none" /\ l[i].n \in 1 .. i - 1 /\ l[l[i].n].role # "result"

Summary == Msg("summary", "none", 0)

LEMMA LatestIs ==
    ASSUME NEW l \in Seq(Message), Cuts(l), CompactionsIn(l) # {},
           NEW c, c = LastOf(CompactionsIn(l)), NEW n, n = l[c].n
    PROVE  /\ c \in 1 .. Len(l) /\ l[c].stop = "none"
           /\ \A i \in CompactionsIn(l) : i <= c
           /\ n \in 1 .. Len(l) /\ n <= c - 1 /\ n \in Nat /\ c \in Nat /\ c - 1 \in Nat
           /\ l[n].role # "result"
<1>1. Len(l) \in Nat /\ DOMAIN l = 1 .. Len(l)
  BY LenProperties
<1>2. c \in CompactionsIn(l) /\ \A i \in CompactionsIn(l) : i <= c
  <2>1. CompactionsIn(l) \subseteq 1 .. Len(l)
    BY <1>1 DEF CompactionsIn
  <2>. QED  BY <1>1, <2>1, LastIs
<1>3. c \in 1 .. Len(l) /\ l[c].role = "compaction"
  BY <1>1, <1>2 DEF CompactionsIn
<1>4. l[c].stop = "none" /\ n \in 1 .. c - 1 /\ l[n].role # "result"
  BY <1>3 DEF Cuts
<1>5. n \in 1 .. Len(l) /\ n <= c - 1 /\ n \in Nat /\ c \in Nat /\ c - 1 \in Nat
  BY <1>1, <1>3, <1>4
<1>. QED  BY <1>2, <1>3, <1>4, <1>5

LEMMA SummaryIs ==
    /\ Summary \in Message /\ <<Summary>> \in Seq(Message) /\ Ordered(<<Summary>>)
<1>1. Summary \in Message /\ Summary.role # "result"
  BY MessageIs DEF Summary, Msg
<1>2. Len(<<Summary>>) = 1 /\ <<Summary>>[1] = Summary /\ \A i \in 1 .. 1 : i = 1
  OBVIOUS
<1>. HIDE DEF Message, Summary
<1>. QED  BY <1>1, <1>2 DEF Ordered

(* The context of a session is a sequence of messages, its calls in order.  *)
LEMMA RebuiltIs ==
    ASSUME NEW l \in Seq(Message), Cuts(l), Ordered(l)
    PROVE  Rebuilt(l) \in Seq(Message) /\ Ordered(Rebuilt(l))
<1>1. CASE CompactionsIn(l) = {}
  BY <1>1 DEF Rebuilt
<1>2. CASE CompactionsIn(l) # {}
  <2> DEFINE c == LastOf(CompactionsIn(l))
             n == l[c].n
             A == SubSeq(l, n, c - 1)
             B == SubSeq(l, c + 1, Len(l))
  <2>0. Len(l) \in Nat /\ DOMAIN l = 1 .. Len(l)
    BY LenProperties
  <2>1. /\ c \in 1 .. Len(l) /\ l[c].stop = "none"
        /\ n \in 1 .. Len(l) /\ n <= c - 1 /\ n \in Nat /\ c \in Nat /\ c - 1 \in Nat
        /\ l[n].role # "result"
    <3>. HIDE DEF Message
    <3>. QED  BY <1>2, LatestIs
  <2>2. Rebuilt(l) = <<Summary>> \o Plain(A) \o B
    BY <1>2 DEF Rebuilt, Summary
  <2>. HIDE DEF Message, c, n
  <2>3. /\ A \in Seq(Message) /\ Len(A) \in Nat /\ n + Len(A) = c - 1 + 1
        /\ \A i \in 1 .. Len(A) : A[i] = l[n + i - 1]
    <3>1. 1 <= n /\ n <= c - 1 + 1 /\ c - 1 <= Len(l)
      BY <2>0, <2>1
    <3>. HIDE DEF A
    <3>. QED  BY <2>1, <3>1, SubSeqIs DEF A
  <2>4. /\ B \in Seq(Message) /\ Len(B) \in Nat /\ c + 1 + Len(B) = Len(l) + 1
        /\ \A i \in 1 .. Len(B) : B[i] = l[c + 1 + i - 1]
    <3>1. 1 <= c + 1 /\ c + 1 <= Len(l) + 1 /\ c + 1 \in Nat /\ Len(l) <= Len(l)
      BY <2>0, <2>1
    <3>. HIDE DEF B
    <3>. QED  BY <2>0, <3>1, SubSeqIs DEF B
  <2> DEFINE a == Len(A)
             b == Len(B)
             h == Len(l)
  <2>5. /\ a \in Nat /\ n + a = c - 1 + 1 /\ \A i \in 1 .. a : A[i] = l[n + i - 1]
        /\ b \in Nat /\ c + 1 + b = h + 1 /\ \A i \in 1 .. b : B[i] = l[c + 1 + i - 1]
        /\ h \in Nat
    BY <2>0, <2>3, <2>4
  <2>6. \A i \in 1 .. h : l[i].role = "result" => i > 1 /\ l[i - 1].stop = "tools"
    BY DEF Ordered
  <2>7. \A i \in 1 .. h : l[i].role = "compaction" => l[i].stop = "none"
    BY DEF Cuts
  <2>. HIDE DEF A, B, a, b, h
  <2>8. Plain(A) \in Seq(Message) /\ Ordered(Plain(A))
    <3>1. \A i \in 1 .. a : n + i - 1 \in 1 .. h
      BY <2>1, <2>5 DEF h
    <3>2. ASSUME NEW i \in 1 .. a, A[i].role = "result"
          PROVE  i > 1 /\ A[i - 1].stop = "tools"
      <4>1. PICK k \in Int : k = n + i - 1
        BY <2>1
      <4>2. k \in 1 .. h /\ A[i] = l[k]
        BY <2>5, <3>1, <4>1
      <4>3. l[k - 1].stop = "tools"
        BY <2>6, <3>2, <4>2
      <4>4. i # 1
        <5>1. i = 1 => k = n
          BY <2>1, <4>1
        <5>. QED  BY <2>1, <3>2, <4>2, <5>1
      <4>5. i > 1 /\ i - 1 \in 1 .. a /\ n + (i - 1) - 1 = k - 1
        BY <2>1, <2>5, <4>1, <4>4
      <4>6. A[i - 1] = l[k - 1]
        BY <2>5, <4>5
      <4>. QED  BY <4>3, <4>5, <4>6
    <3>3. Ordered(A)
      BY <3>2 DEF Ordered, a
    <3>4. \A i \in 1 .. a : A[i].role = "compaction" => A[i].stop = "none"
      BY <2>5, <2>7, <3>1
    <3>. QED  BY <2>3, <3>3, <3>4, PlainIs DEF a
  <2>9. Ordered(B)
    <3> SUFFICES ASSUME NEW i \in 1 .. b, B[i].role = "result"
                 PROVE  i > 1 /\ B[i - 1].stop = "tools"
      BY DEF Ordered, b
    <3>1. PICK k \in Int : k = c + 1 + i - 1
      BY <2>1
    <3>2. k \in 1 .. h /\ B[i] = l[k]
      BY <2>1, <2>5, <3>1
    <3>3. l[k - 1].stop = "tools"
      BY <2>6, <3>2
    <3>4. i # 1
      <4>1. i = 1 => k - 1 = c
        BY <2>1, <3>1
      <4>. QED  BY <2>1, <3>3, <4>1
    <3>5. i > 1 /\ i - 1 \in 1 .. b /\ c + 1 + (i - 1) - 1 = k - 1
      BY <2>1, <2>5, <3>1, <3>4
    <3>6. B[i - 1] = l[k - 1]
      BY <2>5, <3>5
    <3>. QED  BY <3>3, <3>5, <3>6
  <2> DEFINE sp == <<Summary>> \o Plain(A)
  <2>10. sp \in Seq(Message) /\ Ordered(sp)
    BY <2>8, SummaryIs, OrderedFollows, OrderedConcat, ConcatProperties
  <2>. HIDE DEF sp
  <2>11. sp \o B \in Seq(Message) /\ Ordered(sp \o B)
    BY <2>4, <2>9, <2>10, OrderedFollows, OrderedConcat, ConcatProperties
  <2>. QED  BY <2>2, <2>11 DEF sp
<1>. QED  BY <1>1, <1>2

(* What is appended to a session is appended to its context.                *)
LEMMA RebuiltConcat ==
    ASSUME NEW l \in Seq(Message), NEW t \in Seq(Message), Cuts(l), Ordered(l),
           \A i \in 1 .. Len(t) : t[i].role # "compaction"
    PROVE  Rebuilt(l \o t) = Rebuilt(l) \o t
<1> DEFINE r == l \o t
           h == Len(l)
           k == Len(t)
<1>1. /\ r \in Seq(Message) /\ Len(r) = h + k
      /\ \A i \in 1 .. h : r[i] = l[i]
      /\ \A i \in 1 .. k : r[h + i] = t[i]
      /\ \A j \in 1 .. h + k : j \in 1 .. h \/ \E i \in 1 .. k : j = h + i
  <2>. HIDE DEF Message
  <2>1. r \in Seq(Message) /\ Len(r) = h + k
    BY ConcatIs
  <2>2. \A i \in 1 .. h : r[i] = l[i]
    BY ConcatIs
  <2>3. \A i \in 1 .. k : r[h + i] = t[i]
    BY ConcatIs
  <2>4. \A j \in 1 .. Len(l \o t) : j \in 1 .. h \/ \E i \in 1 .. k : j = h + i
    BY ConcatIs
  <2>. QED  BY <2>1, <2>2, <2>3, <2>4
<1>2. /\ h \in Nat /\ k \in Nat
      /\ DOMAIN l = 1 .. h /\ DOMAIN r = 1 .. h + k
  BY <1>1, LenProperties
<1>3. CompactionsIn(r) = CompactionsIn(l)
  <2>. HIDE DEF r, h
  <2>1. \A j \in 1 .. h : j \in 1 .. h + k
    BY <1>2
  <2>2. \A j \in 1 .. h + k : r[j].role = "compaction" => j \in 1 .. h
    <3>. HIDE DEF Message
    <3>. QED  BY <1>1
  <2>. HIDE DEF k
  <2>. QED  BY <1>1, <1>2, <2>1, <2>2 DEF CompactionsIn
<1>. HIDE DEF Message
<1>4. CASE CompactionsIn(l) = {}
  BY <1>3, <1>4 DEF Rebuilt
<1>5. CASE CompactionsIn(l) # {}
  <2> DEFINE c == LastOf(CompactionsIn(l))
             n == l[c].n
             A == SubSeq(l, n, c - 1)
             B == SubSeq(l, c + 1, h)
             D == SubSeq(r, c + 1, h + k)
             sp == <<Summary>> \o Plain(A)
  <2>1. /\ c \in 1 .. h /\ n \in 1 .. h /\ n <= c - 1 /\ n \in Nat /\ c \in Nat
        /\ c - 1 \in Nat /\ l[n].role # "result" /\ l[c].stop = "none"
    BY <1>5, LatestIs
  <2>2. Rebuilt(l) = sp \o B
    BY <1>5 DEF Rebuilt, Summary
  <2>3. Rebuilt(r) = sp \o D
    <3>1. r[c] = l[c]
      BY <1>1, <2>1
    <3>2. SubSeq(r, n, c - 1) = A
      <4>1. c - 1 \in 1 .. Len(l) /\ n \in 1 .. Len(l)
        BY <1>2, <2>1
      <4>. HIDE DEF c, n
      <4>. QED  BY <4>1, SubSeqOfConcat1
    <3>. HIDE DEF r, h, k, c, A
    <3>3. Rebuilt(r) = <<Summary>> \o Plain(SubSeq(r, r[c].n, c - 1))
                          \o SubSeq(r, c + 1, Len(r))
      BY <1>3, <1>5 DEF Rebuilt, Summary, c
    <3>. QED  BY <1>1, <3>1, <3>2, <3>3 DEF n
  <2>. HIDE DEF c, n
  <2>4. /\ B \in Seq(Message) /\ Len(B) \in Nat /\ c + 1 + Len(B) = h + 1
        /\ \A i \in 1 .. Len(B) : B[i] = l[c + 1 + i - 1]
    <3>1. 1 <= c + 1 /\ c + 1 <= h + 1 /\ c + 1 \in Nat /\ h <= Len(l)
      BY <1>2, <2>1
    <3>. HIDE DEF B, h
    <3>. QED  BY <1>2, <3>1, SubSeqIs DEF B
  <2>5. /\ D \in Seq(Message) /\ Len(D) \in Nat /\ c + 1 + Len(D) = h + k + 1
        /\ \A i \in 1 .. Len(D) : D[i] = r[c + 1 + i - 1]
    <3>. HIDE DEF h, k, r
    <3> DEFINE m == h + k
    <3>1. 1 <= c + 1 /\ c + 1 <= m + 1 /\ c + 1 \in Nat /\ m <= Len(r) /\ m \in Nat
      BY <1>1, <1>2, <2>1
    <3>. HIDE DEF D, m
    <3>2. D = SubSeq(r, c + 1, m)
      BY DEF D, m
    <3>3. r \in Seq(Message)
      BY <1>1
    <3>4. /\ D \in Seq(Message) /\ Len(D) \in Nat /\ c + 1 + Len(D) = m + 1
          /\ \A i \in 1 .. Len(D) : D[i] = r[c + 1 + i - 1]
      BY <3>1, <3>2, <3>3, SubSeqIs
    <3>. QED  BY <3>4 DEF m
  <2>6. D = B \o t
    <3> DEFINE b == Len(B)
               E == B \o t
    <3>0. E \in Seq(Message) /\ Len(E) = b + k
      <4>. HIDE DEF B
      <4>. QED  BY <2>4, ConcatIs
    <3>1. \A i \in 1 .. b : E[i] = B[i]
      <4>. HIDE DEF B
      <4>. QED  BY <2>4, ConcatIs
    <3>2. \A i \in 1 .. k : E[b + i] = t[i]
      <4>. HIDE DEF B
      <4>. QED  BY <2>4, ConcatIs
    <3>3. /\ b \in Nat /\ c + 1 + b = h + 1 /\ \A i \in 1 .. b : B[i] = l[c + 1 + i - 1]
      BY <2>4
    <3>. HIDE DEF B, D, E, b, h, k, r
    <3>4. Len(D) = b + k
      <4>1. \A d \in Nat : c + 1 + d = h + k + 1 => d = b + k
        <5>1. c + 1 + b + k = h + 1 + k
          BY <1>2, <2>1, <3>3
        <5> SUFFICES ASSUME NEW d \in Nat, c + 1 + d = h + k + 1 PROVE d = b + k
          OBVIOUS
        <5>2. c + 1 + d = c + 1 + (b + k)
          BY <1>2, <2>1, <3>3, <5>1
        <5>. QED  BY <1>2, <2>1, <3>3, <5>2
      <4>. QED  BY <2>5, <4>1
    <3>5. ASSUME NEW i \in 1 .. b + k PROVE D[i] = E[i]
      <4>0. D[i] = r[c + 1 + i - 1]
        BY <2>5, <3>4
      <4>1. CASE i \in 1 .. b
        <5>1. c + 1 + i - 1 \in 1 .. h
          BY <1>2, <2>1, <3>3, <4>1
        <5>2. r[c + 1 + i - 1] = l[c + 1 + i - 1]
          <6> DEFINE j == c + 1 + i - 1
          <6>1. j \in 1 .. h
            BY <5>1
          <6>. HIDE DEF j
          <6>2. r[j] = l[j]
            BY <1>1, <6>1
          <6>. QED  BY <6>2 DEF j
        <5>. QED  BY <3>1, <3>3, <4>0, <4>1, <5>2
      <4>2. CASE i \notin 1 .. b
        <5> DEFINE j == i - b
        <5>1. j \in 1 .. k /\ i = b + j /\ c + 1 + i - 1 = h + j
          BY <1>2, <2>1, <3>3, <4>2
        <5>. HIDE DEF j
        <5>2. r[c + 1 + i - 1] = t[j]
          BY <1>1, <5>1
        <5>3. E[i] = t[j]
          BY <3>2, <5>1
        <5>. QED  BY <4>0, <5>2, <5>3
      <4>. QED  BY <4>1, <4>2
    <3>6. D = E
      BY <2>5, <3>0, <3>4, <3>5, SeqEqual
    <3>. QED  BY <3>6 DEF E
  <2>7. sp \in Seq(Message)
    <3>1. Plain(A) \in Seq(Message)
      <4>1. Rebuilt(l) \in Seq(Message)
        BY RebuiltIs
      <4> DEFINE I == {i \in DOMAIN A : A[i].role # "compaction"}
      <4>2. A \in Seq(Message)
        <5>1. 1 <= n /\ n <= c - 1 + 1 /\ c - 1 <= Len(l)
          BY <1>2, <2>1
        <5>. HIDE DEF A
        <5>. QED  BY <2>1, <5>1, SubSeqIs DEF A
      <4>. HIDE DEF A, I
      <4>3. PICK f : Only(A, I) = f[Len(A)] /\ \A i \in 0 .. Len(A) : f[i] \in Seq(Message)
        BY <4>2, OnlyIs
      <4>4. Len(A) \in 0 .. Len(A)
        BY <4>2, LenProperties
      <4>. QED  BY <4>3, <4>4 DEF Plain, I
    <3>. QED  BY <3>1, SummaryIs, ConcatProperties
  <2>. HIDE DEF sp, B, D
  <2>8. sp \o (B \o t) = (sp \o B) \o t
    <3>1. sp \in Seq(Message) /\ B \in Seq(Message) /\ t \in Seq(Message)
      BY <2>4, <2>7
    <3>. QED  BY <3>1, ConcatAssociative
  <2>. QED  BY <2>2, <2>3, <2>6, <2>8 DEF r
<1>. QED  BY <1>4, <1>5

LEMMA CutsConcat ==
    ASSUME NEW l \in Seq(Message), NEW t \in Seq(Message), Cuts(l),
           \A i \in 1 .. Len(t) : t[i].role # "compaction"
    PROVE  Cuts(l \o t) /\ \A keep : CutAt(l, keep) => CutAt(l \o t, keep)
<1> DEFINE r == l \o t
           h == Len(l)
           k == Len(t)
<1>1. /\ r \in Seq(Message) /\ Len(r) = h + k
      /\ \A i \in 1 .. h : r[i] = l[i]
      /\ \A i \in 1 .. k : r[h + i] = t[i]
      /\ \A j \in 1 .. h + k : j \in 1 .. h \/ \E i \in 1 .. k : j = h + i
  <2>. HIDE DEF Message
  <2>1. r \in Seq(Message) /\ Len(r) = h + k
    BY ConcatIs
  <2>2. \A i \in 1 .. h : r[i] = l[i]
    BY ConcatIs
  <2>3. \A i \in 1 .. k : r[h + i] = t[i]
    BY ConcatIs
  <2>4. \A j \in 1 .. Len(l \o t) : j \in 1 .. h \/ \E i \in 1 .. k : j = h + i
    BY ConcatIs
  <2>. QED  BY <2>1, <2>2, <2>3, <2>4
<1>2. h \in Nat /\ k \in Nat
  BY LenProperties
<1>3. \A i \in 1 .. h :
         l[i].role = "compaction" =>
            l[i].stop = "none" /\ l[i].n \in 1 .. i - 1 /\ l[l[i].n].role # "result"
  BY DEF Cuts
<1>. HIDE DEF Message, r, h, k
<1>4. ASSUME NEW j \in 1 .. h + k, r[j].role = "compaction"
      PROVE  r[j].stop = "none" /\ r[j].n \in 1 .. j - 1 /\ r[r[j].n].role # "result"
  <2>1. j \in 1 .. h /\ r[j] = l[j]
    BY <1>1, <1>4 DEF k
  <2> DEFINE n == l[j].n
  <2>2. l[j].stop = "none" /\ n \in 1 .. j - 1 /\ l[n].role # "result"
    BY <1>3, <1>4, <2>1
  <2>. HIDE DEF n
  <2>3. n \in 1 .. h
    BY <1>2, <2>1, <2>2
  <2>4. r[n] = l[n]
    BY <1>1, <2>3
  <2>. QED  BY <2>1, <2>2, <2>4 DEF n
<1>5. ASSUME NEW keep, CutAt(l, keep) PROVE CutAt(r, keep)
  <2>1. keep \in 1 .. h /\ l[keep].role # "result"
    BY <1>5 DEF CutAt, h
  <2>2. keep \in 1 .. h + k
    BY <1>2, <2>1
  <2>. QED  BY <1>1, <2>1, <2>2 DEF CutAt
<1>6. Cuts(r)
  BY <1>1, <1>4 DEF Cuts
<1>. QED  BY <1>5, <1>6 DEF r

LEMMA CompactedIs ==
    ASSUME log \in Seq(Message), Cuts(log), Ordered(log), NEW keep, CutAt(log, keep)
    PROVE  /\ Compacted(keep) \in Seq(Message)
           /\ Cuts(Compacted(keep)) /\ Ordered(Compacted(keep))
<1> DEFINE m == Msg("compaction", "none", keep)
           r == Append(log, m)
           h == Len(log)
<1>1. keep \in 1 .. h /\ log[keep].role # "result" /\ h \in Nat
  BY LenProperties DEF CutAt
<1>2. m \in Message /\ m.role = "compaction" /\ m.stop = "none" /\ m.n = keep
  BY <1>1, MessageIs DEF Msg
<1>. HIDE DEF Message, m
<1>3. r \in Seq(Message) /\ Len(r) = h + 1 /\ r[h + 1] = m
      /\ \A i \in 1 .. h : r[i] = log[i]
  BY <1>2, AppendProperties
<1>. HIDE DEF r, h
<1>4. \A i \in 1 .. h + 1 : i \in 1 .. h \/ i = h + 1
  BY <1>1
<1>5. ASSUME NEW j \in 1 .. h + 1, r[j].role = "compaction"
      PROVE  r[j].stop = "none" /\ r[j].n \in 1 .. j - 1 /\ r[r[j].n].role # "result"
  <2>1. CASE j \in 1 .. h
    <3>1. r[j] = log[j]
      BY <1>3, <2>1
    <3> DEFINE n == log[j].n
    <3>2. log[j].stop = "none" /\ n \in 1 .. j - 1 /\ log[n].role # "result"
      BY <1>5, <2>1, <3>1 DEF Cuts, h
    <3>. HIDE DEF n
    <3>3. n \in 1 .. h
      BY <1>1, <2>1, <3>2
    <3>4. r[n] = log[n]
      BY <1>3, <3>3
    <3>. QED  BY <3>1, <3>2, <3>4 DEF n
  <2>2. CASE j = h + 1
    <3>1. r[j] = m /\ r[keep] = log[keep] /\ keep \in 1 .. j - 1
      BY <1>1, <1>3, <2>2
    <3>. QED  BY <1>1, <1>2, <3>1
  <2>. QED  BY <1>4, <2>1, <2>2
<1>6. ASSUME NEW j \in 1 .. h + 1, r[j].role = "result"
      PROVE  j > 1 /\ r[j - 1].stop = "tools"
  <2>1. j \in 1 .. h
    BY <1>2, <1>3, <1>4, <1>6
  <2>2. j > 1 /\ log[j - 1].stop = "tools"
    BY <1>3, <1>6, <2>1 DEF Ordered, h
  <2>3. j - 1 \in 1 .. h
    BY <1>1, <2>1, <2>2
  <2>. QED  BY <1>3, <2>2, <2>3
<1>7. r \in Seq(Message) /\ Cuts(r) /\ Ordered(r)
  BY <1>3, <1>5, <1>6 DEF Cuts, Ordered
<1>. QED  BY <1>7 DEF r, m, Compacted

(* prepareCompaction keeps messages from one that is no tool result.        *)
LEMMA KeepCuts ==
    ASSUME log \in Seq(Message), Cuts(log), Ordered(log), CanCompact,
           NEW keep, keep \in KeepFrom
    PROVE  CutAt(log, keep)
<1> DEFINE h == Len(log)
           start == IF CompactionsIn(log) = {} THEN 1
                    ELSE log[LastOf(CompactionsIn(log))].n
           cuts == {i \in start .. Len(log) :
                       log[i].role \in {"user", "assistant", "bash"}}
<1>1. h \in Nat /\ h >= 1
  BY EmptySeq, LenProperties DEF CanCompact
<1>2. start \in 1 .. h /\ log[start].role # "result"
  <2>1. CASE CompactionsIn(log) = {}
    <3>1. 1 \in 1 .. h /\ ~(1 > 1)
      BY <1>1
    <3>2. log[1].role # "result"
      BY <3>1 DEF Ordered
    <3>. QED  BY <2>1, <3>1, <3>2
  <2>2. CASE CompactionsIn(log) # {}
    <3>. HIDE DEF Message
    <3>. QED  BY <2>2, LatestIs
  <2>. QED  BY <2>1, <2>2
<1>. HIDE DEF start
<1>3. cuts = {} => keep = start
  BY DEF KeepFrom, start
<1>4. cuts # {} => keep \in cuts
  BY DEF KeepFrom, start
<1>6. keep \in cuts => keep \in 1 .. h /\ log[keep].role # "result"
  BY <1>1, <1>2
<1>. QED  BY <1>2, <1>3, <1>4, <1>6 DEF CutAt

LEMMA CutsLater ==
    ASSUME log \in Seq(Message), NEW keep \in Nat
    PROVE  \A k : CutAt(log, k) => CutAt(Compacted(keep), k)
<1> DEFINE m == Msg("compaction", "none", keep)
           r == Append(log, m)
<1>1. m \in Message
  BY MessageIs
<1>. HIDE DEF Message, m
<1>2. Len(r) = Len(log) + 1 /\ \A i \in 1 .. Len(log) : r[i] = log[i]
  BY <1>1, AppendProperties
<1>3. \A i \in 1 .. Len(log) : i \in 1 .. Len(log) + 1
  BY LenProperties
<1>. HIDE DEF r
<1>4. ASSUME NEW k, CutAt(log, k) PROVE CutAt(r, k)
  BY <1>2, <1>3, <1>4 DEF CutAt
<1>. QED  BY <1>4 DEF Compacted, r, m

-----------------------------------------------------------------------------
(* The context and the session agree.                                       *)

Agree(x, l) ==
    /\ x \in Seq(Message) /\ Ordered(x)
    /\ Ordered(l) /\ Cuts(l)
    /\ Kept(x) = Kept(Rebuilt(l))

(* What both hear, both have.                                               *)
LEMMA AgreeAdds ==
    ASSUME NEW x, NEW l \in Seq(Message), NEW t \in Seq(Message), Agree(x, l),
           \A i \in 1 .. Len(t) : t[i].role # "compaction",
           Follows(x, t), Follows(l, t)
    PROVE  Agree(x \o t, l \o t) /\ l \o t \in Seq(Message)
<1>0. x \in Seq(Message) /\ Ordered(x) /\ Ordered(l) /\ Cuts(l)
      /\ Kept(x) = Kept(Rebuilt(l))
  BY DEF Agree
<1>. HIDE DEF Message
<1>1. x \o t \in Seq(Message) /\ l \o t \in Seq(Message)
  BY <1>0, ConcatProperties
<1>2. Ordered(x \o t)
  BY <1>0, OrderedConcat
<1>3. Ordered(l \o t)
  BY <1>0, OrderedConcat
<1>4. Cuts(l \o t)
  BY <1>0, CutsConcat
<1>5. Kept(x \o t) = Kept(x) \o Kept(t)
  BY <1>0, KeptConcat
<1>6. Rebuilt(l \o t) = Rebuilt(l) \o t /\ Rebuilt(l) \in Seq(Message)
  BY <1>0, RebuiltConcat, RebuiltIs
<1>7. Kept(Rebuilt(l) \o t) = Kept(Rebuilt(l)) \o Kept(t)
  BY <1>6, KeptConcat
<1>. QED  BY <1>0, <1>1, <1>2, <1>3, <1>4, <1>5, <1>6, <1>7 DEF Agree

(* An answer that does not count may be taken out of the context.           *)
LEMMA AgreeDrops ==
    ASSUME NEW x, NEW l \in Seq(Message), Agree(x, l),
           x # <<>> /\ IsAnswer(x[Len(x)]) => ~Stays(x[Len(x)])
    PROVE  Agree(WithoutLastAnswer(x), l)
<1>0. x \in Seq(Message) /\ Ordered(x) /\ Ordered(l) /\ Cuts(l)
      /\ Kept(x) = Kept(Rebuilt(l))
  BY DEF Agree
<1> DEFINE r == WithoutLastAnswer(x)
           m == x[Len(x)]
<1>1. \/ r = x
      \/ /\ x # <<>> /\ IsAnswer(m) /\ m \in Message
         /\ r \in Seq(Message) /\ x = r \o <<m>>
         /\ Len(x) = Len(r) + 1 /\ \A i \in 1 .. Len(r) : r[i] = x[i]
  <2>. HIDE DEF Message, r
  <2>1. r = WithoutLastAnswer(x)
    BY DEF r
  <2>. QED  BY <1>0, <2>1, WithoutIs
<1>2. CASE r = x
  BY <1>2
<1>3. CASE /\ x # <<>> /\ IsAnswer(m) /\ m \in Message
           /\ r \in Seq(Message) /\ x = r \o <<m>>
           /\ Len(x) = Len(r) + 1 /\ \A i \in 1 .. Len(r) : r[i] = x[i]
  <2>1. ~Stays(m)
    BY <1>3
  <2>. HIDE DEF Message, r, m
  <2>2. Kept(r) = Kept(x)
    BY <1>3, <2>1, KeptDropped
  <2>3. Len(r) \in Nat /\ \A i \in 1 .. Len(r) : i \in 1 .. Len(r) + 1
    BY <1>3, LenProperties
  <2>4. \A i \in 1 .. Len(r) : i > 1 => i - 1 \in 1 .. Len(r)
    BY <2>3
  <2>5. Ordered(r)
    <3> SUFFICES ASSUME NEW i \in 1 .. Len(r), r[i].role = "result"
                 PROVE  i > 1 /\ r[i - 1].stop = "tools"
      BY DEF Ordered
    <3>1. i \in 1 .. Len(x) /\ x[i].role = "result"
      BY <1>3, <2>3
    <3>2. i > 1 /\ x[i - 1].stop = "tools"
      BY <3>1, <1>0 DEF Ordered
    <3>. QED  BY <1>3, <2>4, <3>2
  <2>6. Agree(r, l)
    BY <1>0, <1>3, <2>2, <2>5 DEF Agree
  <2>. QED  BY <2>6 DEF r
<1>. QED  BY <1>1, <1>2, <1>3

(* After a compaction the context is rebuilt from the session.              *)
LEMMA AgreeCompacted ==
    ASSUME log \in Seq(Message), Cuts(log), Ordered(log), NEW keep, CutAt(log, keep)
    PROVE  LET l == Compacted(keep)
               x == Rebuilt(l)
           IN  /\ l \in Seq(Message) /\ Agree(x, l)
               /\ IsError(x[Len(x)]) => Agree(WithoutLastAnswer(x), l)
<1> DEFINE l == Compacted(keep)
           x == Rebuilt(l)
<1>. HIDE DEF Message
<1>1. l \in Seq(Message) /\ Cuts(l) /\ Ordered(l)
  BY CompactedIs
<1>. HIDE DEF l
<1>2. x \in Seq(Message) /\ Ordered(x)
  BY <1>1, RebuiltIs
<1>3. Agree(x, l)
  BY <1>1, <1>2 DEF Agree
<1>. HIDE DEF x
<1>4. ASSUME IsError(x[Len(x)]) PROVE Agree(WithoutLastAnswer(x), l)
  <2>1. ~Stays(x[Len(x)])
    BY <1>4 DEF Stays
  <2>. QED  BY <1>1, <1>3, <2>1, AgreeDrops
<1>. QED  BY <1>1, <1>3, <1>4 DEF l, x

(* The answer that ended a run is the last of the context and is in hand,   *)
(* a call of tools is still the last message of the context and of the      *)
(* session, and a compaction under way has chosen where it cuts.            *)
StopsWith(s, stop) == s # <<>> /\ s[Len(s)].stop = stop

ContextInv ==
    missed = "no" =>
        /\ Agree(ctx, log)
        /\ \A c \in Chains : chain[c].pc = "compacting" => CutAt(log, chain[c].keep)
        /\ manual.pc = "summarising" => CutAt(log, manual.keep)
        /\ run.stage = "tools" => StopsWith(ctx, "tools") /\ StopsWith(log, "tools")
        /\ Answered => ctx # <<>> /\ last = ctx[Len(ctx)]
        /\ run.stage \in {"tools", "ending"} => connected = "yes" \/ manual.pc = "waiting"
        /\ \A c \in Chains :
              chain[c].pc \in {"sleeping", "cancelled"} => chain[c].msg.stop = "retry"

(* A session that was heard has what the context has.                       *)
LEMMA HearBoth ==
    ASSUME TypeOK, missed' = "no", NEW x, NEW l \in Seq(Message), NEW ms, NEW t, NEW a,
           Hear(x, l, ms, t, a)
    PROVE  /\ missed = "no" /\ ctx' = x \o ms /\ log' = l \o ms
           /\ connected = "yes" \/ ms = <<>>
<1>1. l \o <<>> = l
  BY ConcatEmptySeq
<1>. QED  BY <1>1 DEF Hear

LEMMA AgreeSaid ==
    ASSUME NEW x, NEW l \in Seq(Message), NEW t \in Seq(Message), Agree(x, l),
           \A i \in 1 .. Len(t) : t[i].role \in {"bash", "user"}
    PROVE  /\ Agree(x \o t, l \o t) /\ l \o t \in Seq(Message)
           /\ \A keep : CutAt(l, keep) => CutAt(l \o t, keep)
<1>1. Follows(x, t) /\ Follows(l, t)
  BY DEF Follows
<1>2. \A i \in 1 .. Len(t) : t[i].role # "compaction"
  OBVIOUS
<1>3. Cuts(l)
  BY DEF Agree
<1>. HIDE DEF Message
<1>4. Agree(x \o t, l \o t) /\ l \o t \in Seq(Message)
  BY <1>1, <1>2, AgreeAdds
<1>5. \A keep : CutAt(l, keep) => CutAt(l \o t, keep)
  BY <1>2, <1>3, CutsConcat
<1>. QED  BY <1>4, <1>5

(* An end of a chain, or a call of the model, keeps the agreement.          *)
LEMMA EndBoth ==
    ASSUME TypeOK, missed' = "no", NEW c, NEW pc, NEW x, NEW l \in Seq(Message), NEW t, NEW a,
           Agree(x, l), End(c, pc, x, l, t, a)
    PROVE  Agree(ctx', log') /\ \A keep : CutAt(l, keep) => CutAt(log', keep)
<1>1. pending \in Seq(Message) /\ \A i \in 1 .. Len(pending) : pending[i].role = "bash"
  BY TypeParts, ShellSeq DEF LogOK
<1>2. Hear(x \o pending, l \o pending, <<>>, t, a)
  BY DEF End
<1>3. x \in Seq(Message)
  BY DEF Agree
<1>. HIDE DEF Message
<1>4. /\ Agree(x \o pending, l \o pending) /\ l \o pending \in Seq(Message)
      /\ \A keep : CutAt(l, keep) => CutAt(l \o pending, keep)
  BY <1>1, AgreeSaid
<1> DEFINE y == x \o pending
           m == l \o pending
<1>5. y \in Seq(Message) /\ m \in Seq(Message)
  BY <1>1, <1>3, ConcatProperties
<1>. HIDE DEF y, m
<1>6. ctx' = y \o <<>> /\ log' = m \o <<>>
  BY <1>2, <1>5, HearBoth DEF y, m
<1>7. y \o <<>> = y /\ m \o <<>> = m
  BY <1>5, ConcatEmptySeq
<1>. QED  BY <1>4, <1>6, <1>7 DEF y, m

LEMMA GoOnBoth ==
    ASSUME TypeOK, missed' = "no", NEW c, NEW x, NEW l \in Seq(Message), NEW t, NEW a,
           Agree(x, l),
           Continue(c, x, l, t, a) \/ GoOn(c, x, l, t, a) \/ Finish(c, x, l, t, a)
    PROVE  Agree(ctx', log') /\ \A keep : CutAt(l, keep) => CutAt(log', keep)
<1>1. ASSUME Hear(x, l, Poll, t, a)
      PROVE  Agree(ctx', log') /\ \A keep : CutAt(l, keep) => CutAt(log', keep)
  <2>1. ctx' = x \o Poll /\ log' = l \o Poll
    BY <1>1, HearBoth
  <2>2. Poll \in Seq(Message) /\ \A i \in 1 .. Len(Poll) : Poll[i].role \in {"bash", "user"}
    <3>1. queue \in Nat
      BY DEF TypeOK
    <3>2. CASE queue = 0
      <4>1. Poll = <<>> /\ Len(<<>>) = 0 /\ \A i \in 1 .. 0 : FALSE
        BY <3>2, PollIs
      <4>. QED  BY <4>1, PollIs
    <3>3. CASE queue > 0
      <4>1. Poll = <<User>> /\ Len(<<User>>) = 1 /\ <<User>>[1].role = "user"
            /\ \A i \in 1 .. 1 : i = 1
        BY <3>3, PollIs, UserIs
      <4>. HIDE DEF User, Message, Poll
      <4>. QED  BY <4>1, PollIs
    <3>. QED  BY <3>1, <3>2, <3>3
  <2>. QED  BY <2>1, <2>2, AgreeSaid
<1>2. \/ \E pc : End(c, pc, x, l, t, a)
      \/ Hear(x, l, Poll, t, a)
  BY DEF Continue, GoOn, Finish
<1>. QED  BY <1>1, <1>2, EndBoth

(* The one chain under way moves, and no run has answered.                  *)
LEMMA ContextMoved ==
    ASSUME TypeOK, Alone, ContextInv, missed = "no", NEW c \in Chains, Underway(c),
           NEW e \in Chain, chain' = [chain EXCEPT ![c] = e], e.pc # "post",
           run'.stage \in {"none", "calling"}, manual' = manual, Agree(ctx', log'),
           \A keep : CutAt(log, keep) => CutAt(log', keep),
           e.pc = "compacting" => CutAt(log', e.keep),
           e.pc \in {"sleeping", "cancelled"} => e.msg.stop = "retry"
    PROVE  ContextInv'
<1>0. ControlOK
  BY TypeParts
<1>1. /\ chain'[c] = e
      /\ \A d \in Chains : chain'[d].pc \notin {"idle", "done", "failed"} => d = c
  <2>. HIDE DEF Chain
  <2>. QED  BY <1>0, MovedIs
<1>. HIDE DEF Chain
<1>2. ~Answered'
  BY <1>1 DEF Answered
<1>3. \A d \in Chains : chain'[d].pc = "compacting" => CutAt(log', chain'[d].keep)
  BY <1>1
<1>4. \A d \in Chains :
         chain'[d].pc \in {"sleeping", "cancelled"} => chain'[d].msg.stop = "retry"
  BY <1>1
<1>5. manual'.pc = "summarising" => CutAt(log', manual'.keep)
  BY DEF ContextInv
<1>. QED  BY <1>2, <1>3, <1>4, <1>5 DEF ContextInv

(* The chain ends, or goes on to the user's message.                        *)
LEMMA ContextEnded ==
    ASSUME TypeOK, Alone, ContextInv, missed = "no", NEW c \in Chains, Underway(c),
           chain[c].pc # "running", NEW l, NEW t, NEW a,
           Ended(c, l, t, a) \/ Resumed(c, l, t, a), manual' = manual, Agree(ctx', log'),
           \A keep : CutAt(log, keep) => CutAt(log', keep)
    PROVE  ContextInv'
<1>0. ControlOK
  BY TypeParts
<1>1. PICK pc \in {"done", "failed", "sending", "running"}, pre \in {"no", "loop"} :
         Goto(c, pc, pre)
  BY DEF Ended, Resumed
<1>2. PICK e \in Chain : chain' = [chain EXCEPT ![c] = e] /\ e.pc = pc
  BY <1>0, <1>1, GotoIs
<1>3. run'.stage \in {"none", "calling"}
  BY <1>0, OnlyOne DEF Ended, Resumed, CallModel, Streaming
<1>. HIDE DEF Chain
<1>. QED  BY <1>2, <1>3, ContextMoved

LEMMA ContextGoesOn ==
    ASSUME TypeOK, Alone, ContextInv, missed' = "no", NEW c \in Chains, Underway(c),
           chain[c].pc # "running", NEW x, NEW l \in Seq(Message), NEW t, NEW a,
           Continue(c, x, l, t, a) \/ GoOn(c, x, l, t, a) \/ Finish(c, x, l, t, a),
           manual' = manual,
           missed = "no" => Agree(x, l) /\ \A keep : CutAt(log, keep) => CutAt(l, keep)
    PROVE  ContextInv'
<1>0. LogOK /\ pending \in Seq(Message)
  BY TypeParts, LogFacts
<1>1. Ended(c, l, t, a) \/ Resumed(c, l, t, a)
  BY <1>0, EndIs, ContinueIs, GoOnIs DEF Finish
<1>2. missed = "no"
  BY <1>1 DEF Ended, Resumed, Heard
<1>3. Agree(ctx', log') /\ \A keep : CutAt(l, keep) => CutAt(log', keep)
  BY <1>2, GoOnBoth
<1>. QED  BY <1>1, <1>2, <1>3, ContextEnded

(* _checkCompaction: what it takes out of the context does not count.       *)
LEMMA ContextCheck ==
    ASSUME TypeOK, Alone, ContextInv, missed' = "no", NEW c \in Chains, Underway(c),
           chain[c].pc # "running", NEW msg, NEW a, Check(c, msg, a), manual' = manual,
           missed = "no" /\ Need(msg) = "overflow" /\ ctx # <<>> /\ IsAnswer(ctx[Len(ctx)])
              => ~Stays(ctx[Len(ctx)])
    PROVE  ContextInv'
<1>0. LogOK /\ ControlOK /\ log \in Seq(Message)
  BY TypeParts DEF LogOK
<1>1. missed = "no" => Agree(ctx, log)
  BY DEF ContextInv
<1>2. missed = "no" /\ Need(msg) = "overflow" => Agree(WithoutLastAnswer(ctx), log)
  BY <1>0, <1>1, AgreeDrops
<1>3. ASSUME NEW why \in {"overflow", "threshold"}, StartCompaction(c, why), CanCompact,
             missed = "no" => Agree(ctx', log)
      PROVE  ContextInv'
  <2>1. PICK keep \in KeepFrom :
           chain' = [chain EXCEPT ![c] = [@ EXCEPT !.pc = "compacting", !.why = why,
                                                   !.keep = keep, !.msg = None]]
    BY <1>3 DEF StartCompaction
  <2>2. UNCHANGED <<run, log, missed>> /\ missed = "no" /\ Agree(ctx', log')
    BY <1>3 DEF StartCompaction
  <2>3. keep \in Nat /\ CutAt(log, keep)
    <3>1. keep \in Nat
      BY <1>0, <2>1, KeepIs
    <3>2. Cuts(log) /\ Ordered(log)
      BY <1>1, <2>2 DEF Agree
    <3>. QED  BY <1>0, <1>3, <2>1, <3>1, <3>2, KeepCuts
  <2> DEFINE e == [chain[c] EXCEPT !.pc = "compacting", !.why = why,
                                   !.keep = keep, !.msg = None]
  <2>4. e \in Chain /\ e.pc = "compacting" /\ e.keep = keep
    <3>1. chain[c] \in Chain /\ None \in Message
      BY <1>0, UserIs DEF ControlOK
    <3>. HIDE DEF Message, None
    <3>. QED  BY <2>3, <3>1 DEF Chain
  <2>5. chain' = [chain EXCEPT ![c] = e]
    BY <2>1
  <2>. HIDE DEF e, Chain
  <2>6. run'.stage = "none"
    BY <1>0, <2>2, OnlyOne DEF Streaming
  <2>. QED  BY <2>2, <2>3, <2>4, <2>5, <2>6, ContextMoved
<1> DEFINE first == Need(msg) = "overflow" /\ tried = "no" /\ CanCompact
           second == Need(msg) = "overflow" /\ tried = "no" /\ ~CanCompact
           third == Need(msg) = "threshold" /\ CanCompact
<1>4. CASE first
  <2>1. ctx' = WithoutLastAnswer(ctx) /\ StartCompaction(c, "overflow")
    BY <1>4 DEF Check
  <2>. QED  BY <1>2, <1>3, <1>4, <2>1
<1>5. CASE second
  <2>1. GoOn(c, WithoutLastAnswer(ctx), log, "yes", a)
    BY <1>5 DEF Check
  <2>. QED  BY <1>0, <1>2, <1>5, <2>1, ContextGoesOn
<1>6. CASE third
  <2>1. ctx' = ctx /\ StartCompaction(c, "threshold")
    BY <1>6 DEF Check
  <2>. QED  BY <1>1, <1>3, <1>6, <2>1
<1>7. CASE ~first /\ ~second /\ ~third
  <2>1. GoOn(c, ctx, log, tried, a)
    BY <1>7 DEF Check
  <2>. QED  BY <1>0, <1>1, <2>1, ContextGoesOn
<1>. QED  BY <1>4, <1>5, <1>6, <1>7

LEMMA NeedIs ==
    ASSUME NEW msg, Need(msg) = "overflow"
    PROVE  msg.stop \in {"overflow", "full"} /\ (IsAnswer(msg) => ~Stays(msg))
<1>1. msg.stop \in {"overflow", "full"}
  BY DEF Need
<1>. QED  BY <1>1 DEF Stays, IsError, Errors

(* The error that is retried leaves the context.                            *)
LEMMA ContextRetry ==
    ASSUME TypeOK, Alone, ContextInv, missed' = "no", NEW c \in Chains,
           chain[c].pc = "post", chain[c].pre # "first", last.stop = "retry", Retry(c),
           manual' = manual
    PROVE  ContextInv'
<1>0. LogOK /\ ControlOK /\ log \in Seq(Message)
  BY TypeParts DEF LogOK
<1>1. /\ UNCHANGED <<run, log, missed>> /\ ctx' = WithoutLastAnswer(ctx)
      /\ chain' = [chain EXCEPT ![c].pc = "sleeping", ![c].msg = last]
  BY DEF Retry
<1>2. missed = "no" /\ Underway(c)
  BY <1>1 DEF Underway
<1>3. Agree(ctx, log) /\ ctx # <<>> /\ last = ctx[Len(ctx)]
  BY <1>2 DEF ContextInv, Answered
<1>4. IsAnswer(ctx[Len(ctx)]) => ~Stays(ctx[Len(ctx)])
  BY <1>3 DEF Stays, IsError, Errors
<1>5. Agree(ctx', log')
  BY <1>0, <1>1, <1>3, <1>4, AgreeDrops
<1> DEFINE e == [chain[c] EXCEPT !.pc = "sleeping", !.msg = last]
<1>6. e \in Chain /\ e.pc = "sleeping" /\ e.msg = last
  <2>1. chain[c] \in Chain /\ last \in Message
    BY <1>0 DEF ControlOK, LogOK
  <2>. HIDE DEF Message
  <2>. QED  BY <2>1 DEF Chain
<1>7. chain' = [chain EXCEPT ![c] = e]
  <2>1. chain \in [Chains -> Chain]
    BY <1>0 DEF ControlOK
  <2>. HIDE DEF Chain, Message
  <2>. QED  BY <1>1, <2>1
<1>8. run'.stage = "none"
  BY <1>0, <1>1, <1>2, OnlyOne DEF Streaming
<1>. HIDE DEF e, Chain
<1>. QED  BY <1>1, <1>2, <1>5, <1>6, <1>7, <1>8, ContextMoved

LEMMA ContextSend ==
    ASSUME TypeOK, Alone, ContextInv, missed' = "no", NEW c \in Chains, Send(c)
    PROVE  ContextInv'
<1>0. LogOK /\ ControlOK /\ log \in Seq(Message)
  BY TypeParts DEF LogOK
<1>1. Underway(c) /\ chain[c].pc = "sending" /\ manual' = manual
  BY SendIs DEF Underway
<1>2. missed = "no" => Agree(ctx, log)
  BY DEF ContextInv
<1>3. CASE End(c, "failed", ctx, log, tried, attempt) /\ Ended(c, log, tried, attempt)
  <2>1. missed = "no"
    BY <1>3 DEF Ended
  <2>2. Agree(ctx', log') /\ \A keep : CutAt(log, keep) => CutAt(log', keep)
    BY <1>0, <1>2, <1>3, <2>1, EndBoth
  <2>. QED  BY <1>1, <1>3, <2>1, <2>2, ContextEnded
<1>4. ASSUME NEW ms \in Seq(Message), CallModel(c), Goto(c, "running", "no"),
             ms = IF queue > 0 THEN <<User, User>> ELSE <<User>>,
             Hear(ctx, log, ms, tried, attempt)
      PROVE  ContextInv'
  <2>1. missed = "no" /\ ctx' = ctx \o ms /\ log' = log \o ms
    BY <1>0, <1>4, HearBoth
  <2>2. \A i \in 1 .. Len(ms) : ms[i].role \in {"bash", "user"}
    <3>1. User.role = "user" /\ Len(<<User>>) = 1 /\ Len(<<User, User>>) = 2
          /\ <<User>>[1] = User /\ <<User, User>>[1] = User /\ <<User, User>>[2] = User
      BY UserIs
    <3>. HIDE DEF User
    <3>. QED  BY <1>4, <3>1
  <2>3. Agree(ctx', log') /\ \A keep : CutAt(log, keep) => CutAt(log', keep)
    BY <1>0, <1>2, <2>1, <2>2, AgreeSaid
  <2>4. PICK e \in Chain : chain' = [chain EXCEPT ![c] = e] /\ e.pc = "running"
    BY <1>0, <1>4, GotoIs
  <2>5. run'.stage = "calling"
    BY <1>4 DEF CallModel
  <2>. HIDE DEF Chain
  <2>. QED  BY <1>1, <2>1, <2>3, <2>4, <2>5, ContextMoved
<1>. QED  BY <1>3, <1>4, SendIs

LEMMA ContextChain ==
    ASSUME TypeOK, Alone, ContextInv, missed' = "no", NEW c \in Chains,
           \/ PromptChecks(c) \/ Send(c) \/ PostRun(c) \/ SleepEnds(c)
           \/ RetryCancelled(c) \/ CompactionSucceeds(c) \/ CompactionFails(c)
    PROVE  ContextInv'
<1>0. LogOK /\ ControlOK /\ log \in Seq(Message)
  BY TypeParts DEF LogOK
<1>1. missed = "no" => Agree(ctx, log)
  BY DEF ContextInv
<1>2. ASSUME NEW pc \in {"post", "sending", "sleeping", "cancelled", "compacting"},
             chain[c].pc = pc
      PROVE  Underway(c) /\ chain[c].pc # "running"
  BY <1>2 DEF Underway
<1>3. CASE PromptChecks(c)
  <2> DEFINE answers == {i \in DOMAIN ctx : IsAnswer(ctx[i])}
             msg == IF answers = {} THEN None ELSE ctx[LastOf(answers)]
  <2>1. chain[c].pc = "post" /\ Check(c, msg, attempt) /\ manual' = manual
    BY <1>3 DEF PromptChecks
  <2>2. ASSUME missed = "no", Need(msg) = "overflow", ctx # <<>>, IsAnswer(ctx[Len(ctx)])
        PROVE  ~Stays(ctx[Len(ctx)])
    <3> DEFINE n == Len(ctx)
    <3>1. ctx \in Seq(Message)
      BY <1>1, <2>2 DEF Agree
    <3>2. n \in 1 .. n /\ n \in Nat /\ DOMAIN ctx = 1 .. n
      <4>. HIDE DEF Message
      <4>. QED  BY <2>2, <3>1, EmptySeq, LenProperties
    <3>3. n \in answers /\ answers \subseteq 1 .. n
      BY <2>2, <3>2
    <3>. HIDE DEF answers, n
    <3>4. LastOf(answers) \in answers /\ n <= LastOf(answers)
      BY <3>2, <3>3, LastIs
    <3>5. LastOf(answers) = n
      <4> DEFINE k == LastOf(answers)
      <4>1. k \in 1 .. n /\ n <= k
        BY <3>3, <3>4
      <4>. HIDE DEF k
      <4>2. k = n
        BY <3>2, <4>1
      <4>. QED  BY <4>2 DEF k
    <3>6. msg = ctx[n] /\ IsAnswer(msg)
      BY <2>2, <3>3, <3>5 DEF n
    <3>. HIDE DEF msg
    <3>. QED  BY <2>2, <3>6, NeedIs DEF n
  <2>. HIDE DEF msg
  <2>. QED  BY <1>2, <2>1, <2>2, ContextCheck
<1>4. CASE Send(c)
  BY <1>4, ContextSend
<1>5. CASE PostRun(c)
  <2>1. chain[c].pc = "post" /\ chain[c].pre # "first" /\ manual' = manual
    BY <1>5 DEF PostRun
  <2>2. missed = "no" => ctx # <<>> /\ last = ctx[Len(ctx)]
    BY <2>1 DEF ContextInv, Answered
  <2>3. CASE Finish(c, ctx, log, tried, attempt)
    BY <1>0, <1>1, <1>2, <2>1, <2>3, ContextGoesOn
  <2>4. CASE last.stop = "retry" /\ Retry(c)
    BY <2>1, <2>4, ContextRetry
  <2>5. ASSUME NEW msg \in {None, last}, NEW a, Check(c, msg, a) PROVE ContextInv'
    <3>1. Need(None) # "overflow"
      BY NeedIs DEF None, Msg
    <3>2. missed = "no" /\ Need(msg) = "overflow" /\ ctx # <<>> /\ IsAnswer(ctx[Len(ctx)])
             => ~Stays(ctx[Len(ctx)])
      BY <2>2, <3>1, NeedIs
    <3>. QED  BY <1>2, <2>1, <2>5, <3>2, ContextCheck
  <2>6. \/ Finish(c, ctx, log, tried, attempt)
        \/ last.stop = "retry" /\ Retry(c)
        \/ \E msg \in {None, last}, a \in {0, attempt} : Check(c, msg, a)
    BY <1>5 DEF PostRun
  <2>. QED  BY <2>3, <2>4, <2>5, <2>6
<1>6. CASE SleepEnds(c)
  <2>1. chain[c].pc = "sleeping" /\ Continue(c, ctx, log, tried, attempt) /\ manual' = manual
    BY <1>6 DEF SleepEnds
  <2>. QED  BY <1>0, <1>1, <1>2, <2>1, ContextGoesOn
<1>7. CASE RetryCancelled(c)
  <2>1. chain[c].pc = "cancelled" /\ Check(c, chain[c].msg, 0) /\ manual' = manual
    BY <1>7 DEF RetryCancelled
  <2>2. missed = "no" => Need(chain[c].msg) # "overflow"
    BY <2>1, NeedIs DEF ContextInv
  <2>. QED  BY <1>2, <2>1, <2>2, ContextCheck
<1>8. CASE CompactionSucceeds(c)
  <2> DEFINE keep == chain[c].keep
             l == Compacted(keep)
             x == Rebuilt(l)
             y == IF chain[c].why = "overflow" /\ IsError(x[Len(x)])
                    THEN WithoutLastAnswer(x) ELSE x
  <2>1. /\ chain[c].pc = "compacting" /\ manual' = manual
        /\ Continue(c, y, l, tried, attempt) \/ GoOn(c, y, l, tried, attempt)
    BY <1>8 DEF CompactionSucceeds
  <2>2. keep \in Nat
    BY <1>0 DEF ControlOK, Chain
  <2>3. l \in Seq(Message)
    BY <1>0, <2>2, RowCompacted
  <2>4. ASSUME missed = "no" PROVE Agree(y, l)
    <3>1. CutAt(log, keep) /\ Cuts(log) /\ Ordered(log)
      BY <2>1, <2>4 DEF ContextInv, Agree
    <3>. HIDE DEF keep
    <3>. QED  BY <1>0, <3>1, AgreeCompacted
  <2>5. \A k : CutAt(log, k) => CutAt(l, k)
    BY <1>0, <2>2, CutsLater
  <2>. HIDE DEF y, l
  <2>. QED  BY <1>2, <2>1, <2>3, <2>4, <2>5, ContextGoesOn
<1>9. CASE CompactionFails(c)
  <2>1. chain[c].pc = "compacting" /\ GoOn(c, ctx, log, tried, attempt) /\ manual' = manual
    BY <1>9 DEF CompactionFails
  <2>. QED  BY <1>0, <1>1, <1>2, <2>1, ContextGoesOn
<1>. QED  BY <1>3, <1>4, <1>5, <1>6, <1>7, <1>8, <1>9

(* The user and the host.                                                   *)
LEMMA ContextHost ==
    ASSUME Overlap = "no", TypeOK, Alone, ContextInv, missed' = "no",
           Steer \/ RecordBash \/ Abort \/ Compact \/ \E c \in Chains : Prompt(c)
    PROVE  ContextInv'
<1>0. /\ LogOK /\ ControlOK /\ DoneOK /\ log \in Seq(Message) /\ pending \in Seq(Message)
      /\ \A i \in 1 .. Len(pending) : pending[i].role = "bash"
  BY TypeParts, ShellSeq DEF LogOK
<1>1. CASE Steer
  BY <1>1 DEF Steer, ContextInv, Answered
<1>2. CASE RecordBash
  <2> DEFINE m == Msg("bash", "none", done.bashes)
  <2>1. m \in Message /\ m.role = "bash"
    BY <1>0, MessageIs DEF Msg, DoneOK
  <2>2. UNCHANGED <<run, chain, missed, last, connected, manual>> /\ Between
    BY <1>2 DEF RecordBash, May
  <2>3. CASE Streaming
    <3>1. UNCHANGED <<ctx, log>>
      BY <1>2, <2>3 DEF RecordBash
    <3>. QED  BY <2>2, <3>1 DEF ContextInv, Answered
  <2>4. CASE ~Streaming
    <3>1. ctx' = Append(ctx, m) /\ log' = Append(log, m)
      BY <1>2, <2>4 DEF RecordBash
    <3>2. Agree(ctx, log) /\ ctx \in Seq(Message)
      BY <2>2 DEF ContextInv, Agree
    <3>. HIDE DEF m, Message
    <3>3. ctx' = ctx \o <<m>> /\ log' = log \o <<m>> /\ <<m>> \in Seq(Message)
      BY <1>0, <2>1, <3>1, <3>2, AppendIsConcat
    <3>4. \A i \in 1 .. Len(<<m>>) : <<m>>[i].role \in {"bash", "user"}
      <4>1. Len(<<m>>) = 1 /\ <<m>>[1] = m /\ \A i \in 1 .. 1 : i = 1
        OBVIOUS
      <4>. QED  BY <2>1, <4>1
    <3>5. Agree(ctx', log') /\ \A keep : CutAt(log, keep) => CutAt(log', keep)
      BY <1>0, <3>2, <3>3, <3>4, AgreeSaid
    <3>6. run'.stage = "none" /\ ~Answered'
      BY <2>2, <2>4 DEF Streaming, Between, Answered
    <3>. QED  BY <2>2, <3>5, <3>6 DEF ContextInv
  <2>. QED  BY <2>3, <2>4
<1>3. CASE Abort \/ Compact
  <2>1. Stop /\ UNCHANGED <<ctx, log, missed, last>>
    BY <1>3 DEF Abort, Compact
  <2>2. \A c \in Chains :
           \/ chain'[c] = chain[c]
           \/ /\ chain[c].pc = "sleeping" /\ chain'[c].pc = "cancelled"
              /\ chain'[c].msg = chain[c].msg
    <3>1. \A c \in Chains : chain[c] \in Chain
      BY <1>0 DEF ControlOK
    <3>2. \A e \in Chain : /\ [e EXCEPT !.pc = "cancelled"].pc = "cancelled"
                           /\ [e EXCEPT !.pc = "cancelled"].msg = e.msg
      <4>. HIDE DEF Message
      <4>. QED  BY DEF Chain
    <3>. HIDE DEF Chain, Run
    <3>3. \A c \in Chains :
             \/ chain'[c] = chain[c]
             \/ /\ chain[c].pc = "sleeping"
                /\ chain'[c] = [chain[c] EXCEPT !.pc = "cancelled"]
      BY <1>0, <2>1, StopIs
    <3> SUFFICES ASSUME NEW c \in Chains
                 PROVE  \/ chain'[c] = chain[c]
                        \/ /\ chain[c].pc = "sleeping" /\ chain'[c].pc = "cancelled"
                           /\ chain'[c].msg = chain[c].msg
      OBVIOUS
    <3>4. CASE chain'[c] = chain[c]
      BY <3>4
    <3>5. CASE /\ chain[c].pc = "sleeping"
               /\ chain'[c] = [chain[c] EXCEPT !.pc = "cancelled"]
      <4> DEFINE e == chain[c]
      <4>1. e \in Chain /\ e.pc = "sleeping" /\ chain'[c] = [e EXCEPT !.pc = "cancelled"]
        BY <3>1, <3>5
      <4>. HIDE DEF e
      <4>2. chain'[c].pc = "cancelled" /\ chain'[c].msg = e.msg
        BY <3>2, <4>1
      <4>. QED  BY <4>1, <4>2 DEF e
    <3>. QED  BY <3>3, <3>4, <3>5
  <2>3. run'.stage = run.stage
    BY <1>0, <2>1, StopIs
  <2>4. Answered' => Answered
    BY <2>2, <2>3 DEF Answered
  <2>5. \A c \in Chains : chain'[c].pc = "compacting" => CutAt(log', chain'[c].keep)
    BY <2>1, <2>2 DEF ContextInv
  <2>6. \A c \in Chains :
           chain'[c].pc \in {"sleeping", "cancelled"} => chain'[c].msg.stop = "retry"
    BY <2>1, <2>2 DEF ContextInv
  <2>7. /\ manual'.pc = "summarising" => manual' = manual
        /\ run.stage \in {"tools", "ending"} =>
              connected' = "yes" \/ manual'.pc = "waiting"
    <3>1. CASE Abort
      BY <2>1, <3>1 DEF Abort, ContextInv
    <3>2. CASE Compact
      BY <3>2 DEF Compact, Streaming
    <3>. QED  BY <1>3, <3>1, <3>2
  <2>. QED  BY <2>1, <2>3, <2>4, <2>5, <2>6, <2>7 DEF ContextInv
<1>4. ASSUME NEW c \in Chains, Prompt(c) PROVE ContextInv'
  <2>1. /\ \A d \in Chains : ~Underway(d)
        /\ ~Streaming /\ ctx' = ctx \o pending /\ log' = log \o pending
        /\ chain' = [chain EXCEPT ![c] = [@ EXCEPT !.pc = "post", !.pre = "first"]]
        /\ UNCHANGED <<run, missed, manual>> /\ manual.pc = "none"
    BY <1>4 DEF Prompt
  <2>2. /\ chain'[c].pc = "post" /\ chain'[c].pre = "first"
        /\ \A d \in Chains \ {c} : chain'[d] = chain[d]
    <3>1. chain \in [Chains -> Chain]
      BY <1>0 DEF ControlOK
    <3> DEFINE e == [chain[c] EXCEPT !.pc = "post", !.pre = "first"]
    <3>2. e.pc = "post" /\ e.pre = "first"
      <4>1. chain[c] \in Chain
        BY <3>1
      <4>. HIDE DEF Message
      <4>. QED  BY <4>1 DEF Chain
    <3>3. chain' = [chain EXCEPT ![c] = e]
      BY <2>1
    <3>. HIDE DEF Chain, e
    <3>. QED  BY <3>1, <3>2, <3>3
  <2>3. Agree(ctx', log')
    BY <1>0, <2>1, AgreeSaid DEF ContextInv
  <2>4. run'.stage = "none" /\ ~Answered'
    BY <2>1, <2>2 DEF Answered, Underway, Streaming
  <2>5. \A d \in Chains : chain'[d].pc \notin {"compacting", "sleeping", "cancelled"}
    BY <2>1, <2>2 DEF Underway
  <2>. QED  BY <2>1, <2>3, <2>4, <2>5 DEF ContextInv
<1>. QED  BY <1>1, <1>2, <1>3, <1>4

(* What an answer, or the results of tools, and a queued message add.       *)
LEMMA TurnIs ==
    ASSUME NEW m \in Message, m.role # "compaction", NEW ms,
           ms = <<m>> \/ ms = <<m, User>>
    PROVE  /\ ms \in Seq(Message) /\ ms # <<>>
           /\ \A i \in 1 .. Len(ms) : ms[i].role # "compaction"
           /\ \A s : (m.role = "result" => StopsWith(s, "tools")) => Follows(s, ms)
           /\ \A s \in Seq(Message) :
                 ms = <<m>> => s \o ms # <<>> /\ (s \o ms)[Len(s \o ms)] = m
<1>1. User \in Message /\ User.role = "user"
  BY UserIs
<1>. HIDE DEF Message, User
<1>2. /\ Len(<<m>>) = 1 /\ <<m>>[1] = m /\ Len(<<m, User>>) = 2
      /\ <<m, User>>[1] = m /\ <<m, User>>[2] = User
      /\ \A i \in 1 .. 1 : i = 1
      /\ \A i \in 1 .. 2 : i = 1 \/ i = 2
  OBVIOUS
<1>3. /\ <<m>> \in Seq(Message) /\ <<m, User>> \in Seq(Message)
      /\ <<m>> # <<>> /\ <<m, User>> # <<>>
  BY <1>1
<1>4. \A i \in 1 .. Len(ms) : (i = 1 /\ ms[i] = m) \/ (i = 2 /\ ms[i] = User)
  <2>1. CASE ms = <<m>>
    BY <1>2, <2>1
  <2>2. CASE ms = <<m, User>>
    BY <1>2, <2>2
  <2>. QED  BY <2>1, <2>2
<1>5. \A i \in 1 .. Len(ms) : ms[i].role # "compaction"
  BY <1>1, <1>4
<1>6. ASSUME NEW s, m.role = "result" => StopsWith(s, "tools") PROVE Follows(s, ms)
  BY <1>1, <1>4, <1>6 DEF Follows, StopsWith
<1>7. ASSUME NEW s \in Seq(Message), ms = <<m>>
      PROVE  s \o ms # <<>> /\ (s \o ms)[Len(s \o ms)] = m
  <2>1. s \o <<m>> = Append(s, m)
    BY AppendIsConcat
  <2>2. Append(s, m) # <<>> /\ Append(s, m)[Len(Append(s, m))] = m
    BY AppendProperties
  <2>. QED  BY <1>7, <2>1, <2>2
<1>. QED  BY <1>3, <1>5, <1>6, <1>7

LEMMA ContextHeard ==
    ASSUME TypeOK, ContextInv, missed' = "no", NEW m \in Message, m.role # "compaction",
           NEW ms, ms = <<m>> \/ ms = <<m, User>>, NEW t, NEW a,
           missed = "no" /\ m.role = "result" =>
              StopsWith(ctx, "tools") /\ StopsWith(log, "tools"),
           Hear(ctx, log, ms, t, a)
    PROVE  /\ missed = "no" /\ connected = "yes" /\ Agree(ctx', log')
           /\ \A keep : CutAt(log, keep) => CutAt(log', keep)
           /\ ms = <<m>> => /\ ctx' # <<>> /\ ctx'[Len(ctx')] = m
                            /\ log' # <<>> /\ log'[Len(log')] = m
<1>0. log \in Seq(Message)
  BY DEF TypeOK
<1>1. /\ ms \in Seq(Message) /\ ms # <<>>
      /\ \A i \in 1 .. Len(ms) : ms[i].role # "compaction"
  <2>. HIDE DEF Message, User
  <2>. QED  BY TurnIs
<1>2. /\ missed = "no" /\ connected = "yes"
      /\ ctx' = ctx \o ms /\ log' = log \o ms
  BY <1>0, <1>1, HearBoth
<1>3. Agree(ctx, log) /\ ctx \in Seq(Message) /\ Cuts(log)
  BY <1>2 DEF ContextInv, Agree
<1>. HIDE DEF Message, User
<1>4. Follows(ctx, ms) /\ Follows(log, ms)
  BY <1>2, TurnIs
<1>5. Agree(ctx', log')
  BY <1>0, <1>1, <1>2, <1>3, <1>4, AgreeAdds
<1>6. \A keep : CutAt(log, keep) => CutAt(log', keep)
  BY <1>0, <1>1, <1>2, <1>3, CutsConcat
<1>7. ms = <<m>> => /\ ctx' # <<>> /\ ctx'[Len(ctx')] = m
                    /\ log' # <<>> /\ log'[Len(log')] = m
  BY <1>0, <1>2, <1>3, TurnIs
<1>. QED  BY <1>2, <1>5, <1>6, <1>7

(* compact() and the run of the agent.                                      *)
LEMMA ContextRun ==
    ASSUME TypeOK, ContextInv, missed' = "no",
           CompactBegins \/ CompactEnds \/ Respond \/ FinishTools \/ EndRun
    PROVE  ContextInv'
<1>0. /\ LogOK /\ ControlOK /\ log \in Seq(Message)
  BY TypeParts DEF LogOK
<1>1. CASE CompactBegins
  <2>1. /\ UNCHANGED <<ctx, run, log, last, chain, missed>> /\ manual.pc = "ready"
        /\ \/ /\ CanCompact /\ connected' = connected
              /\ \E keep \in KeepFrom : manual' = [pc |-> "summarising", keep |-> keep]
           \/ manual' = [pc |-> "none", keep |-> 0] /\ connected' = "yes"
    BY <1>1 DEF CompactBegins
  <2>2. run.stage \notin {"tools", "ending"}
    BY <1>0, <2>1 DEF ContextInv, ControlOK
  <2>3. ASSUME manual'.pc = "summarising" PROVE CutAt(log, manual'.keep)
    <3>1. CanCompact /\ manual'.keep \in KeepFrom
      BY <2>1, <2>3
    <3>2. Cuts(log) /\ Ordered(log)
      BY <2>1 DEF ContextInv, Agree
    <3>. QED  BY <1>0, <3>1, <3>2, KeepCuts
  <2>. QED  BY <2>1, <2>2, <2>3 DEF ContextInv, Answered
<1>2. CASE CompactEnds
  <2>1. /\ UNCHANGED <<run, chain, missed>> /\ manual.pc = "summarising" /\ Between
        /\ manual'.pc = "none"
        /\ \/ UNCHANGED <<log, ctx>>
           \/ log' = Compacted(manual.keep) /\ ctx' = Rebuilt(log')
    BY <1>2 DEF CompactEnds
  <2>2. run.stage \notin {"tools", "ending"} /\ ~Answered'
    BY <1>0, <2>1 DEF ContextInv, ControlOK, Answered, Between
  <2>3. Agree(ctx', log') /\ \A k : CutAt(log, k) => CutAt(log', k)
    <3>1. CASE UNCHANGED <<log, ctx>>
      BY <2>1, <3>1 DEF ContextInv
    <3>2. CASE log' = Compacted(manual.keep) /\ ctx' = Rebuilt(log')
      <4>1. CutAt(log, manual.keep) /\ Cuts(log) /\ Ordered(log)
        BY <2>1 DEF ContextInv, Agree
      <4>2. manual.keep \in Nat
        BY <1>0 DEF ControlOK
      <4>3. Agree(ctx', log')
        BY <1>0, <3>2, <4>1, AgreeCompacted
      <4>. QED  BY <1>0, <3>2, <4>2, <4>3, CutsLater
    <3>. QED  BY <2>1, <3>1, <3>2
  <2>. QED  BY <2>1, <2>2, <2>3 DEF ContextInv
<1>3. CASE Respond
  <2>1. PICK stop \in Stops, ms \in Seq(Message) :
           LET m == Msg("assistant", stop, run.era)
               more == stop \in {"stop", "big", "full"} /\ queue > 0
           IN  /\ m \in Message /\ run.stage = "calling"
               /\ ms = IF more THEN <<m, User>> ELSE <<m>>
               /\ Hear(ctx, log, ms, tried, attempt)
               /\ last' = IF connected = "yes" THEN m ELSE last
               /\ run' = [run EXCEPT !.stage = IF stop = "tools" THEN "tools"
                              ELSE IF more THEN "calling" ELSE "ending"]
               /\ UNCHANGED <<connected, chain, manual>>
    BY <1>3, RespondIs
  <2> DEFINE m == Msg("assistant", stop, run.era)
             more == stop \in {"stop", "big", "full"} /\ queue > 0
  <2>2. /\ m \in Message /\ ms = (IF more THEN <<m, User>> ELSE <<m>>)
        /\ Hear(ctx, log, ms, tried, attempt)
        /\ last' = IF connected = "yes" THEN m ELSE last
        /\ UNCHANGED <<connected, chain, manual>> /\ Between
    BY <1>3, <2>1 DEF Respond
  <2>3. run'.stage = IF stop = "tools" THEN "tools" ELSE IF more THEN "calling" ELSE "ending"
    <3>1. run \in Run
      BY <1>0 DEF ControlOK
    <3>. QED  BY <2>1, <3>1 DEF Run
  <2>4. m.role = "assistant" /\ m.stop = stop
    BY DEF Msg
  <2>. HIDE DEF m, Message, User
  <2>5. /\ missed = "no" /\ connected = "yes" /\ Agree(ctx', log')
        /\ \A keep : CutAt(log, keep) => CutAt(log', keep)
        /\ ms = <<m>> => /\ ctx' # <<>> /\ ctx'[Len(ctx')] = m
                         /\ log' # <<>> /\ log'[Len(log')] = m
    BY <2>2, <2>4, ContextHeard
  <2>6. stop = "tools" => ~more
    OBVIOUS
  <2>7. run'.stage = "tools" => StopsWith(ctx', "tools") /\ StopsWith(log', "tools")
    BY <2>2, <2>3, <2>4, <2>5, <2>6 DEF StopsWith
  <2>8. Answered' => run'.stage = "ending"
    BY <2>2 DEF Answered, Between
  <2>9. Answered' => ctx' # <<>> /\ last' = ctx'[Len(ctx')]
    BY <2>2, <2>3, <2>5, <2>8
  <2>. QED  BY <2>2, <2>5, <2>7, <2>9 DEF ContextInv
<1>4. CASE FinishTools
  <2> DEFINE m == Msg("result", "none", 0)
  <2>1. PICK ms \in Seq(Message) :
              /\ ms = IF queue > 0 THEN <<m, User>> ELSE <<m>>
              /\ m \in Message
              /\ Hear(ctx, log, ms, tried, attempt)
              /\ run' = [run EXCEPT !.stage = "calling", !.era = Era]
              /\ UNCHANGED <<connected, last, chain, manual>>
    BY <1>4, FinishToolsIs
  <2>2. m.role = "result" /\ run.stage = "tools" /\ Between
    BY <1>4 DEF Msg, FinishTools
  <2>3. run'.stage = "calling" /\ ~Answered'
    <3>1. run \in Run
      BY <1>0 DEF ControlOK
    <3>2. run'.stage = "calling"
      BY <2>1, <3>1 DEF Run
    <3>. QED  BY <2>1, <2>2, <3>2 DEF Answered, Between
  <2>4. missed = "no" => StopsWith(ctx, "tools") /\ StopsWith(log, "tools")
    BY <2>2 DEF ContextInv
  <2>. HIDE DEF m, Message, User
  <2>5. /\ missed = "no" /\ Agree(ctx', log')
        /\ \A keep : CutAt(log, keep) => CutAt(log', keep)
    BY <2>1, <2>2, <2>4, ContextHeard
  <2>. QED  BY <2>1, <2>3, <2>5 DEF ContextInv
<1>5. CASE EndRun
  <2>1. run.chain \in Chains /\ chain \in [Chains -> Chain] /\ run.stage = "ending"
    BY <1>0, <1>5 DEF EndRun, ControlOK, Streaming
  <2>2. /\ chain' = [chain EXCEPT ![run.chain].pc = "post"] /\ run'.stage = "none"
        /\ UNCHANGED <<ctx, log, last, missed>>
        /\ manual'.pc = "summarising" => manual' = manual
    BY <1>0, <1>5 DEF EndRun, ControlOK
  <2>3. \A c \in Chains : chain'[c] = chain[c] \/ chain'[c].pc = "post"
    <3>1. chain[run.chain] \in Chain
      BY <2>1
    <3>2. [chain[run.chain] EXCEPT !.pc = "post"].pc = "post"
      <4>. HIDE DEF Message
      <4>. QED  BY <3>1 DEF Chain
    <3>. HIDE DEF Chain
    <3>. QED  BY <2>1, <2>2, <3>2
  <2>4. Answered
    BY <2>1 DEF Answered
  <2>5. \A c \in Chains : chain'[c].pc \in {"compacting", "sleeping", "cancelled"} =>
                             chain'[c] = chain[c]
    BY <2>3
  <2>. QED  BY <2>2, <2>4, <2>5 DEF ContextInv
<1>. QED  BY <1>1, <1>2, <1>3, <1>4, <1>5

LEMMA ContextStep ==
    ASSUME Overlap = "no", TypeOK, Alone, ContextInv, [Next]_vars PROVE ContextInv'
<1>1. missed' # "no" => ContextInv'
  BY DEF ContextInv
<1>2. CASE missed' = "no" /\ Next
  BY <1>2, ContextHost, ContextRun, ContextChain DEF Next, System
<1>3. CASE UNCHANGED vars
  BY <1>3 DEF vars, ContextInv, Answered
<1>. QED  BY <1>1, <1>2, <1>3

LEMMA ContextInit == Init => ContextInv
<1> SUFFICES ASSUME Init PROVE ContextInv
  OBVIOUS
<1>1. /\ \A c \in Chains : chain[c].pc = "idle"
      /\ run.stage = "none" /\ manual.pc = "none" /\ ctx = log
  BY DEF Init
<1> DEFINE m == Msg("assistant", "cut", 0)
<1>2. m \in Message /\ User \in Message
  BY MessageIs, UserIs DEF Stops, Aborted
<1>3. m.role = "assistant" /\ User.role = "user"
  BY DEF Msg, User
<1>4. log \in {<<>>, <<User, m>>}
  BY DEF Init
<1>. HIDE DEF m, User, Message
<1>5. log \in Seq(Message) /\ \A i \in DOMAIN log : log[i] \in {User, m}
  <2>1. /\ <<>> \in Seq(Message) /\ DOMAIN <<>> = {}
        /\ <<User, m>> \in Seq(Message) /\ DOMAIN <<User, m>> = 1 .. 2
        /\ \A i \in 1 .. 2 : <<User, m>>[i] \in {User, m}
    BY <1>2
  <2>2. CASE log = <<>>
    BY <2>1, <2>2
  <2>3. CASE log = <<User, m>>
    BY <2>1, <2>3
  <2>. QED  BY <1>4, <2>2, <2>3
<1>6. DOMAIN log = 1 .. Len(log)
  BY <1>5, LenProperties
<1>7. Cuts(log) /\ Ordered(log) /\ CompactionsIn(log) = {}
  BY <1>3, <1>5, <1>6 DEF Cuts, Ordered, CompactionsIn
<1>8. Agree(ctx, log)
  BY <1>1, <1>5, <1>7 DEF Agree, Rebuilt
<1>9. ~Answered
  BY <1>1 DEF Answered
<1>. QED  BY <1>1, <1>8, <1>9 DEF ContextInv

(* If the host does not prompt during the pause of another prompt, and as   *)
(* long as every event was heard, the result of a tool directly follows its *)
(* call, in the session and in the context, for every number of shell       *)
(* commands, retries and compactions that come in between.                  *)
THEOREM CallsKeepResults ==
    ASSUME Overlap = "no" PROVE Spec => []ResultsFollowCalls
<1>1. TypeOK /\ ContextInv => ResultsFollowCalls
  <2> SUFFICES ASSUME TypeOK, ContextInv, missed = "no", NEW s \in {log, ctx},
                      NEW i \in DOMAIN s, s[i].role = "result"
               PROVE  i > 1 /\ s[i - 1].stop = "tools"
    BY DEF ResultsFollowCalls
  <2>1. s \in Seq(Message) /\ Ordered(s)
    BY DEF TypeOK, ContextInv, Agree
  <2>2. i \in 1 .. Len(s)
    BY <2>1, LenProperties
  <2>. QED  BY <2>1, <2>2 DEF Ordered
<1>2. TypeOK /\ Alone /\ ContextInv /\ [Next]_vars => ContextInv'
  BY ContextStep
<1>3. Spec => [](Alone /\ RowInv)
  BY RowHolds
<1>. QED  BY <1>1, <1>2, <1>3, ContextInit, TypeCorrect, PTL DEF Spec

(* Under the same conditions what the model is sent is what a reload of the *)
(* session would give, but for errors and the answers taken out to recover  *)
(* from an overflow: buildSessionContext gives back what the agent was left *)
(* with, whatever was compacted, retried, flushed or appended meanwhile.    *)
THEOREM ReloadIsContext ==
    ASSUME Overlap = "no" PROVE Spec => []ContextIsSession
<1>1. ContextInv => ContextIsSession
  BY DEF ContextInv, ContextIsSession, Agree
<1>2. TypeOK /\ Alone /\ ContextInv /\ [Next]_vars => ContextInv'
  BY ContextStep
<1>3. Spec => [](Alone /\ RowInv)
  BY RowHolds
<1>. QED  BY <1>1, <1>2, <1>3, ContextInit, TypeCorrect, PTL DEF Spec

=============================================================================
