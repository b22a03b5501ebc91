--------------------------- MODULE SessionEntries ---------------------------
(***************************************************************************)
(* The pure part of a session of the coding agent: entries, the path of a  *)
(* leaf, the context that is sent to the model, the cut of a compaction,   *)
(* and the entries of a forked session (core/session-manager.ts,           *)
(* core/compaction/compaction.ts).                                         *)
(*                                                                         *)
(* An entry is what the tree needs of it: its id, its parent (Root for     *)
(* none), its kind, and the entry it refers to: the target of a label, the *)
(* first entry a compaction keeps.  An assistant message may have a tool   *)
(* call, and then a result may follow it; a "summary" is the summary of an *)
(* abandoned branch.                                                       *)
(***************************************************************************)
EXTENDS Naturals, Sequences, FiniteSets

CONSTANTS
    KeepRecent,     (* settings.keepRecentTokens                           *)
    Weight          (* estimateTokens of the message of each id            *)

ASSUME KeepRecentAssumption == KeepRecent \in Nat \ {0}

Root == 0

MessageKinds == {"user", "assistant", "result"}

(* What is part of the context as it is.                                   *)
ShownKinds == MessageKinds \cup {"summary"}

Kinds == ShownKinds \cup {"compaction", "label"}

Entry == [id : Nat, parent : Nat, ref : Nat, kind : Kinds]

(* What stands at the places I of s, in its order.                         *)
Only(s, I) ==
    LET from[i \in 0..Len(s)] ==
          IF i = 0 THEN <<>>
          ELSE IF i \in I THEN Append(from[i - 1], s[i]) ELSE from[i - 1]
    IN  from[Len(s)]

OfKind(s, K) == Only(s, {i \in DOMAIN s : s[i].kind \in K})

(* byId, and the last entry in file order, where a loaded session stands.  *)
Ids(es) == {es[i].id : i \in DOMAIN es}

At(es, id) == es[CHOOSE i \in DOMAIN es : es[i].id = id]

LastId(es) == IF es = <<>> THEN Root ELSE es[Len(es)].id

HasAssistant(es) == \E i \in DOMAIN es : es[i].kind = "assistant"

-----------------------------------------------------------------------------

(* getBranch: from the entry up, as long as there is a parent, root first. *)
Path(es, l) ==
    LET up[id \in Ids(es)] ==
            IF At(es, id).parent \in Ids(es)
              THEN Append(up[At(es, id).parent], At(es, id))
              ELSE <<At(es, id)>>
    IN  IF l \in Ids(es) THEN up[l] ELSE <<>>

(* The place of the latest compaction on a path, or 0.                     *)
LatestCompaction(path) ==
    LET at == {i \in DOMAIN path : path[i].kind = "compaction"}
    IN  IF at = {} THEN 0 ELSE CHOOSE i \in at : \A j \in at : j <= i

(* The place of the first entry a compaction keeps; after it when the      *)
(* entry is not on the path.                                               *)
FirstKept(path, c) ==
    LET at == {i \in 1..(c - 1) : path[i].id = path[c].ref}
    IN  IF at = {} THEN c ELSE CHOOSE i \in at : \A j \in at : i <= j

(* buildSessionContext: the compaction summary, what it keeps, what came   *)
(* after it; settings and labels are no messages.                          *)
Context(path) ==
    LET c == LatestCompaction(path)
        kept == IF c = 0 THEN 1 ELSE FirstKept(path, c)
    IN  (IF c = 0 THEN <<>> ELSE <<path[c]>>)
          \o OfKind(SubSeq(path, kept, Len(path)), ShownKinds)

-----------------------------------------------------------------------------

(* Mutant: a cut may also be made at a tool result.                        *)
CutAnywhere(e) == e.kind \in ShownKinds

(* findValidCutPoints: any message but a tool result.                      *)
CanCut(e) == e.kind \in {"user", "assistant", "summary"}

(* What the messages of a path weigh from the place i on.                  *)
Tokens(path, i) ==
    LET from[j \in 1..(Len(path) + 1)] ==
            IF j > Len(path) THEN 0
            ELSE IF path[j].kind \in MessageKinds
                   THEN Weight[path[j].id] + from[j + 1] ELSE from[j + 1]
    IN  from[i]

(* Where the walk back from the newest entry has collected KeepRecent      *)
(* tokens of messages, or 0.                                               *)
BudgetSpent(path, start) ==
    LET at == {i \in start..Len(path) : Tokens(path, i) >= KeepRecent}
    IN  IF at = {} THEN 0 ELSE CHOOSE i \in at : \A j \in at : j <= i

(* Mutant: the cut is made before the message that spends the budget.      *)
CutBefore(path, start) ==
    LET cuts == {i \in start..Len(path) : CanCut(path[i])}
        below == {i \in cuts : i < BudgetSpent(path, start)}
    IN  IF below = {} THEN start ELSE CHOOSE i \in below : \A j \in below : j <= i

(* findCutPoint: the first cut point from there on (the first of all when  *)
(* there is none), moved back over what is no message.                     *)
CutPoint(path, start) ==
    LET cuts == {i \in start..Len(path) : CanCut(path[i])}
        spent == BudgetSpent(path, start)
        after == {i \in cuts : spent > 0 /\ i >= spent}
        least(S) == CHOOSE i \in S : \A j \in S : i <= j
        cut == least(IF after = {} THEN cuts ELSE after)
        loose == {i \in start..cut :
                    \A j \in i..(cut - 1) : path[j].kind \in {"label", "summary"}}
    IN  IF cuts = {} THEN start ELSE least(loose)

(* prepareCompaction: not twice in a row; the messages since the first one *)
(* the previous compaction kept are cut.                                   *)
CanCompact(path) == path # <<>> /\ path[Len(path)].kind # "compaction"

FirstToKeep(path) ==
    LET c == LatestCompaction(path)
        first == FirstKept(path, c)
        start == IF c = 0 THEN 1 ELSE IF first = c THEN c + 1 ELSE first
    IN  path[CutPoint(path, start)].id

-----------------------------------------------------------------------------

(* Mutant: labels are dropped, and what followed one keeps it as parent.   *)
BranchedNoRechain(es, l, fresh) ==
    OfKind(Path(es, l), Kinds \ {"label"})

(* createBranchedSession: the path without its labels, chained anew, then  *)
(* one label for each entry of it that has one (labels are in the order of *)
(* their targets here; nothing depends on it).                             *)
Branched(es, l, fresh) ==
    LET kept == OfKind(Path(es, l), Kinds \ {"label"})
        chained ==
            [i \in DOMAIN kept |->
               [kept[i] EXCEPT !.parent = IF i = 1 THEN Root ELSE kept[i - 1].id]]
        labelled ==
            Only(kept, {i \in DOMAIN kept :
                          \E j \in DOMAIN es :
                              es[j].kind = "label" /\ es[j].ref = kept[i].id})
        labels ==
            [k \in DOMAIN labelled |->
               [id |-> fresh + k - 1,
                parent |-> IF k = 1 THEN LastId(kept) ELSE fresh + k - 2,
                kind |-> "label", ref |-> labelled[k].id]]
    IN  chained \o labels

=============================================================================
