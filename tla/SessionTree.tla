---------------------------- MODULE SessionTree ----------------------------
(***************************************************************************)
(* What a session promises (core/session-manager.ts): "append-only trees". *)
(* Appending makes a child of the leaf, branching moves the leaf, and from *)
(* the first assistant message on a restart finds the tree as it was left, *)
(* with the leaf at the last entry.  The promise ends with the first write *)
(* of the session that fails or is cut short (damage).                     *)
(***************************************************************************)
EXTENDS SessionEntries

VARIABLES
    process,    (* "up", "forking" or "down"                               *)
    tree,       (* the entries, oldest first                               *)
    leaf,       (* the entry that the next one is a child of               *)
    damage      (* writes of the session that failed or were cut short     *)

vars == <<process, tree, leaf, damage>>

Init ==
    /\ process \in {"up", "down"}
    /\ tree \in Seq(Entry)
    /\ leaf = LastId(tree)
    /\ damage = 0

Running == process = "up" /\ process' = "up"

(* One more entry, a child of p; it becomes the leaf.                      *)
Extend(p) ==
    /\ Running
    /\ Len(tree') = Len(tree) + 1
    /\ SubSeq(tree', 1, Len(tree)) = tree
    /\ tree'[Len(tree')].id \notin Ids(tree)
    /\ tree'[Len(tree')].parent = p
    /\ leaf' = tree'[Len(tree')].id
    /\ damage' >= damage

AppendToLeaf == Extend(leaf)

(* branchWithSummary: back to an entry, and a summary of what is left.     *)
AppendSummary ==
    \E p \in Ids(tree) \cup {Root} :
        /\ Extend(p)
        /\ tree'[Len(tree')].kind = "summary"

MoveLeaf ==
    /\ Running
    /\ leaf' \in Ids(tree) \cup {Root}
    /\ UNCHANGED <<tree, damage>>

StartOver ==
    /\ Running
    /\ tree' = <<>> /\ leaf' = Root /\ damage' = 0

(* A fork goes on with one path only.  Interrupted, it leaves the session  *)
(* it was made from, and may leave the start of that path.                 *)
BeginFork ==
    /\ process = "up" /\ process' = "forking"
    /\ UNCHANGED <<tree, leaf, damage>>

Forked(new, n) ==
    /\ process' = IF n = Len(new) THEN "up" ELSE "down"
    /\ n < Len(new) => process = "forking"
    /\ tree' = SubSeq(new, 1, n)

Fork ==
    /\ process \in {"up", "forking"}
    /\ leaf' = LastId(tree')
    /\ UNCHANGED damage
    /\ \E l \in Ids(tree), fresh \in Ids(tree') \cup {Root} :
         LET new == Branched(tree, l, fresh)
         IN  \E n \in 0..Len(new) : Forked(new, n)

(* The process ends.  Before the first assistant message nothing need be   *)
(* on disk.                                                                *)
End ==
    /\ process # "down" /\ process' = "down"
    /\ \/ tree' = tree
       \/ ~HasAssistant(tree) /\ \E n \in 0..Len(tree) : tree' = SubSeq(tree, 1, n)
    /\ leaf' = LastId(tree')
    /\ UNCHANGED damage

Restart ==
    /\ process = "down" /\ process' = "up"
    /\ UNCHANGED <<tree, leaf, damage>>

(* With damage, the end of the process or a fork may lose something.       *)
Lose ==
    /\ process # "down" /\ damage' > 0 /\ damage' >= damage
    /\ leaf' = LastId(tree')

Next ==
    \/ AppendToLeaf \/ AppendSummary \/ MoveLeaf \/ StartOver
    \/ BeginFork \/ End \/ Restart \/ Lose \/ Fork

Spec == Init /\ [][Next]_vars

=============================================================================
