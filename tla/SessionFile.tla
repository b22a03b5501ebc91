---------------------------- MODULE SessionFile ----------------------------
(***************************************************************************)
(* SessionManager of the coding agent with its JSONL file                  *)
(* (core/session-manager.ts), the process that owns it, and what may       *)
(* happen to both: the process dies between two writes, in the middle of   *)
(* a line, while it rewrites the file; a write fails.                      *)
(*                                                                         *)
(* Nothing is written before the first assistant message.  It creates the  *)
(* file with everything so far; from then on each append is one line.  The *)
(* calls are synchronous: no other call comes between the lines of a       *)
(* longer write, only the end of the process does.                         *)
(***************************************************************************)
EXTENDS SessionEntries

CONSTANTS
    MaxEntries,     (* entries ever made                                   *)
    MaxDisturbances (* writes that failed or were cut short, and           *)
                    (* compactions whose summary is awaited, together      *)

(* A session of version 2 has two entries to begin with.                   *)
ASSUME BoundsAssumption ==
    MaxEntries \in Nat \ {0, 1} /\ MaxDisturbances \in Nat

ASSUME WeightAssumption == Weight \in [1..MaxEntries -> Nat]

VARIABLES
    process,    (* "up" or "down"                                          *)
    entries,    (* fileEntries without the header                          *)
    leaf,       (* leafId                                                  *)
    flushed,    (* "yes" once the file holds what fileEntries holds        *)
    file,       (* the lines of the file, with its header                  *)
    exists,     (* whether there is a file                                 *)
    task,       (* a write of several lines and the next line of it        *)
    prev,       (* what a fork leaves: the session it was forked from      *)
    nextId,     (* ids are unique                                          *)
    damage,     (* writes of the session that failed or were cut short     *)
    prepared,   (* compactions whose summary is awaited: the first entry   *)
                (* they keep, and the leaf they were prepared for          *)
    astray      (* "yes" once a compaction is on another branch than the   *)
                (* one it was prepared for, or has lost what it keeps from *)

vars == <<process, entries, leaf, flushed, file, exists, task, prev, nextId,
          damage, prepared, astray>>

Line(kind) == [id |-> 0, parent |-> 0, ref |-> 0, kind |-> kind]

Header == Line("header")

(* What may stand in a file: "torn" is the start of a line that was not    *)
(* finished, "garbage" what a later write has made of one.                 *)
FileLine == Entry \cup {Line(kind) : kind \in {"header", "header2", "torn", "garbage"}}

(* A session file of version 2, still to be migrated.                      *)
OldFile ==
    <<Line("header2"), [id |-> 1, parent |-> 0, ref |-> 0, kind |-> "user"],
      [id |-> 2, parent |-> 1, ref |-> 0, kind |-> "assistant"]>>

Idle == [kind |-> "none", next |-> 0]

None == [entries |-> <<>>, leaf |-> Root, file |-> <<>>]

(* loadEntriesFromFile: nothing without a header; what does not parse is   *)
(* skipped.                                                                *)
Load(f) ==
    IF f # <<>> /\ f[1].kind \in {"header", "header2"}
      THEN OfKind(Tail(f), Kinds \cup {"header", "header2"})
      ELSE <<>>

(* appendFileSync: what follows a torn line is part of it.                 *)
WithLine(f, e) ==
    IF f # <<>> /\ f[Len(f)].kind = "torn"
      THEN [f EXCEPT ![Len(f)] = Line("garbage")]
      ELSE Append(f, e)

-----------------------------------------------------------------------------

Init ==
    /\ \/ process = "up" /\ file = <<>> /\ exists = "no" /\ nextId = 1
       \/ process = "down" /\ file = OldFile /\ exists = "yes" /\ nextId = 3
    /\ entries = <<>> /\ leaf = Root /\ flushed = "no"
    /\ task = Idle /\ prev = None
    /\ damage = 0
    /\ prepared = {} /\ astray = "no"

(* A call of the manager: the process runs and is not inside another call. *)
Calling == process = "up" /\ task.kind = "none"

(* Mutant: the header and the earlier entries are not written.             *)
PersistLineOnly(e) ==
    \/ /\ ~HasAssistant(Append(entries, e))
       /\ file' = file /\ UNCHANGED <<exists, task>>
    \/ /\ HasAssistant(Append(entries, e))
       /\ file' = WithLine(file, e) /\ exists' = "yes" /\ UNCHANGED task

(* _persist, with entries as _appendEntry leaves them.  "wx" fails when    *)
(* there is a file already, which only a failed first write leaves.        *)
Persist(e) ==
    \/ /\ flushed = "yes"
       /\ file' = WithLine(file, e)
       /\ UNCHANGED <<exists, task>>
    \/ /\ flushed = "no"
       /\ ~HasAssistant(Append(entries, e)) \/ exists = "yes"
       /\ UNCHANGED <<file, exists, task>>
    \/ /\ flushed = "no" /\ HasAssistant(Append(entries, e)) /\ exists = "no"
       /\ file' = <<>> /\ exists' = "yes"
       /\ task' = [kind |-> "create", next |-> 1]

(* _appendEntry: in memory first, then on disk.                            *)
Put(kind, parent, ref) ==
    LET e == [id |-> nextId, parent |-> parent, kind |-> kind, ref |-> ref]
    IN  /\ Calling /\ nextId <= MaxEntries
        /\ entries' = Append(entries, e)
        /\ leaf' = nextId /\ nextId' = nextId + 1
        /\ Persist(e)
        /\ UNCHANGED <<process, flushed, prev, damage>>

(* The last message before the leaf.  A tool result follows its call: only *)
(* a label, or a compaction that was under way, comes between.             *)
LastMessage ==
    LET path == OfKind(Path(entries, leaf), ShownKinds)
    IN  IF path = <<>> THEN "none" ELSE path[Len(path)].kind

AppendMessage ==
    /\ \E kind \in MessageKinds :
         /\ kind = "result" => LastMessage = "assistant"
         /\ Put(kind, leaf, Root)
    /\ UNCHANGED <<prepared, astray>>

AppendLabelChange ==
    /\ \E t \in Ids(entries) : Put("label", leaf, t)
    /\ UNCHANGED <<prepared, astray>>

(* What the bound allows of either.                                        *)
MayDisturb == Cardinality(prepared) + damage < MaxDisturbances

(* compact() of the session up to its first await after prepareCompaction: *)
(* the hooks and the request for the summary come next.                    *)
PrepareCompaction ==
    LET path == Path(entries, leaf)
    IN  /\ Calling /\ CanCompact(path)
        /\ MayDisturb
        /\ prepared' = prepared \cup {[ref |-> FirstToKeep(path), from |-> leaf]}
        /\ UNCHANGED <<process, entries, leaf, flushed, file, exists, task, prev,
                       nextId, damage, astray>>

(* The summary has come: the compaction is put after the leaf of now, with *)
(* the entry to keep from of then.                                         *)
AppendCompaction ==
    \E p \in prepared :
        /\ Put("compaction", leaf, p.ref)
        /\ prepared' = prepared \ {p}
        /\ astray' = IF \E i \in DOMAIN Path(entries, leaf) :
                          Path(entries, leaf)[i].id = p.from
                       THEN astray ELSE "yes"

(* No summary: cancelled by a hook or by the user, or the request failed.  *)
CompactionFails ==
    /\ Calling
    /\ \E p \in prepared : prepared' = prepared \ {p}
    /\ UNCHANGED <<process, entries, leaf, flushed, file, exists, task, prev,
                   nextId, damage, astray>>

BranchWithSummary ==
    /\ \E p \in Ids(entries) \cup {Root} : Put("summary", p, Root)
    /\ UNCHANGED <<prepared, astray>>

(* branch and resetLeaf.                                                   *)
MoveLeaf ==
    /\ Calling
    /\ leaf' \in Ids(entries) \cup {Root}
    /\ UNCHANGED <<process, entries, flushed, file, exists, task, prev, nextId,
                   damage, prepared, astray>>

(* Mutant: the next session is taken to have a file.                       *)
NewSessionFlushed ==
    /\ Calling
    /\ entries' = <<>> /\ leaf' = Root
    /\ file' = <<>> /\ exists' = "no" /\ damage' = 0
    /\ prepared' = {} /\ astray' = "no"
    /\ UNCHANGED <<process, flushed, task, prev, nextId>>

(* The session is disposed of, which aborts the compactions under way.     *)
NewSession ==
    /\ Calling
    /\ entries' = <<>> /\ leaf' = Root /\ flushed' = "no"
    /\ file' = <<>> /\ exists' = "no" /\ damage' = 0
    /\ prepared' = {} /\ astray' = "no"
    /\ UNCHANGED <<process, task, prev, nextId>>

(* A compaction that keeps from a label: a fork drops the label.           *)
KeepsFromLabel(path) ==
    \E c, i \in DOMAIN path : /\ path[c].kind = "compaction" /\ path[i].kind = "label"
                              /\ path[i].id = path[c].ref

(* fork of the runtime: the file is opened again and its manager becomes   *)
(* the session; createBranchedSession writes the new file at once if there *)
(* is an assistant message in it.                                          *)
Fork ==
    /\ Calling /\ exists = "yes"
    /\ \E l \in Ids(Load(file)) :
         LET new == Branched(Load(file), l, nextId)
         IN  /\ nextId + Cardinality(Ids(new) \ Ids(Load(file))) <= MaxEntries + 1
             /\ entries' = new /\ leaf' = LastId(new)
             /\ nextId' = nextId + Cardinality(Ids(new) \ Ids(Load(file)))
             /\ file' = <<>> /\ flushed' = "no"
             /\ IF HasAssistant(new)
                  THEN /\ task' = [kind |-> "fork", next |-> 1] /\ exists' = "yes"
                       /\ prev' = [entries |-> entries, leaf |-> leaf, file |-> file]
                  ELSE exists' = "no" /\ UNCHANGED <<task, prev>>
             /\ astray' = IF KeepsFromLabel(Path(Load(file), l)) THEN "yes" ELSE astray
    /\ prepared' = {}
    /\ UNCHANGED <<process, damage>>

(* setSessionFile: no file, no session yet; nothing readable, a new header *)
(* over it; an old version is rewritten whole.                             *)
Open ==
    /\ process = "down" /\ process' = "up"
    /\ entries' = Load(file) /\ leaf' = LastId(Load(file))
    /\ IF exists = "yes" /\ (Load(file) = <<>> \/ file[1].kind = "header2")
         THEN task' = [kind |-> "rewrite", next |-> 1] /\ file' = <<>>
         ELSE UNCHANGED <<task, file>>
    /\ flushed' = IF task' = Idle THEN exists ELSE "no"
    /\ UNCHANGED <<exists, prev, nextId, damage, prepared, astray>>

-----------------------------------------------------------------------------

(* The lines of a longer write, one after the other.                       *)
WriteLine ==
    LET lines == <<Header>> \o entries
        last == task.next = Len(lines)
    IN  /\ process = "up" /\ task.kind # "none"
        /\ file' = Append(file, lines[task.next])
        /\ task' = IF last THEN Idle ELSE [task EXCEPT !.next = @ + 1]
        /\ flushed' = IF last THEN "yes" ELSE flushed
        /\ prev' = IF last THEN None ELSE prev
        /\ UNCHANGED <<process, entries, leaf, exists, nextId, damage, prepared, astray>>

(* The process ends: between two calls, or inside a longer write.  After   *)
(* an interrupted fork either session may be opened.  A rewrite has        *)
(* truncated the file: what it had not written again is gone.              *)
Crash ==
    /\ process = "up" /\ process' = "down"
    /\ entries' = <<>> /\ leaf' = Root /\ flushed' = "no"
    /\ task' = Idle /\ prev' = None
    /\ \/ UNCHANGED file
       \/ task.kind = "fork" /\ file' = prev.file
    /\ damage' = IF task.kind = "rewrite" /\ Load(file) # entries
                   THEN damage + 1 ELSE damage
    /\ prepared' = {}
    /\ UNCHANGED <<exists, nextId, astray>>

(* Writes fail while there are entries left to make afterwards.            *)
MayFail == MayDisturb /\ nextId < MaxEntries

(* It ends inside the write of one line.                                   *)
TearLine ==
    /\ Calling /\ flushed = "yes" /\ MayFail
    /\ process' = "down" /\ damage' = damage + 1
    /\ file' = WithLine(file, Line("torn"))
    /\ entries' = <<>> /\ leaf' = Root /\ flushed' = "no"
    /\ prepared' = {}
    /\ UNCHANGED <<exists, task, prev, nextId, astray>>

(* A line cannot be written (no space): appendFileSync throws, and the     *)
(* entry stays in memory.                                                  *)
AppendFails ==
    /\ Calling /\ flushed = "yes" /\ MayFail
    /\ \E kind \in {"user", "assistant"} :
         entries' = Append(entries, [id |-> nextId, parent |-> leaf,
                                     kind |-> kind, ref |-> Root])
    /\ leaf' = nextId /\ nextId' = nextId + 1 /\ damage' = damage + 1
    /\ UNCHANGED <<process, flushed, file, exists, task, prev, prepared, astray>>

(* The first write fails after some lines: a file is left, flushed is not  *)
(* set, and no later append can create it.                                 *)
CreateFails ==
    /\ process = "up" /\ task.kind = "create" /\ MayFail
    /\ task' = Idle /\ damage' = damage + 1
    /\ UNCHANGED <<process, entries, leaf, flushed, file, exists, prev, nextId,
                   prepared, astray>>

Next ==
    \/ AppendMessage \/ AppendLabelChange \/ BranchWithSummary
    \/ PrepareCompaction \/ AppendCompaction \/ CompactionFails
    \/ MoveLeaf \/ NewSession \/ Fork \/ Open
    \/ WriteLine \/ Crash \/ TearLine \/ AppendFails \/ CreateFails

Spec == Init /\ [][Next]_vars

-----------------------------------------------------------------------------

(* Types, and which variables go together: only a running process is in    *)
(* the middle of a write, only a fork has a session to go back to, only a  *)
(* running process awaits a summary.                                       *)
FileTypeOK ==
    /\ process \in {"up", "down"} /\ flushed \in {"yes", "no"}
    /\ exists \in {"yes", "no"} /\ (exists = "no" => file = <<>>)
    /\ entries \in Seq(Entry) /\ leaf \in Ids(entries) \cup {Root}
    /\ file \in Seq(FileLine)
    /\ task \in [kind : {"none", "create", "fork", "rewrite"}, next : Nat]
    /\ prev \in [entries : Seq(Entry), leaf : Nat, file : Seq(FileLine)]
    /\ task.kind # "none" =>
         process = "up" /\ exists = "yes" /\ task.next \in 1..(Len(entries) + 1)
    /\ task.kind # "fork" => prev = None
    /\ nextId \in 1..(MaxEntries + 1)
    /\ damage \in Nat

TypeOK ==
    /\ FileTypeOK
    /\ prepared \in SUBSET [ref : Nat, from : Ids(entries)]
    /\ process = "down" => prepared = {}
    /\ astray \in {"yes", "no"}

(* As long as no write has failed or was cut short, and between two calls, *)
(* opening the file again gives exactly the entries in memory; a session   *)
(* that has no file has no answer of the model in it to lose.  The flag    *)
(* "flushed", the deferred creation, the append path, the fork's rewrite   *)
(* and the reload after a crash must agree for that.                       *)
ReopenIsMemory ==
    process = "up" /\ task.kind = "none" /\ damage = 0 =>
        IF flushed = "yes"
          THEN file # <<>> /\ file[1] = Header /\ Load(file) = entries
          ELSE exists = "no" /\ ~HasAssistant(entries)

(* Whatever is branched, compacted, forked or appended while a compaction  *)
(* is under way, the context sent to the model never has a tool result     *)
(* without its call before it: providers reject that ("never cut at tool   *)
(* results").  It needs that no compaction is astray: one that keeps       *)
(* nothing before it, put after a call, parts the call from its result.    *)
ResultsHaveCalls ==
    LET ctx == Context(Path(entries, leaf))
    IN  damage = 0 /\ astray = "no" =>
            \A i \in DOMAIN ctx :
                ctx[i].kind = "result" => i > 1 /\ ctx[i - 1].kind = "assistant"

(* Of the path it was prepared for, a compaction keeps the message that    *)
(* passes the budget, whole, and nothing before it: after its first        *)
(* message, what it keeps weighs less than the budget.  Only where tool    *)
(* results alone spend the budget is there no cut to make; then it keeps   *)
(* everything.                                                             *)
CompactionBounded ==
    \A p \in prepared :
        LET path == Path(entries, p.from)
            places == 1..Len(path)
            kept == {i \in places : \E k \in 1..i : path[k].id = p.ref}
            spends(i) == Tokens(path, i) >= KeepRecent
            uncut(i) == \A x \in i..Len(path) :
                            path[x].kind \notin {"user", "assistant", "summary"}
        IN  \A m \in kept, i \in places :
                path[m].kind \in MessageKinds /\ m < i /\ spends(i) =>
                    \E s \in i..Len(path) : spends(s) /\ uncut(s)

(* A fork at any entry has the context that the entry had: the ids of what *)
(* is sent to the model are the same, in the same order.                   *)
ContextIds(es, l) ==
    LET ctx == Context(Path(es, l)) IN [i \in DOMAIN ctx |-> ctx[i].id]

ForkedContext(l) ==
    LET new == Branched(entries, l, nextId) IN ContextIds(new, LastId(new))

ForkKeepsContext == \A l \in Ids(entries) : ForkedContext(l) = ContextIds(entries, l)

(* It does where no compaction of the path keeps from a label on.  (The    *)
(* fork drops the labels of the path, and a compaction that kept from one  *)
(* keeps nothing afterwards: ForkKeepsContext itself does not hold.)       *)
ForkKeepsContextButForLabels ==
    \A l \in Ids(entries) :
        \/ ForkedContext(l) = ContextIds(entries, l)
        \/ LET path == Path(entries, l)
               c == LatestCompaction(path)
           IN  /\ c > 0 /\ path[c].ref \in Ids(entries)
               /\ At(entries, path[c].ref).kind = "label"

-----------------------------------------------------------------------------

(* The tree the file and the memory stand for.  While the process is down, *)
(* what would be loaded; during the first write, the entries before the    *)
(* one that causes it; during a fork, the session that is left.            *)
AbstractTree ==
    CASE process = "down" -> Load(file)
      [] task.kind = "create" -> SubSeq(entries, 1, Len(entries) - 1)
      [] task.kind = "fork" -> prev.entries
      [] OTHER -> entries

AbstractLeaf ==
    CASE process = "down" -> LastId(Load(file))
      [] task.kind = "create" -> entries[Len(entries)].parent
      [] task.kind = "fork" -> prev.leaf
      [] OTHER -> leaf

AbstractProcess == IF task.kind = "fork" THEN "forking" ELSE process

Tree == INSTANCE SessionTree WITH
    process <- AbstractProcess, tree <- AbstractTree, leaf <- AbstractLeaf

(* Memory, file, the writes of several lines, the crashes between them and *)
(* the failing writes implement the append-only tree.                      *)
ImplementsTree == Tree!Spec

=============================================================================
