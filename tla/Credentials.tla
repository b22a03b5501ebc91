---------------------------- MODULE Credentials ----------------------------
(***************************************************************************)
(* auth.json shared by several processes (core/auth-storage.ts).  Each     *)
(* process has the credentials in memory; a change is merged into the file *)
(* under a lock, synchronously: the process does nothing else until it has *)
(* the lock or gives up.  An expired token is refreshed under the same     *)
(* lock, asynchronously: the process goes on while the provider answers.   *)
(* A refresh uses the token up: the provider takes each only once.         *)
(*                                                                         *)
(* The file holds one token, as the number of its generation (0 for none), *)
(* and for each process the credential that only this process changes, as  *)
(* the number of the change.  The lock is that of proper-lockfile: a       *)
(* directory that its holder touches every half "stale" period.            *)
(***************************************************************************)
EXTENDS Naturals, FiniteSets

CONSTANTS
    Processes,
    MaxSets,        (* bound: changes of one process                       *)
    MaxRefreshes,   (* bound: tokens the provider gives out                *)
    MaxFaults       (* bound: ends of a process, locks taken over          *)

ASSUME CredentialsAssumption ==
    IsFiniteSet(Processes) /\ {MaxSets, MaxRefreshes, MaxFaults} \subseteq Nat

VARIABLES
    born,       (* whether the file was there from the beginning           *)
    exists,     (* whether it is there                                     *)
    file,       (* what it holds                                           *)
    lock,       (* who holds the lock, and how it was taken                *)
    data,       (* AuthStorage.data of each process                        *)
    loadError,  (* AuthStorage.loadError, as "yes" or "no"                 *)
    call,       (* the synchronous call a process is in                    *)
    refresh,    (* its refresh                                             *)
    fresh,      (* the token that has not expired, or 0                    *)
    server,     (* the token the provider will take                        *)
    received,   (* the last token that a process got from it               *)
    sets,       (* how often each process has changed its credential       *)
    stored,     (* the last change that a process saw written              *)
    reused,     (* "yes" once a token was sent whose successor had come    *)
    faults      (* what went wrong outside the program                     *)

vars == <<born, exists, file, lock, data, loadError, call, refresh, fresh, server,
          received, sets, stored, reused, faults>>

Contents == [token : Nat, key : [Processes -> Nat]]

Locks == [by : SUBSET Processes, how : {"none", "sync", "async", "dead"}]

Calls == [pc : {"idle", "check", "create", "lock", "locked"},
          what : {"none", "set", "reload"}]

Refreshes == [pc : {"idle", "lock", "locked", "asking", "answered", "refused"},
              told : {"yes", "no"}]

Empty == [token |-> 0, key |-> [p \in Processes |-> 0]]

Nobody == [by |-> {}, how |-> "none"]
Held(p, how) == [by |-> {p}, how |-> how]

Idle == [pc |-> "idle", what |-> "none"]
NoRefresh == [pc |-> "idle", told |-> "no"]

Init ==
    /\ \/ born = "yes" /\ file = [Empty EXCEPT !.token = 1]
       \/ born = "no" /\ file = Empty
    /\ exists = born /\ lock = Nobody
    /\ data = [p \in Processes |-> file]
    /\ loadError = [p \in Processes |-> "no"]
    /\ call = [p \in Processes |-> Idle]
    /\ refresh = [p \in Processes |-> NoRefresh]
    /\ fresh = 0 /\ server = 1 /\ received = 1
    /\ sets = [p \in Processes |-> 0] /\ stored = [p \in Processes |-> 0]
    /\ reused = "no" /\ faults = {}

-----------------------------------------------------------------------------

(* set and reload: synchronous.                                            *)

Calling(p, what) ==
    /\ call[p] = Idle
    /\ call' = [call EXCEPT ![p] = [pc |-> "check", what |-> what]]

(* set: in memory first; after a failed load nothing is written.           *)
Set(p) ==
    /\ sets[p] < MaxSets /\ sets' = [sets EXCEPT ![p] = @ + 1]
    /\ data' = [data EXCEPT ![p].key[p] = sets'[p]]
    /\ IF loadError[p] = "no" THEN Calling(p, "set")
       ELSE call[p] = Idle /\ UNCHANGED call
    /\ UNCHANGED <<born, exists, file, lock, loadError, refresh, fresh, server,
                   received, stored, reused, faults>>

(* ensureFileExists: looks for the file, and creates it without the lock.  *)
Check(p) ==
    /\ call[p].pc = "check"
    /\ call' = [call EXCEPT ![p].pc = IF exists = "yes" THEN "lock" ELSE "create"]
    /\ UNCHANGED <<born, exists, file, lock, data, loadError, refresh, fresh,
                   server, received, sets, stored, reused, faults>>

Create(p) ==
    /\ call[p].pc = "create"
    /\ exists' = "yes" /\ file' = Empty
    /\ call' = [call EXCEPT ![p].pc = "lock"]
    /\ UNCHANGED <<born, lock, data, loadError, refresh, fresh, server, received,
                   sets, stored, reused, faults>>

(* Mutant: the lock is taken although somebody holds it.                   *)
MayTakeAlways(p) == lock' = Held(p, "sync")

(* lockSync: the lock is free.  There is one lock as long as auth.json is  *)
(* no link: lockSync locks the path as given, lock the file it leads to.   *)
MayTake(p) == lock = Nobody /\ lock' = Held(p, "sync")

LockSync(p) ==
    /\ call[p].pc = "lock"
    /\ MayTake(p)
    /\ call' = [call EXCEPT ![p].pc = "locked"]
    /\ UNCHANGED <<born, exists, file, data, loadError, refresh, fresh, server,
                   received, sets, stored, reused, faults>>

(* It looks stale to lockSync (10 seconds) while the holder, who locked    *)
(* for 30 seconds, touches it every 15: the lock is taken over.  So is the *)
(* lock of a process that has ended.                                       *)
TakeOver(p) ==
    /\ call[p].pc = "lock"
    /\ \/ /\ lock.how = "async" /\ Cardinality(faults) < MaxFaults
          /\ faults' = faults \cup {"taken over"}
       \/ lock.how = "dead" /\ UNCHANGED faults
    /\ lock' = Held(p, "sync")
    /\ call' = [call EXCEPT ![p].pc = "locked"]
    /\ UNCHANGED <<born, exists, file, data, loadError, refresh, fresh, server,
                   received, sets, stored, reused>>

(* ELOCKED ten times in 200 ms: set records an error, reload keeps what is *)
(* in memory and notes the error.                                          *)
GiveUp(p) ==
    /\ call[p].pc = "lock" /\ lock # Nobody
    /\ loadError' = [loadError EXCEPT ![p] = IF call[p].what = "reload" THEN "yes" ELSE @]
    /\ call' = [call EXCEPT ![p] = Idle]
    /\ UNCHANGED <<born, exists, file, lock, data, refresh, fresh, server, received,
                   sets, stored, reused, faults>>

(* Mutant: the whole of the memory is written.                             *)
WriteMemory(p) ==
    /\ call[p].pc = "locked" /\ call[p].what = "set"
    /\ file' = data[p]
    /\ stored' = [stored EXCEPT ![p] = data[p].key[p]]
    /\ lock' = Nobody /\ call' = [call EXCEPT ![p] = Idle]
    /\ UNCHANGED <<born, exists, data, loadError, refresh, fresh, server, received,
                   sets, reused, faults>>

(* persistProviderChange: reads, changes its own provider, writes.         *)
Write(p) ==
    /\ call[p].pc = "locked" /\ call[p].what = "set"
    /\ file' = [file EXCEPT !.key[p] = data[p].key[p]]
    /\ stored' = [stored EXCEPT ![p] = data[p].key[p]]
    /\ lock' = Nobody /\ call' = [call EXCEPT ![p] = Idle]
    /\ UNCHANGED <<born, exists, data, loadError, refresh, fresh, server, received,
                   sets, reused, faults>>

Reload(p) ==
    /\ call[p].pc = "locked" /\ call[p].what = "reload"
    /\ data' = [data EXCEPT ![p] = file]
    /\ loadError' = [loadError EXCEPT ![p] = "no"]
    /\ lock' = Nobody /\ call' = [call EXCEPT ![p] = Idle]
    /\ UNCHANGED <<born, exists, file, refresh, fresh, server, received, sets,
                   stored, reused, faults>>

-----------------------------------------------------------------------------

(* getApiKey with an expired token: refreshOAuthTokenWithLock.             *)

(* A refresh goes on between the synchronous calls of its process.         *)
At(p, pc) == call[p] = Idle /\ refresh[p].pc = pc

BeginRefresh(p) ==
    /\ At(p, "idle") /\ data[p].token # 0 /\ data[p].token # fresh
    /\ server <= MaxRefreshes
    /\ refresh' = [refresh EXCEPT ![p] = [NoRefresh EXCEPT !.pc = "lock"]]
    /\ UNCHANGED <<born, exists, file, lock, data, loadError, call, fresh, server,
                   received, sets, stored, reused, faults>>

LockAsync(p) ==
    /\ At(p, "lock") /\ (lock = Nobody \/ lock.how = "dead")
    /\ lock' = Held(p, "async")
    /\ refresh' = [refresh EXCEPT ![p].pc = "locked"]
    /\ UNCHANGED <<born, exists, file, data, loadError, call, fresh, server,
                   received, sets, stored, reused, faults>>

(* What fails, the lock or the refresh, is followed by a reload.           *)
Failed(p) ==
    /\ refresh' = [refresh EXCEPT ![p] = NoRefresh]
    /\ Calling(p, "reload")

LockAsyncGivesUp(p) ==
    /\ At(p, "lock") /\ lock # Nobody
    /\ Failed(p)
    /\ UNCHANGED <<born, exists, file, lock, data, loadError, fresh, server,
                   received, sets, stored, reused, faults>>

(* release: nothing happens if the holder knows that it lost the lock;     *)
(* else the directory is removed, whoever took it over.                    *)
Released(p) == IF refresh[p].told = "yes" THEN lock ELSE Nobody

(* Mutant: a token that another process has refreshed is not noticed.      *)
ReadBlindly(p) ==
    /\ At(p, "locked") /\ refresh[p].told = "no"
    /\ refresh' = [refresh EXCEPT ![p].pc = "asking"]
    /\ UNCHANGED <<lock, data, loadError, born, exists, file, call, fresh, server,
                   received, sets, stored, reused, faults>>

(* Under the lock the file counts: no token there, or one that another     *)
(* process has refreshed meanwhile, and there is nothing to do.  What was  *)
(* read becomes the memory: a later set changes it too.                    *)
Read(p) ==
    /\ At(p, "locked") /\ refresh[p].told = "no"
    /\ data' = [data EXCEPT ![p] = file]
    /\ loadError' = [loadError EXCEPT ![p] = "no"]
    /\ IF file.token \in {0, fresh}
         THEN lock' = Released(p) /\ refresh' = [refresh EXCEPT ![p] = NoRefresh]
         ELSE /\ refresh' = [refresh EXCEPT ![p].pc = "asking"]
              /\ UNCHANGED lock
    /\ UNCHANGED <<born, exists, file, call, fresh, server, received, sets, stored,
                   reused, faults>>

(* The provider takes the token it gave out last, once.  Nobody can know   *)
(* of a token whose answer was lost; one whose successor has come is used  *)
(* up for certain.                                                         *)
Sent(p) ==
    /\ refresh[p].pc = "asking"
    /\ reused' = IF data[p].token = received THEN reused ELSE "yes"

ProviderAnswers(p) ==
    /\ Sent(p)
    /\ IF data[p].token = server
         THEN /\ server' = server + 1 /\ fresh' = server + 1 /\ received' = server + 1
              /\ refresh' = [refresh EXCEPT ![p].pc = "answered"]
         ELSE /\ refresh' = [refresh EXCEPT ![p].pc = "refused"]
              /\ UNCHANGED <<server, fresh, received>>
    /\ UNCHANGED <<born, exists, file, lock, data, loadError, call, sets, stored, faults>>

(* The request does not reach the provider.                                *)
ProviderFails(p) ==
    /\ refresh[p].pc = "asking"
    /\ refresh' = [refresh EXCEPT ![p].pc = "refused"]
    /\ UNCHANGED <<born, exists, file, lock, data, loadError, call, fresh, server,
                   received, sets, stored, reused, faults>>

(* It does, and the answer is lost on its way back, which is the same      *)
(* error: the token is used up and stays in the file.                      *)
AnswerLost(p) ==
    /\ Sent(p)
    /\ server' = IF data[p].token = server THEN server + 1 ELSE server
    /\ refresh' = [refresh EXCEPT ![p].pc = "refused"]
    /\ UNCHANGED <<born, exists, file, lock, data, loadError, call, fresh, received, sets,
                   stored, faults>>

(* The answer is merged into what was read before the question, with what  *)
(* the process has set since, in memory and, unless the lock is known to   *)
(* be lost, in the file.                                                   *)
WriteToken(p) ==
    LET merged == [data[p] EXCEPT !.token = received]
    IN  /\ At(p, "answered")
        /\ data' = [data EXCEPT ![p] = merged]
        /\ loadError' = [loadError EXCEPT ![p] = "no"]
        /\ lock' = Released(p)
        /\ IF refresh[p].told = "no"
             THEN /\ file' = merged /\ refresh' = [refresh EXCEPT ![p] = NoRefresh]
                  /\ stored' = [stored EXCEPT ![p] = merged.key[p]]
                  /\ UNCHANGED call
             ELSE Failed(p) /\ UNCHANGED <<file, stored>>
        /\ UNCHANGED <<born, exists, fresh, server, received, sets, reused, faults>>

(* Mutant: an error leaves the lock.                                       *)
RefusedKeepsLock(p) ==
    /\ At(p, "refused")
    /\ Failed(p)
    /\ UNCHANGED <<lock, born, exists, file, data, loadError, fresh, server,
                   received, sets, stored, reused, faults>>

Refused(p) ==
    /\ At(p, "refused")
    /\ lock' = Released(p) /\ Failed(p)
    /\ UNCHANGED <<born, exists, file, data, loadError, fresh, server, received,
                   sets, stored, reused, faults>>

(* onCompromised: the holder finds that the lock is no longer its own.     *)
Told(p) ==
    /\ refresh[p].pc \notin {"idle", "lock"} /\ refresh[p].told = "no"
    /\ lock # Held(p, "async")
    /\ IF refresh[p].pc = "locked" THEN Failed(p)
       ELSE refresh' = [refresh EXCEPT ![p].told = "yes"] /\ UNCHANGED call
    /\ UNCHANGED <<born, exists, file, lock, data, loadError, fresh, server,
                   received, sets, stored, reused, faults>>

-----------------------------------------------------------------------------

Expire ==
    /\ fresh # 0 /\ fresh' = 0
    /\ UNCHANGED <<born, exists, file, lock, data, loadError, call, refresh, server,
                   received, sets, stored, reused, faults>>

(* A process ends, and starts again with a load; within a write the file   *)
(* is left empty, which is read as no credentials at all.                  *)
Crash(p) ==
    /\ Cardinality(faults) < MaxFaults
    /\ \/ faults' = faults \cup {"crashed"} /\ UNCHANGED file
       \/ /\ (call[p].pc = "locked" /\ call[p].what = "set") \/ At(p, "answered")
          /\ faults' = faults \cup {"torn"} /\ file' = Empty
    /\ call' = [call EXCEPT ![p] = [pc |-> "check", what |-> "reload"]]
    /\ refresh' = [refresh EXCEPT ![p] = NoRefresh]
    /\ lock' = IF p \in lock.by THEN [lock EXCEPT !.how = "dead"] ELSE lock
    /\ data' = [data EXCEPT ![p] = Empty]
    /\ loadError' = [loadError EXCEPT ![p] = "no"]
    /\ UNCHANGED <<born, exists, fresh, server, received, sets, stored, reused>>

Progress(p) ==
    \/ Check(p) \/ Create(p) \/ LockSync(p) \/ TakeOver(p) \/ GiveUp(p)
    \/ Write(p) \/ Reload(p)
    \/ LockAsync(p) \/ LockAsyncGivesUp(p) \/ Read(p)
    \/ ProviderAnswers(p) \/ ProviderFails(p) \/ AnswerLost(p)
    \/ WriteToken(p) \/ Refused(p) \/ Told(p)

Next ==
    \/ Expire
    \/ \E p \in Processes : Progress(p) \/ Set(p) \/ BeginRefresh(p) \/ Crash(p)

Spec == Init /\ [][Next]_vars

(* Calls go on; the provider answers, or the request fails.                *)
FairSpec == Spec /\ \A p \in Processes : WF_vars(Progress(p))

-----------------------------------------------------------------------------

TypeOK ==
    /\ born \in {"yes", "no"} /\ exists \in {"yes", "no"} /\ reused \in {"yes", "no"}
    /\ file \in Contents
    /\ lock \in Locks
    /\ data \in [Processes -> Contents]
    /\ loadError \in [Processes -> {"yes", "no"}]
    /\ call \in [Processes -> Calls]
    /\ refresh \in [Processes -> Refreshes]
    /\ fresh \in Nat /\ server \in Nat /\ received \in Nat
    /\ sets \in [Processes -> Nat] /\ stored \in [Processes -> Nat]
    /\ faults \subseteq {"crashed", "taken over", "torn"}

(* No token is sent to the provider again after its successor has come,    *)
(* however many processes find it expired at once ("locking to prevent     *)
(* race conditions"), whatever requests fail and answers are lost, as long *)
(* as no lock is taken over and no process ends.  (A token whose answer    *)
(* was lost is sent again, and refused.)                                   *)
TokensUsedOnce == faults = {} => reused = "no"

(* What a process has seen written stays in the file: neither another      *)
(* process's change nor the end of a refresh that began before it undoes   *)
(* it, if the file was there from the beginning, no lock is taken over and *)
(* no process ends within a write.                                         *)
ChangesKept ==
    born = "yes" /\ faults \subseteq {"crashed"} =>
        \A p \in Processes : file.key[p] = stored[p]

(* The last token that came from the provider is in the file, or a process *)
(* that holds the lock is about to write it, if the file was there from    *)
(* the beginning, no lock is taken over and no process ends.  (After a     *)
(* lost answer that is not the token the provider takes next.)             *)
TokenKept ==
    born = "yes" /\ faults = {} =>
        \/ file.token = received
        \/ \E p \in Processes : refresh[p].pc = "answered" /\ lock = Held(p, "async")

(* A process that lives never keeps the lock for ever, and no call waits   *)
(* for ever.                                                               *)
EverythingEnds ==
    \A p \in Processes :
        /\ (call[p] # Idle \/ refresh[p].pc # "idle") ~>
               (call[p] = Idle /\ refresh[p].pc = "idle")
        /\ (lock.by = {p} /\ lock.how # "dead") ~> ~(lock.by = {p} /\ lock.how # "dead")

(* A change that could not be written is at least kept in memory.  (It is  *)
(* not: a refresh replaces the memory by the file.)                        *)
ChangesInMemory == faults = {} => \A p \in Processes : data[p].key[p] = sets[p]

=============================================================================
