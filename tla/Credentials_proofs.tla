-------------------------- MODULE Credentials_proofs --------------------------
(* The credentials file, for every number of processes, changes and tokens. *)
EXTENDS Credentials, TLAPS

(* Nothing went wrong but that processes ended between two writes.          *)
Sound == faults \subseteq {"crashed"}

InRefresh(p) == refresh[p].pc \in {"locked", "asking", "answered", "refused"}

(* The lock is held by the one process that is inside of it, and nobody who *)
(* holds it has been told otherwise.                                        *)
Locked ==
    \A p \in Processes :
        /\ refresh[p].told = "no"
        /\ InRefresh(p) => lock = Held(p, "async")
        /\ call[p].pc = "locked" => lock = Held(p, "sync")

(* What the process that asks for a token has in memory is the file, but    *)
(* for its own changes.                                                     *)
ReadIsFile ==
    \A p \in Processes :
        refresh[p].pc \in {"asking", "answered"} =>
            /\ \A q \in Processes \ {p} : data[p].key[q] = file.key[q]
            /\ faults = {} => data[p].token = file.token

KeysStored == \A p \in Processes : file.key[p] = stored[p]

TokenStored ==
    \/ faults # {}
    \/ file.token = received
    \/ \E p \in Processes : refresh[p].pc = "answered"

(* The file was there from the beginning: nobody creates it, each change is *)
(* in it, and unless a process ended at the wrong moment the last token.    *)
FileKept ==
    /\ exists = "yes" /\ \A p \in Processes : call[p].pc # "create"
    /\ KeysStored
    /\ ReadIsFile
    /\ TokenStored

(* It was not: there is no token at all.                                    *)
NoToken ==
    /\ file.token = 0
    /\ \A p \in Processes : data[p].token = 0 /\ refresh[p].pc = "idle"

IInv ==
    /\ TypeOK
    /\ Sound =>
         /\ Locked
         /\ born = "yes" => FileKept
         /\ born = "no" => NoToken
         /\ faults = {} => reused = "no"

-----------------------------------------------------------------------------

LEMMA InitHolds == Init => IInv
  <1> SUFFICES ASSUME Init PROVE IInv
    OBVIOUS
  <1>1. file \in Contents
    BY DEF Init, Empty, Contents
  <1>2. TypeOK
    BY <1>1, CredentialsAssumption DEF Init, TypeOK, Nobody, Idle, NoRefresh, Locks, Calls, Refreshes
  <1> QED
    BY <1>2 DEF Init, IInv, Locked, FileKept, KeysStored, TokenStored, ReadIsFile, NoToken, InRefresh,
                NoRefresh, Idle, Empty

(* Types.  What the steps write has the type of what it replaces.           *)
LEMMA Typed ==
    /\ Empty \in Contents /\ Nobody \in Locks /\ Idle \in Calls /\ NoRefresh \in Refreshes
    /\ \A p \in Processes : Held(p, "sync") \in Locks /\ Held(p, "async") \in Locks
    /\ [pc |-> "check", what |-> "set"] \in Calls
    /\ [pc |-> "check", what |-> "reload"] \in Calls
  BY DEF Empty, Contents, Nobody, Locks, Idle, Calls, NoRefresh, Refreshes, Held

LEMMA CallTyped ==
    ASSUME NEW f \in [Processes -> Calls], NEW p \in Processes,
           NEW pc \in {"lock", "create", "locked"}
    PROVE  [f EXCEPT ![p].pc = pc] \in [Processes -> Calls]
  BY DEF Calls

LEMMA RefreshTyped ==
    ASSUME NEW f \in [Processes -> Refreshes], NEW p \in Processes,
           NEW pc \in {"lock", "locked", "asking", "answered", "refused"}
    PROVE  /\ [f EXCEPT ![p].pc = pc] \in [Processes -> Refreshes]
           /\ [f EXCEPT ![p].told = "yes"] \in [Processes -> Refreshes]
           /\ [NoRefresh EXCEPT !.pc = pc] \in Refreshes
  BY DEF Refreshes, NoRefresh

LEMMA ContentsTyped ==
    ASSUME NEW p \in Processes, NEW c \in Contents, NEW n \in Nat
    PROVE  /\ [c EXCEPT !.token = n] \in Contents
           /\ [c EXCEPT !.key[p] = n] \in Contents
           /\ c.token \in Nat /\ c.key[p] \in Nat
  BY DEF Contents

LEMMA TypeHolds ==
    ASSUME TypeOK, [Next]_vars
    PROVE  TypeOK'
  <1>1. CASE UNCHANGED vars
    BY <1>1 DEF vars, TypeOK
  <1>2. CASE Expire
    BY <1>2 DEF Expire, TypeOK
  <1>3. ASSUME NEW p \in Processes, Set(p) PROVE TypeOK'
    <2>1. sets' \in [Processes -> Nat]
      <3>1. sets \in [Processes -> Nat] /\ sets' = [sets EXCEPT ![p] = @ + 1]
        BY <1>3 DEF Set, TypeOK
      <3> QED
        BY <3>1
    <2>2. data' \in [Processes -> Contents]
      <3> DEFINE c == [data[p] EXCEPT !.key[p] = sets'[p]]
      <3>1. c \in Contents
        BY <2>1, ContentsTyped DEF TypeOK
      <3>2. data' = [data EXCEPT ![p] = c]
        BY <1>3, Typed DEF Set
      <3> HIDE DEF c
      <3> QED
        BY <3>1, <3>2 DEF TypeOK
    <2>3. call' \in [Processes -> Calls]
      BY <1>3, Typed DEF Set, TypeOK, Calling
    <2> QED
      BY <1>3, <2>1, <2>2, <2>3, Typed DEF Set, TypeOK
  <1>4. ASSUME NEW p \in Processes, Check(p) PROVE TypeOK'
    BY <1>4, CallTyped DEF Check, TypeOK
  <1>5. ASSUME NEW p \in Processes, Create(p) PROVE TypeOK'
    BY <1>5, Typed, CallTyped DEF Create, TypeOK
  <1>6. ASSUME NEW p \in Processes, LockSync(p) PROVE TypeOK'
    BY <1>6, Typed, CallTyped DEF LockSync, TypeOK, MayTake
  <1>7. ASSUME NEW p \in Processes, TakeOver(p) PROVE TypeOK'
    BY <1>7, Typed, CallTyped DEF TakeOver, TypeOK
  <1>8. ASSUME NEW p \in Processes, GiveUp(p) PROVE TypeOK'
    BY <1>8, Typed DEF GiveUp, TypeOK
  <1>9. ASSUME NEW p \in Processes, Write(p) PROVE TypeOK'
    BY <1>9, Typed, ContentsTyped DEF Write, TypeOK
  <1>10. ASSUME NEW p \in Processes, Reload(p) PROVE TypeOK'
    BY <1>10, Typed DEF Reload, TypeOK
  <1>11. ASSUME NEW p \in Processes, BeginRefresh(p) PROVE TypeOK'
    BY <1>11, RefreshTyped DEF BeginRefresh, TypeOK
  <1>12. ASSUME NEW p \in Processes, LockAsync(p) PROVE TypeOK'
    BY <1>12, Typed, RefreshTyped DEF LockAsync, TypeOK
  <1>13. ASSUME NEW p \in Processes, LockAsyncGivesUp(p) PROVE TypeOK'
    BY <1>13, Typed DEF LockAsyncGivesUp, TypeOK, Failed, Calling
  <1>14. ASSUME NEW p \in Processes, Read(p) PROVE TypeOK'
    <2>1. /\ \/ refresh' = [refresh EXCEPT ![p] = NoRefresh]
             \/ refresh' = [refresh EXCEPT ![p].pc = "asking"]
          /\ lock' = Released(p) \/ lock' = lock
          /\ data' = [data EXCEPT ![p] = file]
          /\ loadError' = [loadError EXCEPT ![p] = "no"]
          /\ UNCHANGED <<born, exists, file, call, fresh, server, received, sets, stored,
                         reused, faults>>
      BY <1>14 DEF Read
    <2>2. refresh' \in [Processes -> Refreshes]
      <3>1. [refresh EXCEPT ![p].pc = "asking"] \in [Processes -> Refreshes]
        BY RefreshTyped DEF TypeOK
      <3> QED
        BY <2>1, <3>1, Typed DEF TypeOK
    <2>3. lock' \in Locks
      BY <2>1, Typed DEF TypeOK, Released
    <2> QED
      BY <2>1, <2>2, <2>3 DEF TypeOK
  <1>15. ASSUME NEW p \in Processes, ProviderAnswers(p) PROVE TypeOK'
    <2>1. /\ \/ refresh' = [refresh EXCEPT ![p].pc = "answered"]
             \/ refresh' = [refresh EXCEPT ![p].pc = "refused"]
          /\ \/ server' = server + 1 /\ fresh' = server + 1 /\ received' = server + 1
             \/ UNCHANGED <<server, fresh, received>>
          /\ reused' \in {reused, "yes"}
          /\ UNCHANGED <<born, exists, file, lock, data, loadError, call, sets, stored, faults>>
      BY <1>15 DEF ProviderAnswers, Sent
    <2>2. refresh' \in [Processes -> Refreshes]
      <3>1. /\ [refresh EXCEPT ![p].pc = "answered"] \in [Processes -> Refreshes]
            /\ [refresh EXCEPT ![p].pc = "refused"] \in [Processes -> Refreshes]
        BY RefreshTyped DEF TypeOK
      <3> QED
        BY <2>1, <3>1
    <2>3. fresh' \in Nat /\ server' \in Nat /\ received' \in Nat
      <3>1. fresh \in Nat /\ server \in Nat /\ received \in Nat
        BY DEF TypeOK
      <3>2. \/ server' = server + 1 /\ fresh' = server + 1 /\ received' = server + 1
            \/ UNCHANGED <<server, fresh, received>>
        BY <2>1
      <3> QED
        BY <3>1, <3>2
    <2>4. reused' \in {"yes", "no"}
      BY <2>1 DEF TypeOK
    <2>5. UNCHANGED <<born, exists, file, lock, data, loadError, call, sets, stored, faults>>
      BY <2>1
    <2> QED
      BY <2>2, <2>3, <2>4, <2>5 DEF TypeOK
  <1>16. ASSUME NEW p \in Processes, ProviderFails(p) PROVE TypeOK'
    BY <1>16, RefreshTyped DEF ProviderFails, TypeOK
  <1>21. ASSUME NEW p \in Processes, AnswerLost(p) PROVE TypeOK'
    <2>1. refresh' \in [Processes -> Refreshes]
      BY <1>21, RefreshTyped DEF AnswerLost, TypeOK
    <2>2. server' \in Nat
      <3>1. server \in Nat
        BY DEF TypeOK
      <3>2. server' = server \/ server' = server + 1
        BY <1>21 DEF AnswerLost
      <3> QED
        BY <3>1, <3>2
    <2>3. reused' \in {"yes", "no"}
      BY <1>21 DEF AnswerLost, Sent, TypeOK
    <2>4. UNCHANGED <<born, exists, file, lock, data, loadError, call, fresh, received, sets,
                      stored, faults>>
      BY <1>21 DEF AnswerLost
    <2> QED
      BY <2>1, <2>2, <2>3, <2>4 DEF TypeOK
  <1>17. ASSUME NEW p \in Processes, WriteToken(p) PROVE TypeOK'
    <2> DEFINE merged == [data[p] EXCEPT !.token = received]
    <2>1. merged \in Contents /\ merged.key[p] \in Nat
      BY ContentsTyped DEF TypeOK
    <2> HIDE DEF merged
    <2>2. /\ data' = [data EXCEPT ![p] = merged]
          /\ loadError' = [loadError EXCEPT ![p] = "no"]
          /\ lock' = Released(p)
          /\ refresh' = [refresh EXCEPT ![p] = NoRefresh]
          /\ file' = merged \/ file' = file
          /\ stored' = [stored EXCEPT ![p] = merged.key[p]] \/ stored' = stored
          /\ Calling(p, "reload") \/ call' = call
          /\ UNCHANGED <<born, exists, fresh, server, received, sets, reused, faults>>
      BY <1>17, Typed DEF WriteToken, Failed, merged
    <2> QED
      BY <2>1, <2>2, Typed DEF TypeOK, Released, Calling
  <1>18. ASSUME NEW p \in Processes, Refused(p) PROVE TypeOK'
    BY <1>18, Typed DEF Refused, TypeOK, Released, Failed, Calling
  <1>19. ASSUME NEW p \in Processes, Told(p) PROVE TypeOK'
    <2>1. /\ \/ refresh' = [refresh EXCEPT ![p] = NoRefresh]
             \/ refresh' = [refresh EXCEPT ![p].told = "yes"]
          /\ Calling(p, "reload") \/ call' = call
          /\ UNCHANGED <<born, exists, file, lock, data, loadError, fresh, server,
                         received, sets, stored, reused, faults>>
      BY <1>19 DEF Told, Failed
    <2>2. refresh' \in [Processes -> Refreshes]
      <3>1. [refresh EXCEPT ![p].told = "yes"] \in [Processes -> Refreshes]
        BY RefreshTyped DEF TypeOK
      <3> QED
        BY <2>1, <3>1, Typed DEF TypeOK
    <2> QED
      BY ZenonT(60), <2>1, <2>2, Typed DEF TypeOK, Calling
  <1>20. ASSUME NEW p \in Processes, Crash(p) PROVE TypeOK'
    <2>1. lock' \in Locks
      BY <1>20, Typed DEF Crash, TypeOK, Locks
    <2>2. file' \in Contents /\ faults' \subseteq {"crashed", "taken over", "torn"}
      BY <1>20, Typed DEF Crash, TypeOK
    <2> QED
      BY <1>20, <2>1, <2>2, Typed DEF Crash, TypeOK
  <1> QED
    BY <1>1, <1>2, <1>3, <1>4, <1>5, <1>6, <1>7, <1>8, <1>9, <1>10, <1>11, <1>12, <1>13, <1>14, <1>15, <1>16, <1>17, <1>18, <1>19, <1>20, <1>21 DEF Next, Progress

-----------------------------------------------------------------------------

(* What a process does leaves the others alone.                             *)
LEMMA Frame ==
    ASSUME TypeOK, NEW p \in Processes,
           Progress(p) \/ Set(p) \/ BeginRefresh(p) \/ Crash(p)
    PROVE  \A q \in Processes : q # p =>
               call'[q] = call[q] /\ refresh'[q] = refresh[q] /\ data'[q] = data[q]
  <1> SUFFICES ASSUME NEW q \in Processes, q # p
               PROVE  call'[q] = call[q] /\ refresh'[q] = refresh[q] /\ data'[q] = data[q]
    OBVIOUS
  <1>0. /\ call \in [Processes -> Calls] /\ refresh \in [Processes -> Refreshes]
        /\ data \in [Processes -> Contents]
    BY DEF TypeOK
  <1>1. CASE Set(p)
    BY <1>0, <1>1 DEF Set, Calling
  <1>2. CASE Check(p)
    BY <1>0, <1>2 DEF Check
  <1>3. CASE Create(p)
    BY <1>0, <1>3 DEF Create
  <1>4. CASE LockSync(p)
    BY <1>0, <1>4 DEF LockSync
  <1>5. CASE TakeOver(p)
    BY <1>0, <1>5 DEF TakeOver
  <1>6. CASE GiveUp(p)
    BY <1>0, <1>6 DEF GiveUp
  <1>7. CASE Write(p)
    BY <1>0, <1>7 DEF Write
  <1>8. CASE Reload(p)
    BY <1>0, <1>8 DEF Reload
  <1>9. CASE BeginRefresh(p)
    BY <1>0, <1>9 DEF BeginRefresh
  <1>10. CASE LockAsync(p)
    BY <1>0, <1>10 DEF LockAsync
  <1>11. CASE LockAsyncGivesUp(p)
    BY <1>0, <1>11 DEF LockAsyncGivesUp, Failed, Calling
  <1>12. CASE Read(p)
    BY <1>0, <1>12 DEF Read
  <1>13. CASE ProviderAnswers(p)
    BY <1>0, <1>13 DEF ProviderAnswers
  <1>14. CASE ProviderFails(p)
    BY <1>0, <1>14 DEF ProviderFails
  <1>19. CASE AnswerLost(p)
    BY <1>0, <1>19 DEF AnswerLost
  <1>15. CASE WriteToken(p)
    BY <1>0, <1>15 DEF WriteToken, Failed, Calling
  <1>16. CASE Refused(p)
    BY <1>0, <1>16 DEF Refused, Failed, Calling
  <1>17. CASE Told(p)
    BY <1>0, <1>17 DEF Told, Failed, Calling
  <1>18. CASE Crash(p)
    BY <1>0, <1>18 DEF Crash
  <1> QED
    BY <1>1, <1>2, <1>3, <1>4, <1>5, <1>6, <1>7, <1>8, <1>9, <1>10, <1>11, <1>12, <1>13, <1>14, <1>15, <1>16, <1>17, <1>18, <1>19 DEF Progress

(* Where each step leaves its process.                                      *)
LEMMA CallAfter ==
    ASSUME TypeOK, NEW p \in Processes
    PROVE  /\ Set(p) => call'[p].pc \in {"check", "idle"}
           /\ Check(p) => call'[p].pc = IF exists = "yes" THEN "lock" ELSE "create"
           /\ Create(p) => call'[p].pc = "lock"
           /\ LockSync(p) \/ TakeOver(p) => call'[p].pc = "locked"
           /\ GiveUp(p) \/ Write(p) \/ Reload(p) => call'[p].pc = "idle"
           /\ LockAsyncGivesUp(p) \/ Refused(p) \/ Crash(p) => call'[p].pc = "check"
           /\ WriteToken(p) => call'[p].pc \in {"check", "idle"}
           /\ BeginRefresh(p) => call'[p].pc = "idle"
  <1>0. call \in [Processes -> Calls]
    BY DEF TypeOK
  <1>1. Set(p) => call'[p].pc \in {"check", "idle"}
    BY <1>0 DEF Set, Calling, Idle
  <1>2. Check(p) => call'[p].pc = IF exists = "yes" THEN "lock" ELSE "create"
    BY <1>0 DEF Check, Calls
  <1>3. Create(p) => call'[p].pc = "lock"
    BY <1>0 DEF Create, Calls
  <1>11. LockSync(p) \/ TakeOver(p) => call'[p].pc = "locked"
    BY <1>0 DEF LockSync, TakeOver, Calls
  <1>4. GiveUp(p) => call'[p].pc = "idle"
    BY <1>0 DEF GiveUp, Idle
  <1>5. Write(p) \/ Reload(p) => call'[p].pc = "idle"
    BY <1>0 DEF Write, Reload, Idle
  <1>6. LockAsyncGivesUp(p) => call'[p].pc = "check"
    BY <1>0 DEF LockAsyncGivesUp, Failed, Calling
  <1>7. Refused(p) => call'[p].pc = "check"
    BY <1>0 DEF Refused, Failed, Calling
  <1>8. Crash(p) => call'[p].pc = "check"
    BY <1>0 DEF Crash
  <1>9. WriteToken(p) => call'[p].pc \in {"check", "idle"}
    BY <1>0 DEF WriteToken, Failed, Calling, At, Idle
  <1>10. BeginRefresh(p) => call'[p].pc = "idle"
    BY <1>0 DEF BeginRefresh, At, Idle
  <1> QED
    BY <1>1, <1>2, <1>3, <1>4, <1>5, <1>6, <1>7, <1>8, <1>9, <1>10, <1>11

LEMMA RefreshAfter ==
    ASSUME TypeOK, NEW p \in Processes
    PROVE  /\ BeginRefresh(p) => refresh'[p].pc = "lock" /\ refresh'[p].told = "no"
           /\ LockAsyncGivesUp(p) \/ WriteToken(p) \/ Refused(p) \/ Crash(p) =>
                refresh'[p].pc = "idle" /\ refresh'[p].told = "no"
           /\ LockAsync(p) => refresh'[p].pc = "locked" /\ refresh'[p].told = refresh[p].told
           /\ Read(p) => \/ refresh'[p].pc = "idle" /\ refresh'[p].told = "no"
                         \/ /\ refresh'[p].pc = "asking" /\ refresh'[p].told = refresh[p].told
                            /\ lock' = lock
           /\ ProviderAnswers(p) \/ ProviderFails(p) \/ AnswerLost(p) =>
                refresh'[p].told = refresh[p].told
           /\ ProviderFails(p) \/ AnswerLost(p) => refresh'[p].pc = "refused"
           /\ ProviderAnswers(p) =>
                refresh'[p].pc = IF data[p].token = server THEN "answered" ELSE "refused"
  <1>0. refresh \in [Processes -> Refreshes]
    BY DEF TypeOK
  <1>1. BeginRefresh(p) => refresh'[p].pc = "lock" /\ refresh'[p].told = "no"
    BY <1>0 DEF BeginRefresh, NoRefresh
  <1>2. LockAsyncGivesUp(p) => refresh'[p].pc = "idle" /\ refresh'[p].told = "no"
    BY <1>0 DEF LockAsyncGivesUp, Failed, NoRefresh
  <1>3. WriteToken(p) => refresh'[p].pc = "idle" /\ refresh'[p].told = "no"
    BY <1>0 DEF WriteToken, Failed, NoRefresh
  <1>4. Refused(p) \/ Crash(p) => refresh'[p].pc = "idle" /\ refresh'[p].told = "no"
    BY <1>0 DEF Refused, Crash, Failed, NoRefresh
  <1>5. LockAsync(p) => refresh'[p].pc = "locked" /\ refresh'[p].told = refresh[p].told
    BY <1>0 DEF LockAsync, Refreshes
  <1>6. ASSUME Read(p)
        PROVE  \/ refresh'[p].pc = "idle" /\ refresh'[p].told = "no"
               \/ /\ refresh'[p].pc = "asking" /\ refresh'[p].told = refresh[p].told
                  /\ lock' = lock
    <2>1. CASE file.token \in {0, fresh}
      BY <1>0, <1>6, <2>1 DEF Read, NoRefresh
    <2>2. CASE file.token \notin {0, fresh}
      <3>1. refresh' = [refresh EXCEPT ![p].pc = "asking"] /\ lock' = lock
        BY <1>6, <2>2 DEF Read
      <3> QED
        BY <1>0, <3>1 DEF Refreshes
    <2> QED
      BY <2>1, <2>2
  <1>7. ProviderFails(p) => refresh'[p].pc = "refused" /\ refresh'[p].told = refresh[p].told
    BY <1>0 DEF ProviderFails, Refreshes
  <1>9. AnswerLost(p) => refresh'[p].pc = "refused" /\ refresh'[p].told = refresh[p].told
    BY <1>0 DEF AnswerLost, Refreshes
  <1>8. ASSUME ProviderAnswers(p)
        PROVE  /\ refresh'[p].told = refresh[p].told
               /\ refresh'[p].pc = IF data[p].token = server THEN "answered" ELSE "refused"
    <2>1. CASE data[p].token = server
      <3>1. refresh' = [refresh EXCEPT ![p].pc = "answered"]
        BY <1>8, <2>1 DEF ProviderAnswers
      <3> QED
        BY <1>0, <2>1, <3>1 DEF Refreshes
    <2>2. CASE data[p].token # server
      <3>1. refresh' = [refresh EXCEPT ![p].pc = "refused"]
        BY <1>8, <2>2 DEF ProviderAnswers
      <3> QED
        BY <1>0, <2>2, <3>1 DEF Refreshes
    <2> QED
      BY <2>1, <2>2
  <1> QED
    BY <1>1, <1>2, <1>3, <1>4, <1>5, <1>6, <1>7, <1>8, <1>9

(* The faults are remembered.                                               *)
LEMMA SoundBefore ==
    ASSUME [Next]_vars, Sound'
    PROVE  Sound /\ faults \subseteq faults'
  <1>1. faults \subseteq faults'
    BY ZenonT(60), SMTT(30) DEF Next, vars, Expire, Progress, Check, Create, LockSync, TakeOver, GiveUp, Write,
           Reload, LockAsync, LockAsyncGivesUp, Read, ProviderAnswers, ProviderFails,
           AnswerLost, Sent, WriteToken, Refused, Told, Set, BeginRefresh, Crash
  <1> QED
    BY <1>1 DEF Sound

(* The lock.                                                                *)
LEMMA LockedHolds ==
    ASSUME TypeOK, Locked, Sound', [Next]_vars
    PROVE  Locked'
  <1>0. Sound
    BY SoundBefore
  <1>1. CASE UNCHANGED vars \/ Expire
    BY <1>1 DEF vars, Expire, Locked, InRefresh
  <1>2. ASSUME NEW p \in Processes, Set(p) \/ Check(p) \/ Create(p) \/ GiveUp(p)
        PROVE  Locked'
    <2>1. /\ call'[p].pc # "locked"
          /\ \A q \in Processes : q # p => call'[q] = call[q]
      BY <1>2, Frame, CallAfter DEF Progress
    <2>2. UNCHANGED <<lock, refresh>>
      BY <1>2 DEF Set, Check, Create, GiveUp
    <2> QED
      BY <2>1, <2>2 DEF Locked, InRefresh
  <1>3. ASSUME NEW p \in Processes, LockSync(p) \/ TakeOver(p) PROVE Locked'
    <2>1. lock = Nobody \/ lock.how = "dead"
      BY <1>3 DEF LockSync, MayTake, TakeOver, Sound
    <2>2. \A q \in Processes : ~InRefresh(q) /\ call[q].pc # "locked"
      BY <2>1 DEF Locked, Nobody, Held
    <2>3. \A q \in Processes : q # p => call'[q] = call[q]
      BY <1>3, Frame DEF Progress
    <2> QED
      BY <1>3, <2>2, <2>3 DEF LockSync, MayTake, TakeOver, Locked, InRefresh
  <1>4. ASSUME NEW p \in Processes, Write(p) \/ Reload(p) PROVE Locked'
    <2>1. \A q \in Processes : ~InRefresh(q) /\ (q # p => call[q].pc # "locked")
      BY <1>4 DEF Write, Reload, Locked, Held
    <2>2. /\ call'[p].pc # "locked"
          /\ \A q \in Processes : q # p => call'[q] = call[q]
      BY <1>4, Frame, CallAfter DEF Progress
    <2> QED
      BY <1>4, <2>1, <2>2 DEF Write, Reload, Locked, InRefresh
  <1>5. ASSUME NEW p \in Processes, BeginRefresh(p) \/ LockAsyncGivesUp(p) PROVE Locked'
    <2>1. /\ refresh'[p].pc \in {"idle", "lock"} /\ refresh'[p].told = "no"
          /\ call'[p].pc # "locked"
          /\ \A q \in Processes : q # p => refresh'[q] = refresh[q] /\ call'[q] = call[q]
      BY <1>5, Frame, CallAfter, RefreshAfter DEF Progress
    <2> QED
      BY <1>5, <2>1 DEF BeginRefresh, LockAsyncGivesUp, Locked, InRefresh
  <1>6. ASSUME NEW p \in Processes, LockAsync(p) PROVE Locked'
    <2>1. lock = Nobody \/ lock.how = "dead"
      BY <1>6 DEF LockAsync
    <2>2. \A q \in Processes : ~InRefresh(q) /\ call[q].pc # "locked"
      BY <2>1 DEF Locked, Nobody, Held
    <2>3. \A q \in Processes : q # p => refresh'[q] = refresh[q]
      BY <1>6, Frame DEF Progress
    <2>4. refresh'[p].told = "no"
      BY <1>6, RefreshAfter DEF Locked
    <2> QED
      BY <1>6, <2>2, <2>3, <2>4 DEF LockAsync, Locked, InRefresh
  <1>7. ASSUME NEW p \in Processes,
               Read(p) \/ ProviderAnswers(p) \/ ProviderFails(p) \/ AnswerLost(p)
        PROVE  Locked'
    <2>1. InRefresh(p) /\ lock = Held(p, "async") /\ refresh[p].told = "no"
      BY <1>7 DEF Read, ProviderAnswers, ProviderFails, AnswerLost, Sent, Locked, InRefresh, At
    <2>2. \A q \in Processes : (q # p => ~InRefresh(q)) /\ call[q].pc # "locked"
      BY <2>1 DEF Locked, Held
    <2>3. lock' \in {lock, Nobody} /\ UNCHANGED call
      BY <1>7, <2>1 DEF Read, ProviderAnswers, ProviderFails, AnswerLost, Released
    <2>4. \A q \in Processes : q # p => refresh'[q] = refresh[q]
      BY <1>7, Frame DEF Progress
    <2>5. \/ refresh'[p].pc = "idle" /\ refresh'[p].told = "no"
          \/ refresh'[p].told = refresh[p].told /\ lock' = lock
      BY <1>7, RefreshAfter DEF ProviderAnswers, ProviderFails, AnswerLost
    <2> QED
      BY <2>1, <2>2, <2>3, <2>4, <2>5 DEF Locked, InRefresh
  <1>8. ASSUME NEW p \in Processes, WriteToken(p) \/ Refused(p) PROVE Locked'
    <2>1. InRefresh(p) /\ lock = Held(p, "async") /\ refresh[p].told = "no"
      BY <1>8 DEF WriteToken, Refused, Locked, InRefresh, At
    <2>2. \A q \in Processes : (q # p => ~InRefresh(q)) /\ call[q].pc # "locked"
      BY <2>1 DEF Locked, Held
    <2>3. /\ refresh'[p].pc = "idle" /\ refresh'[p].told = "no"
          /\ call'[p].pc # "locked"
          /\ \A q \in Processes : q # p => refresh'[q] = refresh[q] /\ call'[q] = call[q]
      BY <1>8, Frame, CallAfter, RefreshAfter DEF Progress
    <2> QED
      BY <2>2, <2>3 DEF Locked, InRefresh
  <1>9. ASSUME NEW p \in Processes, Told(p) PROVE Locked'
    BY <1>9 DEF TypeOK, Refreshes, Told, Locked, InRefresh
  <1>10. ASSUME NEW p \in Processes, Crash(p) PROVE Locked'
    <2>1. /\ refresh'[p].pc = "idle" /\ refresh'[p].told = "no"
          /\ call'[p].pc # "locked"
          /\ \A q \in Processes : q # p => refresh'[q] = refresh[q] /\ call'[q] = call[q]
      BY <1>10, Frame, CallAfter, RefreshAfter
    <2>2. p \notin lock.by => lock' = lock
      BY <1>10 DEF Crash
    <2>3. \A q \in Processes : q # p /\ p \in lock.by => ~InRefresh(q) /\ call[q].pc # "locked"
      BY DEF Locked, Held
    <2> QED
      BY <2>1, <2>2, <2>3 DEF Locked, InRefresh
  <1> QED
    BY <1>1, <1>2, <1>3, <1>4, <1>5, <1>6, <1>7, <1>8, <1>9, <1>10 DEF Next, Progress

-----------------------------------------------------------------------------

LEMMA BornBefore == ASSUME [Next]_vars PROVE born' = born
  BY ZenonT(60), SMTT(30) DEF Next, vars, Expire, Progress, Check, Create, LockSync, TakeOver, GiveUp, Write,
         Reload, LockAsync, LockAsyncGivesUp, Read, ProviderAnswers, ProviderFails,
         AnswerLost, Sent, WriteToken, Refused, Told, Set, BeginRefresh, Crash

(* Without a token nothing is refreshed.                                    *)
LEMMA NoTokenHolds ==
    ASSUME TypeOK, NoToken, [Next]_vars
    PROVE  NoToken'
  <1>0. data \in [Processes -> Contents] /\ file \in Contents
    BY DEF TypeOK
  <1>1. CASE UNCHANGED vars \/ Expire
    BY <1>1 DEF vars, Expire, NoToken
  <1>2. ASSUME NEW p \in Processes, Set(p) PROVE NoToken'
    <2>1. data'[p].token = data[p].token
      BY <1>0, <1>2 DEF Set, Contents
    <2>2. \A q \in Processes : q # p => data'[q] = data[q]
      BY <1>2, Frame
    <2> QED
      BY <1>2, <2>1, <2>2 DEF Set, NoToken
  <1>3. ASSUME NEW p \in Processes, Write(p) PROVE NoToken'
    BY <1>0, <1>3 DEF Write, NoToken, Contents
  <1>4. ASSUME NEW p \in Processes,
               Check(p) \/ Create(p) \/ LockSync(p) \/ TakeOver(p) \/ GiveUp(p)
        PROVE  NoToken'
    <2>1. UNCHANGED <<data, refresh>>
      BY <1>4 DEF Check, Create, LockSync, TakeOver, GiveUp
    <2>2. file' \in {file, Empty}
      BY <1>4 DEF Check, Create, LockSync, TakeOver, GiveUp
    <2> QED
      BY <2>1, <2>2 DEF NoToken, Empty
  <1>5. ASSUME NEW p \in Processes, Reload(p) PROVE NoToken'
    BY <1>0, <1>5 DEF Reload, NoToken
  <1>6. ASSUME NEW p \in Processes, Crash(p) PROVE NoToken'
    <2>1. refresh'[p].pc = "idle" /\ \A q \in Processes : q # p => refresh'[q] = refresh[q]
      BY <1>6, Frame, RefreshAfter
    <2>2. data'[p] = Empty /\ \A q \in Processes : q # p => data'[q] = data[q]
      BY <1>0, <1>6 DEF Crash
    <2>3. file' \in {file, Empty}
      BY <1>6 DEF Crash
    <2> QED
      BY <2>1, <2>2, <2>3 DEF NoToken, Empty
  <1>7. ASSUME NEW p \in Processes
        PROVE  /\ ~BeginRefresh(p) /\ ~LockAsync(p) /\ ~LockAsyncGivesUp(p) /\ ~Read(p)
               /\ ~ProviderAnswers(p) /\ ~ProviderFails(p) /\ ~AnswerLost(p) /\ ~WriteToken(p) /\ ~Refused(p)
               /\ ~Told(p)
    BY DEF NoToken, BeginRefresh, LockAsync, LockAsyncGivesUp, Read, ProviderAnswers,
           ProviderFails, AnswerLost, Sent, WriteToken, Refused, Told, At
  <1> QED
    BY <1>1, <1>2, <1>3, <1>4, <1>5, <1>6, <1>7 DEF Next, Progress

(* Who refreshes is alone under the lock.                                   *)
LEMMA Alone ==
    ASSUME Locked, NEW p \in Processes, InRefresh(p)
    PROVE  /\ refresh[p].told = "no"
           /\ \A q \in Processes : q # p => ~InRefresh(q)
           /\ \A q \in Processes : call[q].pc # "locked"
  BY DEF Locked, Held

LEMMA FileKeptHolds ==
    ASSUME TypeOK, Locked, FileKept, Sound', [Next]_vars
    PROVE  FileKept'
  <1>0. /\ data \in [Processes -> Contents] /\ file \in Contents
        /\ stored \in [Processes -> Nat] /\ server \in Nat /\ received \in Nat
        /\ faults \subseteq faults'
    BY SoundBefore DEF TypeOK
  <1>1. CASE UNCHANGED vars \/ Expire
    BY <1>1 DEF vars, Expire, FileKept, KeysStored, ReadIsFile, TokenStored
  <1>2. ASSUME NEW p \in Processes, Set(p) PROVE FileKept'
    <2>1. /\ data'[p].token = data[p].token
          /\ \A q \in Processes : q # p => data'[p].key[q] = data[p].key[q]
      BY <1>0, <1>2 DEF Set, Contents
    <2>2. \A q \in Processes : q # p => data'[q] = data[q] /\ call'[q] = call[q]
      BY <1>2, Frame
    <2>3. call'[p].pc # "create"
      BY <1>2, CallAfter
    <2>4. ReadIsFile'
      BY <1>2, <2>1, <2>2 DEF Set, FileKept, ReadIsFile
    <2> QED
      BY <1>2, <2>2, <2>3, <2>4 DEF Set, FileKept, KeysStored, TokenStored
  <1>3. ASSUME NEW p \in Processes,
               Check(p) \/ Create(p) \/ LockSync(p) \/ TakeOver(p) \/ GiveUp(p)
        PROVE  FileKept'
    <2>1. ~Create(p)
      BY DEF Create, FileKept
    <2>2. call'[p].pc # "create"
      BY <1>3, <2>1, CallAfter DEF FileKept
    <2>3. \A q \in Processes : q # p => call'[q] = call[q]
      BY <1>3, Frame DEF Progress
    <2>4. UNCHANGED <<exists, file, data, refresh, received, stored>>
      BY <1>3, <2>1 DEF Check, LockSync, TakeOver, GiveUp
    <2> QED
      BY <1>0, <2>2, <2>3, <2>4 DEF FileKept, KeysStored, ReadIsFile, TokenStored
  <1>4. ASSUME NEW p \in Processes, Write(p) PROVE FileKept'
    <2>1. \A q \in Processes : ~InRefresh(q)
      BY <1>4 DEF Write, Locked, Held
    <2>2. KeysStored' /\ file'.token = file.token
      BY <1>0, <1>4 DEF Write, FileKept, KeysStored, Contents
    <2>3. call'[p].pc # "create" /\ \A q \in Processes : q # p => call'[q] = call[q]
      BY <1>4, Frame, CallAfter DEF Progress
    <2> QED
      BY <1>4, <2>1, <2>2, <2>3 DEF Write, FileKept, ReadIsFile, TokenStored, InRefresh
  <1>5. ASSUME NEW p \in Processes, Reload(p) PROVE FileKept'
    <2>1. data'[p] = file
      BY <1>0, <1>5 DEF Reload
    <2>2. /\ call'[p].pc # "create"
          /\ \A q \in Processes : q # p => call'[q] = call[q] /\ data'[q] = data[q]
      BY <1>5, Frame, CallAfter DEF Progress
    <2> QED
      BY <1>5, <2>1, <2>2 DEF Reload, FileKept, KeysStored, ReadIsFile, TokenStored
  <1>6. ASSUME NEW p \in Processes,
               BeginRefresh(p) \/ LockAsync(p) \/ LockAsyncGivesUp(p)
        PROVE  FileKept'
    <2>1. /\ refresh'[p].pc \in {"idle", "lock", "locked"} /\ refresh[p].pc # "answered"
          /\ \A q \in Processes : q # p => call'[q] = call[q] /\ refresh'[q] = refresh[q]
      BY <1>6, Frame, RefreshAfter
         DEF Progress, BeginRefresh, LockAsync, LockAsyncGivesUp, At
    <2>2. call'[p].pc # "create"
      BY <1>6, CallAfter DEF LockAsync, FileKept
    <2>3. UNCHANGED <<exists, file, data, received, stored, faults>>
      BY <1>6 DEF BeginRefresh, LockAsync, LockAsyncGivesUp
    <2> QED
      BY <2>1, <2>2, <2>3 DEF FileKept, KeysStored, ReadIsFile, TokenStored
  <1>7. ASSUME NEW p \in Processes, Read(p) PROVE FileKept'
    <2>1. refresh[p].pc # "answered" /\ data'[p] = file
      BY <1>0, <1>7 DEF Read, At
    <2>2. \A q \in Processes : q # p => refresh'[q] = refresh[q] /\ data'[q] = data[q]
      BY <1>7, Frame DEF Progress
    <2> QED
      BY <1>7, <2>1, <2>2 DEF Read, FileKept, KeysStored, ReadIsFile, TokenStored
  <1>8. ASSUME NEW p \in Processes, ProviderAnswers(p) PROVE FileKept'
    <2>1. \A q \in Processes : q # p => refresh'[q] = refresh[q]
      BY <1>8, Frame DEF Progress
    <2>2. UNCHANGED <<exists, file, data, call, stored, faults>>
      BY <1>8 DEF ProviderAnswers
    <2>3. refresh[p].pc = "asking"
      BY <1>8 DEF ProviderAnswers, Sent
    <2>4. ReadIsFile'
      BY <2>1, <2>2, <2>3 DEF FileKept, ReadIsFile
    <2>5. TokenStored'
      <3>1. CASE data[p].token = server
        BY <1>8, <3>1, RefreshAfter DEF TokenStored
      <3>2. CASE data[p].token # server
        <4>1. received' = received
          BY <1>8, <3>2 DEF ProviderAnswers
        <4>2. refresh[p].pc # "answered"
          BY <2>3
        <4>. QED
          BY <2>1, <2>2, <4>1, <4>2 DEF FileKept, TokenStored
      <3> QED
        BY <3>1, <3>2
    <2> QED
      BY <2>2, <2>4, <2>5 DEF FileKept, KeysStored
  <1>9. ASSUME NEW p \in Processes, ProviderFails(p) \/ AnswerLost(p) \/ Refused(p)
        PROVE  FileKept'
    <2>1. InRefresh(p) /\ refresh[p].pc # "answered"
      BY <1>9 DEF ProviderFails, AnswerLost, Sent, Refused, At, InRefresh
    <2>2. /\ refresh'[p].pc \in {"refused", "idle"}
          /\ \A q \in Processes : q # p => refresh'[q] = refresh[q] /\ call'[q] = call[q]
      BY <1>9, Frame, RefreshAfter DEF Progress
    <2>3. call'[p].pc # "create"
      BY <1>9, CallAfter DEF ProviderFails, AnswerLost, FileKept
    <2>4. UNCHANGED <<exists, file, data, received, stored, faults>>
      BY <1>9 DEF ProviderFails, AnswerLost, Refused
    <2> QED
      BY <2>1, <2>2, <2>3, <2>4 DEF FileKept, KeysStored, ReadIsFile, TokenStored
  <1>10. ASSUME NEW p \in Processes, WriteToken(p) PROVE FileKept'
    <2>1. InRefresh(p) /\ refresh[p].pc = "answered"
      BY <1>10 DEF WriteToken, At, InRefresh
    <2>2. /\ file' = [data[p] EXCEPT !.token = received]
          /\ stored' = [stored EXCEPT ![p] = data[p].key[p]]
      BY <1>0, <1>10, <2>1, Alone DEF WriteToken, Contents
    <2>3. file'.token = received /\ \A q \in Processes : file'.key[q] = data[p].key[q]
      BY <1>0, <2>2 DEF Contents
    <2>4. KeysStored'
      BY <1>0, <2>1, <2>2, <2>3 DEF FileKept, KeysStored, ReadIsFile
    <2>5. /\ refresh'[p].pc = "idle" /\ call'[p].pc # "create"
          /\ \A q \in Processes : q # p => refresh'[q] = refresh[q] /\ call'[q] = call[q]
      BY <1>10, Frame, RefreshAfter, CallAfter DEF Progress
    <2>6. ReadIsFile'
      BY <2>1, <2>5, Alone DEF ReadIsFile, InRefresh
    <2> QED
      BY <1>10, <2>3, <2>4, <2>5, <2>6 DEF WriteToken, FileKept, TokenStored
  <1>11. ASSUME NEW p \in Processes, Told(p) PROVE FileKept'
    <2>1. InRefresh(p)
      BY <1>11 DEF Told, InRefresh, TypeOK, Refreshes
    <2> QED
      BY <1>11, <2>1 DEF Told, Locked
  <1>12. ASSUME NEW p \in Processes, Crash(p) PROVE FileKept'
    <2>1. /\ refresh'[p].pc = "idle" /\ call'[p].pc # "create"
          /\ \A q \in Processes : q # p =>
               refresh'[q] = refresh[q] /\ call'[q] = call[q] /\ data'[q] = data[q]
      BY <1>12, Frame, RefreshAfter, CallAfter
    <2>2. faults' # {} /\ file' = file
      BY <1>12 DEF Crash, Sound
    <2> QED
      BY <1>0, <1>12, <2>1, <2>2 DEF Crash, FileKept, KeysStored, ReadIsFile, TokenStored
  <1> QED
    BY <1>1, <1>2, <1>3, <1>4, <1>5, <1>6, <1>7, <1>8, <1>9, <1>10, <1>11, <1>12
       DEF Next, Progress

(* What is sent to the provider is the last token that came from it.        *)
LEMMA NotReused ==
    ASSUME TypeOK, Locked, born = "yes" => FileKept, born = "no" => NoToken,
           reused = "no", faults' = {}, [Next]_vars
    PROVE  reused' = "no"
  <1>1. faults = {}
    BY SoundBefore DEF Sound
  <1>2. ASSUME NEW p \in Processes, Sent(p) PROVE reused' = "no"
    <2>1. refresh[p].pc = "asking" /\ InRefresh(p)
      BY <1>2 DEF Sent, InRefresh
    <2>2. born = "yes"
      BY <2>1 DEF TypeOK, NoToken
    <2>3. \A q \in Processes : refresh[q].pc # "answered"
      BY <2>1, Alone DEF InRefresh
    <2>4. data[p].token = received
      BY <1>1, <2>1, <2>2, <2>3 DEF FileKept, TokenStored, ReadIsFile
    <2> QED
      BY <1>2, <2>4 DEF Sent
  <1>3. CASE ~ \E p \in Processes : Sent(p)
    BY <1>3, ZenonT(60), SMTT(60) DEF Next, vars, Expire, Progress, Check, Create, LockSync, TakeOver, GiveUp,
       Write, Reload, LockAsync, LockAsyncGivesUp, Read, ProviderAnswers, ProviderFails,
       AnswerLost, WriteToken, Refused, Told, Set, BeginRefresh, Crash
  <1> QED
    BY <1>2, <1>3

LEMMA StepHolds == IInv /\ [Next]_vars => IInv'
  <1> SUFFICES ASSUME IInv, [Next]_vars PROVE IInv'
    OBVIOUS
  <1>1. TypeOK'
    BY TypeHolds DEF IInv
  <1>2. ASSUME Sound'
        PROVE  /\ Locked'
               /\ (born = "yes" => FileKept)' /\ (born = "no" => NoToken)'
               /\ (faults = {} => reused = "no")'
    <2>1. /\ TypeOK /\ Locked /\ born' = born
          /\ born = "yes" => FileKept
          /\ born = "no" => NoToken
          /\ faults = {} => reused = "no"
      BY <1>2, SoundBefore, BornBefore DEF IInv
    <2>2. Locked'
      BY <1>2, <2>1, LockedHolds
    <2>3. (born = "yes" => FileKept)'
      BY <1>2, <2>1, FileKeptHolds
    <2>4. (born = "no" => NoToken)'
      BY <2>1, NoTokenHolds
    <2>5. (faults = {} => reused = "no")'
      BY <1>2, <2>1, NotReused, SoundBefore
    <2> QED
      BY <2>2, <2>3, <2>4, <2>5
  <1> QED
    BY <1>1, <1>2 DEF IInv

THEOREM Inductive == Spec => []IInv
  BY InitHolds, StepHolds, PTL DEF Spec

(* No token is sent to the provider again after its successor has come,     *)
(* however many processes find it expired at once and whatever answers are  *)
(* lost (refreshOAuthTokenWithLock: the file is read again under the lock   *)
(* and counts), while no process ends and no lock is taken over.            *)
THEOREM NoTokenTwice == Spec => []TokensUsedOnce
  <1>1. IInv => TokensUsedOnce
    BY DEF IInv, TokensUsedOnce, Sound
  <1> QED
    BY <1>1, Inductive, PTL

(* What a process has seen written stays in an auth.json that was there     *)
(* from the beginning, whichever processes set, refresh and end between two *)
(* writes, while no lock is taken over.                                     *)
THEOREM NoChangeLost == Spec => []ChangesKept
  <1>1. IInv => ChangesKept
    BY DEF IInv, ChangesKept, Sound, FileKept, KeysStored
  <1> QED
    BY <1>1, Inductive, PTL

(* The last token that came from the provider is in an auth.json that was   *)
(* there from the beginning, or the holder of the lock is about to write    *)
(* it, while no process ends and no lock is taken over.                     *)
THEOREM NoTokenLost == Spec => []TokenKept
  <1>1. IInv => TokenKept
    BY DEF IInv, TokenKept, Sound, FileKept, TokenStored, Locked, InRefresh
  <1> QED
    BY <1>1, Inductive, PTL

=============================================================================
