---------------------------- MODULE InterlockProofs ----------------------------
(***************************************************************************)
(* Proofs about Interlock for any set of threads and of PVs and any number *)
(* of updates.                                                             *)
(***************************************************************************)
EXTENDS Interlock, TLAPS

\* The types, without the bound on the numbers of updates, which DataInv gives.
Types ==
  /\ epics_ready \in BOOLEAN
  /\ notify_list \in Objects \union {Null}
  /\ next \in [Objects -> Objects \union {Null, Junk}]
  /\ hook \in {"before", "loop", "release", "advance", "done"}
  /\ hookNext \in Objects \union {Null}
  /\ busy \in [Objects -> BOOLEAN]
  /\ release \in [Objects -> {"no", "locked", "signalled"}]
  /\ created \in [Threads -> BOOLEAN]
  /\ start \in [Threads -> {"no", "waiting", "returned"}]
  /\ pc \in [Threads -> {"idle", "take", "sleep", "update"}]
  /\ taking \in [Threads -> Objects]
  /\ todo \in [Threads -> SUBSET PVs]
  /\ data \in [Threads -> [PVs -> Nat]]
  /\ sent \in [Threads -> Nat]
  /\ request \in [Threads -> BOOLEAN]
  /\ chain \in [Threads -> {"none", "reading", "done"}]
  /\ toread \in [Threads -> SUBSET PVs]
  /\ published \in [Threads -> [PVs -> Nat]]

\* Before the hook every interlock that exists is busy, and nobody has got past it.
StartOK(t) ==
  hook = "before" =>
    /\ created[t] => busy[Static(t)]
    /\ start[t] = "waiting" => busy[Frame(t)]
    /\ start[t] # "returned"
    /\ pc[t] # "update" /\ ~request[t] /\ chain[t] = "none"

\* What a thread may take, and who has the interlock of a thread: the thread itself, the
\* scan it asked for, or the chain of records.
OwnerOK(t) ==
  /\ start[t] = "waiting" <=> pc[t] \in {"take", "sleep"} /\ taking[t] = Frame(t)
  /\ pc[t] \in {"take", "sleep"} => taking[t] \in {Static(t), Frame(t)}
  /\ pc[t] \in {"take", "sleep"} /\ taking[t] = Static(t) => created[t] /\ sent[t] < MaxUpdates
  /\ pc[t] = "update" => created[t] /\ ~request[t] /\ chain[t] = "none" /\ sent[t] < MaxUpdates
  /\ request[t] => chain[t] = "none"
  /\ pc[t] = "update" \/ request[t] \/ chain[t] = "reading" =>
       busy[Static(t)] /\ release[Static(t)] = "no"
  /\ chain[t] = "done" => (busy[Static(t)] <=> release[Static(t)] = "no")
  /\ ~created[t] => ~busy[Static(t)] /\ ~request[t] /\ chain[t] = "none"

\* An object is only released by the hook, or by :DONE, and not taken until that is over.
ReleaseOK(x) ==
  release[x] # "no" =>
    ~busy[x] /\ (HookReleases(x) \/ \E t \in Threads : x = Static(t) /\ chain[t] = "done")

\* Nobody has the object: it is busy only because EPICS has not started.
Unused(x) ==
  \A t \in Threads :
    /\ x = Frame(t) => start[t] = "waiting"
    /\ x = Static(t) => pc[t] # "update" /\ ~request[t] /\ chain[t] = "none"

\* The object that the hook is about to release.
HookOK ==
  /\ epics_ready <=> hook # "before"
  /\ hook = "release" =>
       /\ notify_list \in Objects
       /\ Unused(notify_list)
       /\ busy[notify_list] <=> release[notify_list] = "no"

\* The rest of the notify list: where it begins, and the objects that are still on it.
Head == IF hook \in {"release", "advance"} THEN hookNext ELSE notify_list
OnList(x) == busy[x] /\ Unused(x) /\ ~HookReleases(x)
Listed == {x \in Objects : OnList(x)}

\* A list n of objects of S that begins at h: no link leaves S, none leads back to the
\* beginning, and no two lead to the same object.
IsList(S, h, n) ==
  /\ h \in S \union {Null}
  /\ \A x \in S : /\ n[x] \in S \union {Null}
                  /\ n[x] = h => h = Null
                  /\ \A y \in S : n[x] = n[y] => x = y \/ n[x] = Null

ListOK == IsList(Listed, Head, next)

\* The numbers of the updates in the PVs.
DataOK(t) ==
  /\ sent[t] <= MaxUpdates
  /\ \A p \in PVs :
       /\ published[t][p] <= MaxUpdates
       /\ pc[t] = "update" =>
            data[t][p] = IF p \in todo[t] THEN sent[t] ELSE sent[t] + 1
       /\ pc[t] # "update" => data[t][p] = sent[t]
       /\ request[t] \/ (chain[t] = "reading" /\ p \in toread[t]) \/ published[t][p] = sent[t]

IInv ==
  /\ Types
  /\ HookOK
  /\ ListOK
  /\ \A t \in Threads : StartOK(t) /\ OwnerOK(t) /\ DataOK(t)
  /\ \A x \in Objects : ReleaseOK(x)

-------------------------------------------------------------------------------
(* The objects, and the list.                                              *)

\* Every interlock is one of a thread, and no two of them are the same object.
LEMMA Names ==
  /\ \A t \in Threads : Static(t) \in Objects /\ Frame(t) \in Objects
  /\ \A t, u \in Threads : /\ Static(t) = Static(u) => t = u
                           /\ Frame(t) = Frame(u) => t = u
                           /\ Static(t) # Frame(u)
  /\ \A x \in Objects : \E t \in Threads : x = Static(t) \/ x = Frame(t)
  /\ Null \notin Objects /\ Junk \notin Objects /\ Junk # Null
BY InterlockAssumption DEF Objects, Statics, Frames, Static, Frame

\* An object that is not on the list becomes its head.
LEMMA Push ==
  ASSUME NEW S, NEW h, NEW n, NEW m, NEW x, IsList(S, h, n), x \notin S, x # Null,
         Null \notin S, m[x] = h, \A y \in S : m[y] = n[y]
  PROVE  IsList(S \union {x}, x, m)
BY DEF IsList

\* The head of the list is taken from it.
LEMMA Pop ==
  ASSUME NEW S, NEW h, NEW n, IsList(S, h, n), h # Null
  PROVE  IsList(S \ {h}, n[h], n)
BY DEF IsList

\* A list is the same if its objects and their links are.
LEMMA Same ==
  ASSUME NEW S, NEW h, NEW n, NEW m, IsList(S, h, n), \A y \in S : m[y] = n[y]
  PROVE  IsList(S, h, m)
BY DEF IsList

\* Nothing happens to the list in a step that leaves its objects, its links and its head.
LEMMA KeepList ==
  ASSUME ListOK, UNCHANGED Head, \A y \in Objects : OnList(y)' <=> OnList(y),
         \A y \in Listed : next'[y] = next[y]
  PROVE  ListOK'
<1>1. Listed' = Listed
  BY DEF Listed
<1> QED
  BY <1>1, Same DEF ListOK

\* The same of the step in which the object x is put on the list before it.
LEMMA AddToList ==
  ASSUME ListOK, NEW x \in Objects, ~OnList(x), OnList(x)', Head' = x,
         \A y \in Objects \ {x} : OnList(y)' <=> OnList(y),
         next'[x] = Head, \A y \in Listed : next'[y] = next[y]
  PROVE  ListOK'
<1>1. Listed' = Listed \union {x}
  BY DEF Listed
<1>2. x # Null /\ x \notin Listed /\ Null \notin Listed
  BY InterlockAssumption DEF Listed
<1> QED
  BY <1>1, <1>2, Push DEF ListOK

\* It holds at the start.
LEMMA InitIInv == Init => IInv
<1> SUFFICES ASSUME Init PROVE IInv
  OBVIOUS
<1> USE Names DEF Init
<1>1. Types
  BY DEF Types
<1>2. HookOK
  BY DEF HookOK
<1>3. ListOK
  <2>1. Listed = {}
    BY DEF Listed, OnList
  <2> QED
    BY <2>1 DEF ListOK, IsList, Head
<1>4. ASSUME NEW t \in Threads PROVE StartOK(t) /\ OwnerOK(t) /\ DataOK(t)
  BY InterlockAssumption DEF StartOK, OwnerOK, DataOK
<1>5. ASSUME NEW x \in Objects PROVE ReleaseOK(x)
  BY DEF ReleaseOK
<1> QED
  BY <1>1, <1>2, <1>3, <1>4, <1>5 DEF IInv

-------------------------------------------------------------------------------
(* The steps.                                                              *)

\* Every action keeps the types.
LEMMA TypesStep ==
  ASSUME IInv, [Next]_vars PROVE Types'
<1> USE Names DEF IInv, Types, readyVars, hookVars, lockVars, callVars, updateVars,
        driverVars, epicsVars
<1>1. CASE HookStart
  BY <1>1 DEF HookStart, HookGoes
<1>2. CASE HookNext
  <2>1. next[notify_list] \in Objects \union {Null}
    BY <1>2 DEF HookNext, HookGoes, ListOK, IsList, Head, Listed, OnList
  <2> QED
    BY <1>2, <2>1 DEF HookNext, HookGoes
<1>3. CASE HookAdvance
  BY <1>3 DEF HookAdvance, HookGoes
<1>4. CASE HookDone
  BY <1>4 DEF HookDone, HookGoes
<1>5. ASSUME NEW x \in Objects, ReleaseLock(x) PROVE Types'
  BY <1>5 DEF ReleaseLock
<1>6. ASSUME NEW x \in Objects, ReleaseSignal(x) PROVE Types'
  BY <1>6 DEF ReleaseSignal
<1>7. ASSUME NEW x \in Objects, ReleaseUnlock(x) PROVE Types'
  BY <1>7 DEF ReleaseUnlock
<1>8. ASSUME NEW t \in Threads, CreateInterlock(t) PROVE Types'
  <2>1. CASE epics_ready
    BY <1>8, <2>1 DEF CreateInterlock, Announce, ReceiveEpicsReady
  <2>2. CASE ~epics_ready
    <3>1. /\ next' = [next EXCEPT ![Static(t)] = notify_list]
          /\ busy' = [busy EXCEPT ![Static(t)] = TRUE]
          /\ notify_list' = Static(t)
          /\ created' = [created EXCEPT ![t] = TRUE]
      BY <1>8, <2>2 DEF CreateInterlock, Announce, ReceiveEpicsReady
    <3>2. Static(t) \in Objects
      OBVIOUS
    <3>3. next' \in [Objects -> Objects \union {Null, Junk}] /\ busy' \in [Objects -> BOOLEAN]
      BY <3>1, <3>2, Zenon
    <3> QED
      BY <1>8, <3>1, <3>2, <3>3 DEF CreateInterlock
  <2> QED
    BY <2>1, <2>2
<1>9. ASSUME NEW t \in Threads, WaitForEpicsStart(t) PROVE Types'
  <2>1. CASE epics_ready
    BY <1>9, <2>1 DEF WaitForEpicsStart, ReceiveEpicsReady
  <2>2. CASE ~epics_ready
    <3>1. /\ next' = [next EXCEPT ![Frame(t)] = notify_list]
          /\ busy' = [busy EXCEPT ![Frame(t)] = TRUE]
          /\ notify_list' = Frame(t)
          /\ start' = [start EXCEPT ![t] = "waiting"]
          /\ pc' = [pc EXCEPT ![t] = "take"]
          /\ taking' = [taking EXCEPT ![t] = Frame(t)]
      BY <1>9, <2>2 DEF WaitForEpicsStart, ReceiveEpicsReady
    <3>2. Frame(t) \in Objects
      OBVIOUS
    <3>3. next' \in [Objects -> Objects \union {Null, Junk}] /\ busy' \in [Objects -> BOOLEAN]
      BY <3>1, <3>2, Zenon
    <3> QED
      BY <1>9, <3>1, <3>2, <3>3 DEF WaitForEpicsStart
  <2> QED
    BY <2>1, <2>2
<1>10. ASSUME NEW t \in Threads, InterlockWait(t) PROVE Types'
  BY <1>10 DEF InterlockWait, Step
<1>11. ASSUME NEW t \in Threads, TakeBlocks(t) PROVE Types'
  BY <1>11 DEF TakeBlocks, Step
<1>12. ASSUME NEW t \in Threads, TakeForUpdate(t) PROVE Types'
  BY <1>12 DEF TakeForUpdate, TakeInterlock, Step
<1>13. ASSUME NEW t \in Threads, TakeForStart(t) PROVE Types'
  BY <1>13 DEF TakeForStart, TakeInterlock, Step
<1>14. ASSUME NEW t \in Threads, NEW p \in PVs, UpdatePV(t, p) PROVE Types'
  BY <1>14 DEF UpdatePV
<1>15. ASSUME NEW t \in Threads, InterlockSignal(t) PROVE Types'
  BY <1>15 DEF InterlockSignal, Step
<1>16. ASSUME NEW t \in Threads, SpuriousWake(t) PROVE Types'
  BY <1>16 DEF SpuriousWake, Step
<1>17. ASSUME NEW t \in Threads, ProcessTrig(t) PROVE Types'
  BY <1>17 DEF ProcessTrig, Chain
<1>18. ASSUME NEW t \in Threads, NEW p \in PVs, ProcessPV(t, p) PROVE Types'
  BY <1>18 DEF ProcessPV
<1>19. ASSUME NEW t \in Threads, ProcessDone(t) PROVE Types'
  BY <1>19 DEF ProcessDone, Chain
<1>20. CASE UNCHANGED vars
  BY <1>20 DEF vars
<1> QED
  BY <1>1, <1>2, <1>3, <1>4, <1>5, <1>6, <1>7, <1>8, <1>9, <1>10, <1>11, <1>12, <1>13,
     <1>14, <1>15, <1>16, <1>17, <1>18, <1>19, <1>20
     DEF Next, Hook, Release, Take, Process, Drive

\* Nobody gets past an interlock that is busy before the hook has run.
LEMMA StartStep ==
  ASSUME IInv, [Next]_vars, NEW u \in Threads PROVE StartOK(u)'
<1> USE Names DEF IInv, HookOK, StartOK, OwnerOK, ReleaseOK, HookReleases, Types, readyVars,
        hookVars, lockVars, callVars, updateVars, driverVars, epicsVars
<1>1. CASE HookStart
  BY <1>1 DEF HookStart, HookGoes
<1>2. CASE HookNext
  BY <1>2 DEF HookNext, HookGoes
<1>3. CASE HookAdvance
  BY <1>3 DEF HookAdvance, HookGoes
<1>4. CASE HookDone
  BY <1>4 DEF HookDone, HookGoes
<1>5. ASSUME NEW x \in Objects, ReleaseLock(x) PROVE StartOK(u)'
  BY <1>5 DEF ReleaseLock
<1>6. ASSUME NEW x \in Objects, ReleaseSignal(x) PROVE StartOK(u)'
  BY <1>6 DEF ReleaseSignal
<1>7. ASSUME NEW x \in Objects, ReleaseUnlock(x) PROVE StartOK(u)'
  BY <1>7 DEF ReleaseUnlock
<1>8. ASSUME NEW t \in Threads, CreateInterlock(t) PROVE StartOK(u)'
  BY <1>8 DEF CreateInterlock, Announce, ReceiveEpicsReady, ReadyMutexFree
<1>9. ASSUME NEW t \in Threads, WaitForEpicsStart(t) PROVE StartOK(u)'
  <2>1. CASE epics_ready
    BY <1>9, <2>1 DEF WaitForEpicsStart, ReceiveEpicsReady
  <2>2. CASE ~epics_ready
    <3>1. busy' = [busy EXCEPT ![Frame(t)] = TRUE] /\ start' = [start EXCEPT ![t] = "waiting"]
      BY <1>9, <2>2 DEF WaitForEpicsStart, ReceiveEpicsReady
    <3>2. u = t => start'[u] = "waiting" /\ busy'[Frame(u)]
      BY <3>1
    <3>6. /\ busy \in [Objects -> BOOLEAN] /\ Frame(t) \in Objects
          /\ Static(u) \in Objects /\ Static(u) # Frame(t)
          /\ u # t => Frame(u) \in Objects /\ Frame(u) # Frame(t)
      OBVIOUS
    <3>3. u # t => start'[u] = start[u] /\ (busy'[Frame(u)] <=> busy[Frame(u)])
      BY <3>1, <3>6
    <3>5. busy'[Static(u)] <=> busy[Static(u)]
      BY <3>1, <3>6
    <3>4. /\ UNCHANGED <<created, request, chain, hook>>
          /\ pc'[u] # "update"
      BY <1>9, <2>2 DEF WaitForEpicsStart, ReceiveEpicsReady
    <3> QED
      BY <3>2, <3>3, <3>4, <3>5
  <2> QED
    BY <2>1, <2>2
<1>10. ASSUME NEW t \in Threads, InterlockWait(t) PROVE StartOK(u)'
  BY <1>10 DEF InterlockWait, Step
<1>11. ASSUME NEW t \in Threads, TakeBlocks(t) PROVE StartOK(u)'
  BY <1>11 DEF TakeBlocks, Step
<1>12. ASSUME NEW t \in Threads, TakeForUpdate(t) PROVE StartOK(u)'
  BY <1>12 DEF TakeForUpdate, TakeInterlock, Step
<1>13. ASSUME NEW t \in Threads, TakeForStart(t) PROVE StartOK(u)'
  BY <1>13 DEF TakeForStart, TakeInterlock, Step
<1>14. ASSUME NEW t \in Threads, NEW p \in PVs, UpdatePV(t, p) PROVE StartOK(u)'
  BY <1>14 DEF UpdatePV
<1>15. ASSUME NEW t \in Threads, InterlockSignal(t) PROVE StartOK(u)'
  BY <1>15 DEF InterlockSignal, Step
<1>16. ASSUME NEW t \in Threads, SpuriousWake(t) PROVE StartOK(u)'
  BY <1>16 DEF SpuriousWake, Step
<1>17. ASSUME NEW t \in Threads, ProcessTrig(t) PROVE StartOK(u)'
  BY <1>17 DEF ProcessTrig, Chain
<1>18. ASSUME NEW t \in Threads, NEW p \in PVs, ProcessPV(t, p) PROVE StartOK(u)'
  BY <1>18 DEF ProcessPV
<1>19. ASSUME NEW t \in Threads, ProcessDone(t) PROVE StartOK(u)'
  BY <1>19 DEF ProcessDone, Chain
<1>20. CASE UNCHANGED vars
  BY <1>20 DEF vars
<1> QED
  BY <1>1, <1>2, <1>3, <1>4, <1>5, <1>6, <1>7, <1>8, <1>9, <1>10, <1>11, <1>12, <1>13,
     <1>14, <1>15, <1>16, <1>17, <1>18, <1>19, <1>20
     DEF Next, Hook, Release, Take, Process, Drive

\* An interlock goes from the thread that takes it to the scan it asks for, to the chain of
\* records and, released by :DONE, back to whoever comes next.
LEMMA OwnerStep ==
  ASSUME IInv, [Next]_vars, NEW u \in Threads PROVE OwnerOK(u)'
<1> USE Names DEF IInv, HookOK, StartOK, OwnerOK, ReleaseOK, HookReleases, Unused, Types,
        readyVars, hookVars, lockVars, callVars, updateVars, driverVars, epicsVars
<1>1. CASE HookStart
  BY <1>1 DEF HookStart, HookGoes
<1>2. CASE HookNext
  BY <1>2 DEF HookNext, HookGoes
<1>3. CASE HookAdvance
  BY <1>3 DEF HookAdvance, HookGoes
<1>4. CASE HookDone
  BY <1>4 DEF HookDone, HookGoes
<1>5. ASSUME NEW x \in Objects, ReleaseLock(x) PROVE OwnerOK(u)'
  BY <1>5 DEF ReleaseLock
<1>6. ASSUME NEW x \in Objects, ReleaseSignal(x) PROVE OwnerOK(u)'
  BY <1>6 DEF ReleaseSignal
<1>7. ASSUME NEW x \in Objects, ReleaseUnlock(x) PROVE OwnerOK(u)'
  BY <1>7 DEF ReleaseUnlock
<1>8. ASSUME NEW t \in Threads, CreateInterlock(t) PROVE OwnerOK(u)'
  BY <1>8 DEF CreateInterlock, Announce, ReceiveEpicsReady, ReadyMutexFree
<1>9. ASSUME NEW t \in Threads, WaitForEpicsStart(t) PROVE OwnerOK(u)'
  BY <1>9 DEF WaitForEpicsStart, ReceiveEpicsReady, ReadyMutexFree
<1>10. ASSUME NEW t \in Threads, InterlockWait(t) PROVE OwnerOK(u)'
  BY <1>10 DEF InterlockWait, Step
<1>11. ASSUME NEW t \in Threads, TakeBlocks(t) PROVE OwnerOK(u)'
  BY <1>11 DEF TakeBlocks, Step
<1>12. ASSUME NEW t \in Threads, TakeForUpdate(t) PROVE OwnerOK(u)'
  BY <1>12 DEF TakeForUpdate, TakeInterlock, Step
<1>13. ASSUME NEW t \in Threads, TakeForStart(t) PROVE OwnerOK(u)'
  BY <1>13 DEF TakeForStart, TakeInterlock, Step
<1>14. ASSUME NEW t \in Threads, NEW p \in PVs, UpdatePV(t, p) PROVE OwnerOK(u)'
  BY <1>14 DEF UpdatePV
<1>15. ASSUME NEW t \in Threads, InterlockSignal(t) PROVE OwnerOK(u)'
  BY <1>15 DEF InterlockSignal, Step
<1>16. ASSUME NEW t \in Threads, SpuriousWake(t) PROVE OwnerOK(u)'
  BY <1>16 DEF SpuriousWake, Step
<1>17. ASSUME NEW t \in Threads, ProcessTrig(t) PROVE OwnerOK(u)'
  BY <1>17 DEF ProcessTrig, Chain
<1>18. ASSUME NEW t \in Threads, NEW p \in PVs, ProcessPV(t, p) PROVE OwnerOK(u)'
  BY <1>18 DEF ProcessPV
<1>19. ASSUME NEW t \in Threads, ProcessDone(t) PROVE OwnerOK(u)'
  BY <1>19 DEF ProcessDone, Chain
<1>20. CASE UNCHANGED vars
  BY <1>20 DEF vars
<1> QED
  BY <1>1, <1>2, <1>3, <1>4, <1>5, <1>6, <1>7, <1>8, <1>9, <1>10, <1>11, <1>12, <1>13,
     <1>14, <1>15, <1>16, <1>17, <1>18, <1>19, <1>20
     DEF Next, Hook, Release, Take, Process, Drive

\* The thread writes the PVs while it has the interlock, and EPICS reads them while it has it.
LEMMA DataStep ==
  ASSUME IInv, [Next]_vars, NEW u \in Threads PROVE DataOK(u)'
<1> USE Names DEF IInv, OwnerOK, DataOK, Types, readyVars, hookVars, lockVars, callVars,
        updateVars, driverVars, epicsVars
<1>1. CASE HookStart
  BY <1>1 DEF HookStart, HookGoes
<1>2. CASE HookNext
  BY <1>2 DEF HookNext, HookGoes
<1>3. CASE HookAdvance
  BY <1>3 DEF HookAdvance, HookGoes
<1>4. CASE HookDone
  BY <1>4 DEF HookDone, HookGoes
<1>5. ASSUME NEW x \in Objects, ReleaseLock(x) PROVE DataOK(u)'
  BY <1>5 DEF ReleaseLock
<1>6. ASSUME NEW x \in Objects, ReleaseSignal(x) PROVE DataOK(u)'
  BY <1>6 DEF ReleaseSignal
<1>7. ASSUME NEW x \in Objects, ReleaseUnlock(x) PROVE DataOK(u)'
  BY <1>7 DEF ReleaseUnlock
<1>8. ASSUME NEW t \in Threads, CreateInterlock(t) PROVE DataOK(u)'
  BY <1>8 DEF CreateInterlock, Announce, ReceiveEpicsReady, ReadyMutexFree
<1>9. ASSUME NEW t \in Threads, WaitForEpicsStart(t) PROVE DataOK(u)'
  BY <1>9 DEF WaitForEpicsStart, ReceiveEpicsReady, ReadyMutexFree
<1>10. ASSUME NEW t \in Threads, InterlockWait(t) PROVE DataOK(u)'
  BY <1>10 DEF InterlockWait, Step
<1>11. ASSUME NEW t \in Threads, TakeBlocks(t) PROVE DataOK(u)'
  BY <1>11 DEF TakeBlocks, Step
<1>12. ASSUME NEW t \in Threads, TakeForUpdate(t) PROVE DataOK(u)'
  BY <1>12 DEF TakeForUpdate, TakeInterlock, Step
<1>13. ASSUME NEW t \in Threads, TakeForStart(t) PROVE DataOK(u)'
  BY <1>13 DEF TakeForStart, TakeInterlock, Step
<1>14. ASSUME NEW t \in Threads, NEW p \in PVs, UpdatePV(t, p) PROVE DataOK(u)'
  BY <1>14 DEF UpdatePV
<1>15. ASSUME NEW t \in Threads, InterlockSignal(t) PROVE DataOK(u)'
  <2>1. CASE u = t
    <3>1. \A p \in PVs : data[u][p] = sent[u] + 1
      BY <1>15, <2>1 DEF InterlockSignal, Step
    <3>2. /\ sent'[u] = sent[u] + 1 /\ sent[u] < MaxUpdates /\ sent[u] \in Nat
          /\ data' = data /\ published' = published
          /\ pc'[u] = "idle" /\ request'[u]
      BY <1>15, <2>1 DEF InterlockSignal, Step
    <3> QED
      BY <3>1, <3>2, InterlockAssumption
  <2>2. CASE u # t
    BY <1>15, <2>2 DEF InterlockSignal, Step
  <2> QED
    BY <2>1, <2>2
<1>16. ASSUME NEW t \in Threads, SpuriousWake(t) PROVE DataOK(u)'
  BY <1>16 DEF SpuriousWake, Step
<1>17. ASSUME NEW t \in Threads, ProcessTrig(t) PROVE DataOK(u)'
  BY <1>17 DEF ProcessTrig, Chain
<1>18. ASSUME NEW t \in Threads, NEW p \in PVs, ProcessPV(t, p) PROVE DataOK(u)'
  BY <1>18 DEF ProcessPV
<1>19. ASSUME NEW t \in Threads, ProcessDone(t) PROVE DataOK(u)'
  BY <1>19 DEF ProcessDone, Chain
<1>20. CASE UNCHANGED vars
  BY <1>20 DEF vars
<1> QED
  BY <1>1, <1>2, <1>3, <1>4, <1>5, <1>6, <1>7, <1>8, <1>9, <1>10, <1>11, <1>12, <1>13,
     <1>14, <1>15, <1>16, <1>17, <1>18, <1>19, <1>20
     DEF Next, Hook, Release, Take, Process, Drive

\* What the hook or :DONE is releasing, nobody takes.
LEMMA ReleaseStep ==
  ASSUME IInv, [Next]_vars, NEW y \in Objects PROVE ReleaseOK(y)'
<1> USE Names DEF IInv, HookOK, StartOK, OwnerOK, ReleaseOK, HookReleases, Unused, Types,
        readyVars, hookVars, lockVars, callVars, updateVars, driverVars, epicsVars
<1>1. CASE HookStart
  BY <1>1 DEF HookStart, HookGoes
<1>2. CASE HookNext
  BY <1>2 DEF HookNext, HookGoes
<1>3. CASE HookAdvance
  BY <1>3 DEF HookAdvance, HookGoes
<1>4. CASE HookDone
  BY <1>4 DEF HookDone, HookGoes
<1>5. ASSUME NEW x \in Objects, ReleaseLock(x) PROVE ReleaseOK(y)'
  BY <1>5 DEF ReleaseLock
<1>6. ASSUME NEW x \in Objects, ReleaseSignal(x) PROVE ReleaseOK(y)'
  BY <1>6 DEF ReleaseSignal
<1>7. ASSUME NEW x \in Objects, ReleaseUnlock(x) PROVE ReleaseOK(y)'
  BY <1>7 DEF ReleaseUnlock
<1>8. ASSUME NEW t \in Threads, CreateInterlock(t) PROVE ReleaseOK(y)'
  BY <1>8 DEF CreateInterlock, Announce, ReceiveEpicsReady, ReadyMutexFree
<1>9. ASSUME NEW t \in Threads, WaitForEpicsStart(t) PROVE ReleaseOK(y)'
  BY <1>9 DEF WaitForEpicsStart, ReceiveEpicsReady, ReadyMutexFree
<1>10. ASSUME NEW t \in Threads, InterlockWait(t) PROVE ReleaseOK(y)'
  BY <1>10 DEF InterlockWait, Step
<1>11. ASSUME NEW t \in Threads, TakeBlocks(t) PROVE ReleaseOK(y)'
  BY <1>11 DEF TakeBlocks, Step
<1>12. ASSUME NEW t \in Threads, TakeForUpdate(t) PROVE ReleaseOK(y)'
  BY <1>12 DEF TakeForUpdate, TakeInterlock, Step
<1>13. ASSUME NEW t \in Threads, TakeForStart(t) PROVE ReleaseOK(y)'
  BY <1>13 DEF TakeForStart, TakeInterlock, Step
<1>14. ASSUME NEW t \in Threads, NEW p \in PVs, UpdatePV(t, p) PROVE ReleaseOK(y)'
  BY <1>14 DEF UpdatePV
<1>15. ASSUME NEW t \in Threads, InterlockSignal(t) PROVE ReleaseOK(y)'
  BY <1>15 DEF InterlockSignal, Step
<1>16. ASSUME NEW t \in Threads, SpuriousWake(t) PROVE ReleaseOK(y)'
  BY <1>16 DEF SpuriousWake, Step
<1>17. ASSUME NEW t \in Threads, ProcessTrig(t) PROVE ReleaseOK(y)'
  BY <1>17 DEF ProcessTrig, Chain
<1>18. ASSUME NEW t \in Threads, NEW p \in PVs, ProcessPV(t, p) PROVE ReleaseOK(y)'
  BY <1>18 DEF ProcessPV
<1>19. ASSUME NEW t \in Threads, ProcessDone(t) PROVE ReleaseOK(y)'
  BY <1>19 DEF ProcessDone, Chain
<1>20. CASE UNCHANGED vars
  BY <1>20 DEF vars
<1> QED
  BY <1>1, <1>2, <1>3, <1>4, <1>5, <1>6, <1>7, <1>8, <1>9, <1>10, <1>11, <1>12, <1>13,
     <1>14, <1>15, <1>16, <1>17, <1>18, <1>19, <1>20
     DEF Next, Hook, Release, Take, Process, Drive

\* The hook releases an object of the list, which is still there while it does.
LEMMA HookStep ==
  ASSUME IInv, [Next]_vars PROVE HookOK'
<1> USE Names DEF IInv, HookOK, StartOK, OwnerOK, ReleaseOK, HookReleases, Unused, Types,
        readyVars, hookVars, lockVars, callVars, updateVars, driverVars, epicsVars
<1>1. CASE HookStart
  BY <1>1 DEF HookStart, HookGoes
<1>2. CASE HookNext
  <2>1. notify_list \in Listed
    BY <1>2 DEF HookNext, HookGoes, ListOK, IsList, Head
  <2> QED
    BY <1>2, <2>1 DEF HookNext, HookGoes, Listed, OnList
<1>3. CASE HookAdvance
  BY <1>3 DEF HookAdvance, HookGoes
<1>4. CASE HookDone
  BY <1>4 DEF HookDone, HookGoes
<1>5. ASSUME NEW x \in Objects, ReleaseLock(x) PROVE HookOK'
  BY <1>5 DEF ReleaseLock
<1>6. ASSUME NEW x \in Objects, ReleaseSignal(x) PROVE HookOK'
  BY <1>6 DEF ReleaseSignal
<1>7. ASSUME NEW x \in Objects, ReleaseUnlock(x) PROVE HookOK'
  BY <1>7 DEF ReleaseUnlock
<1>8. ASSUME NEW t \in Threads, CreateInterlock(t) PROVE HookOK'
  BY <1>8 DEF CreateInterlock, Announce, ReceiveEpicsReady, ReadyMutexFree
<1>9. ASSUME NEW t \in Threads, WaitForEpicsStart(t) PROVE HookOK'
  BY <1>9 DEF WaitForEpicsStart, ReceiveEpicsReady, ReadyMutexFree
<1>10. ASSUME NEW t \in Threads, InterlockWait(t) PROVE HookOK'
  BY <1>10 DEF InterlockWait, Step
<1>11. ASSUME NEW t \in Threads, TakeBlocks(t) PROVE HookOK'
  BY <1>11 DEF TakeBlocks, Step
<1>12. ASSUME NEW t \in Threads, TakeForUpdate(t) PROVE HookOK'
  BY <1>12 DEF TakeForUpdate, TakeInterlock, Step
<1>13. ASSUME NEW t \in Threads, TakeForStart(t) PROVE HookOK'
  BY <1>13 DEF TakeForStart, TakeInterlock, Step
<1>14. ASSUME NEW t \in Threads, NEW p \in PVs, UpdatePV(t, p) PROVE HookOK'
  BY <1>14 DEF UpdatePV
<1>15. ASSUME NEW t \in Threads, InterlockSignal(t) PROVE HookOK'
  BY <1>15 DEF InterlockSignal, Step
<1>16. ASSUME NEW t \in Threads, SpuriousWake(t) PROVE HookOK'
  BY <1>16 DEF SpuriousWake, Step
<1>17. ASSUME NEW t \in Threads, ProcessTrig(t) PROVE HookOK'
  BY <1>17 DEF ProcessTrig, Chain
<1>18. ASSUME NEW t \in Threads, NEW p \in PVs, ProcessPV(t, p) PROVE HookOK'
  BY <1>18 DEF ProcessPV
<1>19. ASSUME NEW t \in Threads, ProcessDone(t) PROVE HookOK'
  BY <1>19 DEF ProcessDone, Chain
<1>20. CASE UNCHANGED vars
  BY <1>20 DEF vars
<1> QED
  BY <1>1, <1>2, <1>3, <1>4, <1>5, <1>6, <1>7, <1>8, <1>9, <1>10, <1>11, <1>12, <1>13,
     <1>14, <1>15, <1>16, <1>17, <1>18, <1>19, <1>20
     DEF Next, Hook, Release, Take, Process, Drive

\* Before the hook, objects are put on the list; after it, the hook takes them off one by one;
\* an object that leaves its stack frame has left the list before.
LEMMA ListStep ==
  ASSUME IInv, [Next]_vars PROVE ListOK'
<1> USE Names DEF HookOK, StartOK, OwnerOK, ReleaseOK, HookReleases, Unused, OnList, Types,
        readyVars, hookVars, lockVars, callVars, updateVars, driverVars, epicsVars
<1>1. CASE HookStart
  <2>1. ASSUME NEW y \in Objects PROVE OnList(y)' <=> OnList(y)
    BY <1>1 DEF IInv, HookStart, HookGoes
  <2>2. UNCHANGED Head /\ \A y \in Listed : next'[y] = next[y]
    BY <1>1 DEF IInv, HookStart, HookGoes, Head, Listed
  <2> QED
    BY <2>1, <2>2, KeepList DEF IInv
<1>2. CASE HookNext
  <2>1. /\ Head = notify_list /\ Head # Null /\ Head' = next[Head] /\ UNCHANGED next
        /\ hook = "loop" /\ hook' = "release" /\ UNCHANGED notify_list
    BY <1>2 DEF IInv, HookNext, HookGoes, Head
  <2>2. \A y \in Objects : OnList(y)' <=> OnList(y) /\ y # Head
    BY <1>2, <2>1 DEF HookNext, HookGoes
  <2>3. Listed' = Listed \ {Head}
    BY <2>2 DEF Listed
  <2> QED
    BY <2>1, <2>3, Pop DEF IInv, ListOK
<1>3. CASE HookAdvance
  <2>1. ASSUME NEW y \in Objects PROVE OnList(y)' <=> OnList(y)
    BY <1>3 DEF IInv, HookAdvance, HookGoes
  <2>2. UNCHANGED Head /\ \A y \in Listed : next'[y] = next[y]
    BY <1>3 DEF IInv, HookAdvance, HookGoes, Head, Listed
  <2> QED
    BY <2>1, <2>2, KeepList DEF IInv
<1>4. CASE HookDone
  <2>1. ASSUME NEW y \in Objects PROVE OnList(y)' <=> OnList(y)
    BY <1>4 DEF IInv, HookDone, HookGoes
  <2>2. UNCHANGED Head /\ \A y \in Listed : next'[y] = next[y]
    BY <1>4 DEF IInv, HookDone, HookGoes, Head, Listed
  <2> QED
    BY <2>1, <2>2, KeepList DEF IInv
<1>5. ASSUME NEW x \in Objects, ReleaseLock(x) PROVE ListOK'
  <2>1. ASSUME NEW y \in Objects PROVE OnList(y)' <=> OnList(y)
    BY <1>5 DEF IInv, ReleaseLock
  <2>2. UNCHANGED Head /\ \A y \in Listed : next'[y] = next[y]
    BY <1>5 DEF IInv, ReleaseLock, Head, Listed
  <2> QED
    BY <2>1, <2>2, KeepList DEF IInv
<1>6. ASSUME NEW x \in Objects, ReleaseSignal(x) PROVE ListOK'
  <2>1. ASSUME NEW y \in Objects PROVE OnList(y)' <=> OnList(y)
    BY <1>6 DEF IInv, ReleaseSignal
  <2>2. UNCHANGED Head /\ \A y \in Listed : next'[y] = next[y]
    BY <1>6 DEF IInv, ReleaseSignal, Head, Listed
  <2> QED
    BY <2>1, <2>2, KeepList DEF IInv
<1>7. ASSUME NEW x \in Objects, ReleaseUnlock(x) PROVE ListOK'
  <2>1. ASSUME NEW y \in Objects PROVE OnList(y)' <=> OnList(y)
    BY <1>7 DEF IInv, ReleaseUnlock
  <2>2. UNCHANGED Head /\ \A y \in Listed : next'[y] = next[y]
    BY <1>7 DEF IInv, ReleaseUnlock, Head, Listed
  <2> QED
    BY <2>1, <2>2, KeepList DEF IInv
<1>8. ASSUME NEW t \in Threads, CreateInterlock(t) PROVE ListOK'
  <2>1. CASE epics_ready
    <3>1. ASSUME NEW y \in Objects PROVE OnList(y)' <=> OnList(y)
      BY <1>8, <2>1 DEF IInv, CreateInterlock, Announce, ReceiveEpicsReady, ReadyMutexFree
    <3>2. UNCHANGED Head /\ \A y \in Listed : next'[y] = next[y]
      BY <1>8, <2>1 DEF IInv, CreateInterlock, Announce, ReceiveEpicsReady, ReadyMutexFree, Head, Listed
    <3> QED
      BY <3>1, <3>2, KeepList DEF IInv
  <2>2. CASE ~epics_ready
    <3>1. /\ Static(t) \in Objects /\ hook = "before" /\ hook' = "before"
          /\ Head = notify_list /\ Head' = Static(t)
          /\ busy' = [busy EXCEPT ![Static(t)] = TRUE]
          /\ next' = [next EXCEPT ![Static(t)] = Head]
      BY <1>8, <2>2 DEF IInv, CreateInterlock, Announce, ReceiveEpicsReady, ReadyMutexFree, Head
    <3>2. ~OnList(Static(t)) /\ OnList(Static(t))'
      BY <1>8, <2>2, <3>1 DEF IInv, CreateInterlock, Announce, ReceiveEpicsReady, ReadyMutexFree
    <3>3. ASSUME NEW y \in Objects \ {Static(t)} PROVE OnList(y)' <=> OnList(y)
      <4>1. busy'[y] <=> busy[y]
        BY <3>1, <3>3 DEF IInv
      <4>2. Unused(y)' <=> Unused(y)
        BY <1>8, <2>2, <3>3 DEF CreateInterlock, Announce, ReceiveEpicsReady, ReadyMutexFree, IInv
      <4> QED
        BY <3>1, <4>1, <4>2 DEF OnList
    <3>4. next'[Static(t)] = Head /\ \A y \in Listed : next'[y] = next[y]
      BY <3>1, <3>2 DEF IInv, Listed
    <3> QED
      BY <3>1, <3>2, <3>3, <3>4, AddToList DEF IInv
  <2> QED
    BY <2>1, <2>2
<1>9. ASSUME NEW t \in Threads, WaitForEpicsStart(t) PROVE ListOK'
  <2>1. CASE epics_ready
    <3>1. ASSUME NEW y \in Objects PROVE OnList(y)' <=> OnList(y)
      BY <1>9, <2>1 DEF IInv, WaitForEpicsStart, ReceiveEpicsReady, ReadyMutexFree
    <3>2. UNCHANGED Head /\ \A y \in Listed : next'[y] = next[y]
      BY <1>9, <2>1 DEF IInv, WaitForEpicsStart, ReceiveEpicsReady, ReadyMutexFree, Head, Listed
    <3> QED
      BY <3>1, <3>2, KeepList DEF IInv
  <2>2. CASE ~epics_ready
    <3>1. /\ Frame(t) \in Objects /\ hook = "before" /\ hook' = "before"
          /\ Head = notify_list /\ Head' = Frame(t)
          /\ busy' = [busy EXCEPT ![Frame(t)] = TRUE]
          /\ next' = [next EXCEPT ![Frame(t)] = Head]
      BY <1>9, <2>2 DEF IInv, WaitForEpicsStart, ReceiveEpicsReady, ReadyMutexFree, Head
    <3>2. ~OnList(Frame(t)) /\ OnList(Frame(t))'
      BY <1>9, <2>2, <3>1 DEF IInv, WaitForEpicsStart, ReceiveEpicsReady, ReadyMutexFree
    <3>3. ASSUME NEW y \in Objects \ {Frame(t)} PROVE OnList(y)' <=> OnList(y)
      <4>1. busy'[y] <=> busy[y]
        BY <3>1, <3>3 DEF IInv
      <4>2. Unused(y)' <=> Unused(y)
        BY <1>9, <2>2, <3>3 DEF WaitForEpicsStart, ReceiveEpicsReady, ReadyMutexFree, IInv
      <4> QED
        BY <3>1, <4>1, <4>2 DEF OnList
    <3>4. next'[Frame(t)] = Head /\ \A y \in Listed : next'[y] = next[y]
      BY <3>1, <3>2 DEF IInv, Listed
    <3> QED
      BY <3>1, <3>2, <3>3, <3>4, AddToList DEF IInv
  <2> QED
    BY <2>1, <2>2
<1>10. ASSUME NEW t \in Threads, InterlockWait(t) PROVE ListOK'
  <2>1. ASSUME NEW y \in Objects PROVE OnList(y)' <=> OnList(y)
    BY <1>10 DEF IInv, InterlockWait, Step
  <2>2. UNCHANGED Head /\ \A y \in Listed : next'[y] = next[y]
    BY <1>10 DEF IInv, InterlockWait, Step, Head, Listed
  <2> QED
    BY <2>1, <2>2, KeepList DEF IInv
<1>11. ASSUME NEW t \in Threads, TakeBlocks(t) PROVE ListOK'
  <2>1. ASSUME NEW y \in Objects PROVE OnList(y)' <=> OnList(y)
    BY <1>11 DEF IInv, TakeBlocks, Step
  <2>2. UNCHANGED Head /\ \A y \in Listed : next'[y] = next[y]
    BY <1>11 DEF IInv, TakeBlocks, Step, Head, Listed
  <2> QED
    BY <2>1, <2>2, KeepList DEF IInv
<1>12. ASSUME NEW t \in Threads, TakeForUpdate(t) PROVE ListOK'
  <2>1. ASSUME NEW y \in Objects PROVE OnList(y)' <=> OnList(y)
    BY <1>12 DEF IInv, TakeForUpdate, TakeInterlock, Step
  <2>2. UNCHANGED Head /\ \A y \in Listed : next'[y] = next[y]
    BY <1>12 DEF IInv, TakeForUpdate, TakeInterlock, Step, Head, Listed
  <2> QED
    BY <2>1, <2>2, KeepList DEF IInv
<1>13. ASSUME NEW t \in Threads, TakeForStart(t) PROVE ListOK'
  <2>1. ASSUME NEW y \in Objects PROVE OnList(y)' <=> OnList(y)
    BY <1>13 DEF IInv, TakeForStart, TakeInterlock, Step
  <2>2. UNCHANGED Head /\ \A y \in Listed : next'[y] = next[y]
    BY <1>13 DEF IInv, TakeForStart, TakeInterlock, Step, Head, Listed
  <2> QED
    BY <2>1, <2>2, KeepList DEF IInv
<1>14. ASSUME NEW t \in Threads, NEW p \in PVs, UpdatePV(t, p) PROVE ListOK'
  <2>1. ASSUME NEW y \in Objects PROVE OnList(y)' <=> OnList(y)
    BY <1>14 DEF IInv, UpdatePV
  <2>2. UNCHANGED Head /\ \A y \in Listed : next'[y] = next[y]
    BY <1>14 DEF IInv, UpdatePV, Head, Listed
  <2> QED
    BY <2>1, <2>2, KeepList DEF IInv
<1>15. ASSUME NEW t \in Threads, InterlockSignal(t) PROVE ListOK'
  <2>1. ASSUME NEW y \in Objects PROVE OnList(y)' <=> OnList(y)
    BY <1>15 DEF IInv, InterlockSignal, Step
  <2>2. UNCHANGED Head /\ \A y \in Listed : next'[y] = next[y]
    BY <1>15 DEF IInv, InterlockSignal, Step, Head, Listed
  <2> QED
    BY <2>1, <2>2, KeepList DEF IInv
<1>16. ASSUME NEW t \in Threads, SpuriousWake(t) PROVE ListOK'
  <2>1. ASSUME NEW y \in Objects PROVE OnList(y)' <=> OnList(y)
    BY <1>16 DEF IInv, SpuriousWake, Step
  <2>2. UNCHANGED Head /\ \A y \in Listed : next'[y] = next[y]
    BY <1>16 DEF IInv, SpuriousWake, Step, Head, Listed
  <2> QED
    BY <2>1, <2>2, KeepList DEF IInv
<1>17. ASSUME NEW t \in Threads, ProcessTrig(t) PROVE ListOK'
  <2>1. ASSUME NEW y \in Objects PROVE OnList(y)' <=> OnList(y)
    BY <1>17 DEF IInv, ProcessTrig, Chain
  <2>2. UNCHANGED Head /\ \A y \in Listed : next'[y] = next[y]
    BY <1>17 DEF IInv, ProcessTrig, Chain, Head, Listed
  <2> QED
    BY <2>1, <2>2, KeepList DEF IInv
<1>18. ASSUME NEW t \in Threads, NEW p \in PVs, ProcessPV(t, p) PROVE ListOK'
  <2>1. ASSUME NEW y \in Objects PROVE OnList(y)' <=> OnList(y)
    BY <1>18 DEF IInv, ProcessPV
  <2>2. UNCHANGED Head /\ \A y \in Listed : next'[y] = next[y]
    BY <1>18 DEF IInv, ProcessPV, Head, Listed
  <2> QED
    BY <2>1, <2>2, KeepList DEF IInv
<1>19. ASSUME NEW t \in Threads, ProcessDone(t) PROVE ListOK'
  <2>1. ASSUME NEW y \in Objects PROVE OnList(y)' <=> OnList(y)
    BY <1>19 DEF IInv, ProcessDone, Chain
  <2>2. UNCHANGED Head /\ \A y \in Listed : next'[y] = next[y]
    BY <1>19 DEF IInv, ProcessDone, Chain, Head, Listed
  <2> QED
    BY <2>1, <2>2, KeepList DEF IInv
<1>20. CASE UNCHANGED vars
  <2>1. ASSUME NEW y \in Objects PROVE OnList(y)' <=> OnList(y)
    BY <1>20 DEF IInv, vars
  <2>2. UNCHANGED Head /\ \A y \in Listed : next'[y] = next[y]
    BY <1>20 DEF IInv, vars, Head, Listed
  <2> QED
    BY <2>1, <2>2, KeepList DEF IInv
<1> QED
  BY <1>1, <1>2, <1>3, <1>4, <1>5, <1>6, <1>7, <1>8, <1>9, <1>10, <1>11, <1>12, <1>13,
     <1>14, <1>15, <1>16, <1>17, <1>18, <1>19, <1>20
     DEF Next, Hook, Release, Take, Process, Drive

-------------------------------------------------------------------------------
(* The theorems.                                                           *)

\* The strengthened invariant holds in every reachable state.
LEMMA Inductive == Spec => []IInv
<1>1. IInv /\ [Next]_vars => IInv'
  BY TypesStep, StartStep, OwnerStep, DataStep, ReleaseStep, HookStep, ListStep DEF IInv
<1> QED
  BY <1>1, InitIInv, PTL DEF Spec

\* No PV is behind, or ahead, of the update its thread has begun: the numbers are bounded.
LEMMA DataBounded ==
  ASSUME IInv, NEW t \in Threads
  PROVE  /\ sent[t] \in 0 .. MaxUpdates
         /\ \A p \in PVs : data[t][p] \in 0 .. MaxUpdates /\ published[t][p] \in 0 .. MaxUpdates
<1>1. /\ OwnerOK(t) /\ DataOK(t) /\ sent[t] \in Nat
      /\ \A p \in PVs : data[t][p] \in Nat /\ published[t][p] \in Nat
  BY DEF IInv, Types
<1> QED
  BY <1>1, InterlockAssumption DEF OwnerOK, DataOK

\* Every variable has its type; nobody follows the end of the list or what is left in a frame
\* that is gone.
THEOREM InterlockTypes == Spec => []TypeOK
<1>1. IInv => TypeOK
  <2> SUFFICES ASSUME IInv PROVE TypeOK
    OBVIOUS
  <2>1. Types
    BY DEF IInv
  <2>2. sent \in [Threads -> 0 .. MaxUpdates]
    BY <2>1, DataBounded DEF Types
  <2>3. /\ data \in [Threads -> [PVs -> 0 .. MaxUpdates]]
        /\ published \in [Threads -> [PVs -> 0 .. MaxUpdates]]
    BY <2>1, DataBounded DEF Types
  <2> QED
    BY <2>1, <2>2, <2>3 DEF Types, TypeOK
<1> QED
  BY <1>1, Inductive, PTL

\* init_hook() never follows a pointer out of the stack frame of a wait_for_epics_start()
\* that has returned.
THEOREM HookFollowsLiving == Spec => []NotifyListAlive
<1>1. IInv => NotifyListAlive
  <2> SUFFICES ASSUME IInv PROVE NotifyListAlive
    OBVIOUS
  <2>1. Head \in Listed \union {Null}
    BY DEF IInv, ListOK, IsList
  <2>2. \A x \in Objects : Unused(x) => Alive(x)
    BY DEF Unused, Alive
  <2> QED
    BY <2>1, <2>2 DEF IInv, HookOK, Head, Listed, OnList, NotifyListAlive
<1> QED
  BY <1>1, Inductive, PTL

\* Neither interlock_wait() nor wait_for_epics_start() returns before EPICS has started.
THEOREM NobodyBeforeReady == Spec => []NothingBeforeReady
<1>1. IInv => NothingBeforeReady
  BY DEF IInv, HookOK, StartOK, NothingBeforeReady
<1> QED
  BY <1>1, Inductive, PTL

\* interlock_wait() returns only when EPICS has read every PV of the update before.
THEOREM EachUpdateIsRead == Spec => []NoOverrun
<1>1. IInv => NoOverrun
  BY DEF IInv, OwnerOK, DataOK, NoOverrun
<1> QED
  BY <1>1, Inductive, PTL

\* "Data seen over Channel Access is coherent": at :DONE every PV is of the same update.
THEOREM UpdatesAreCoherent == Spec => []Coherent
<1>1. IInv => Coherent
  BY DEF IInv, OwnerOK, DataOK, Coherent
<1> QED
  BY <1>1, Inductive, PTL
===============================================================================
