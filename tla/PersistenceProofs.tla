-------------------------- MODULE PersistenceProofs --------------------------
(***************************************************************************)
(* Proofs about Persistence for any number of variables, writers, values   *)
(* and faults.  The type invariant and the discipline of the mutex hold    *)
(* with any threads calling update_persistent_state().  What is said of    *)
(* the files is proved for a process where only the persistence thread     *)
(* saves (Updaters = {}) and fprintf and fclose succeed.                   *)
(***************************************************************************)
EXTENDS Persistence, TLAPS

\* The table and the file of a process that has set nothing yet are of the right type.
LEMMA BlankType == Blank \in [Vars -> Versions] /\ Blank \in [Vars -> Lines]
BY PersistenceAssumption DEF Blank, Versions, Lines

\* What a start would load is a table.
LEMMA SavedType == TypeOK => Saved \in [Vars -> Lines]
BY BlankType DEF TypeOK, Saved

\* The types and the discipline of the mutex hold before the first load.
LEMMA InitType == Init => TypeOK /\ LockInv
<1> SUFFICES ASSUME Init PROVE TypeOK /\ LockInv
  OBVIOUS
<1>1. mem \in [Vars -> Lines] /\ buf \in [Savers -> [Vars -> Lines]]
  BY BlankType DEF Init
<1>2. content \in [Inodes -> [Vars -> Lines]]
  BY BlankType DEF Init
<1>3. faults \in 0 .. MaxFaults
  BY PersistenceAssumption DEF Init
<1>4. TypeOK
  BY <1>1, <1>2, <1>3 DEF Init, TypeOK
<1>5. LockInv
  BY PersistenceAssumption DEF Init, LockInv, Savers
<1> QED
  BY <1>4, <1>5

\* No step of the code breaks the types; a writer that stores has the mutex, so it has a
\* value to store.
LEMMA TypeStep == TypeOK /\ LockInv /\ [Next]_vars => TypeOK'
<1> SUFFICES ASSUME TypeOK, LockInv, [Next]_vars PROVE TypeOK'
  OBVIOUS
<1> USE PersistenceAssumption DEF faultVars
<1>1. CASE LoadPersistentState
  BY <1>1, SavedType DEF TypeOK, LoadPersistentState, memVars, diskVars, Savers
<1>2. CASE TerminatePersistentState
  BY <1>2 DEF TypeOK, TerminatePersistentState, saveVars, diskVars
<1>3. CASE JoinPersistThread
  BY <1>3 DEF TypeOK, JoinPersistThread, memVars, saveVars, diskVars
<1>4. ASSUME ProcessEnds, faults' \in 0 .. MaxFaults PROVE TypeOK'
  BY <1>4, BlankType DEF TypeOK, ProcessEnds, diskVars
<1>5. CASE Exit
  BY <1>4, <1>5 DEF TypeOK, Exit
<1>6. CASE Crash
  BY <1>4, <1>6 DEF TypeOK, Crash, Fault
<1>7. ASSUME NEW w \in Writers, NEW v \in Vars, NEW x \in Versions, WriteBegin(w, v, x)
      PROVE  TypeOK'
  BY <1>7 DEF TypeOK, WriteBegin, saveVars, diskVars
<1>8. ASSUME NEW w \in Writers, WriteEnd(w) PROVE TypeOK'
  BY <1>8 DEF TypeOK, LockInv, WriteEnd, saveVars, diskVars, Lines
<1>9. CASE ThreadStart
  BY <1>9 DEF TypeOK, ThreadStart, memVars, diskVars, Savers
<1>10. CASE ThreadWake
  BY <1>10 DEF TypeOK, ThreadWake, diskVars, Savers
<1>11. CASE ThreadLoop
  BY <1>11 DEF TypeOK, ThreadLoop, diskVars, Savers
<1>12. ASSUME NEW t \in Savers, Update(t) PROVE TypeOK'
  <2> USE DEF memVars, diskVars
  <2>1. CASE UpdateTest(t)
    BY <2>1 DEF TypeOK, UpdateTest, Returned
  <2>2. CASE UpdateOpen(t)
    BY <2>2, BlankType DEF TypeOK, UpdateOpen, FreeInodes
  <2>3. CASE UpdateOpenFails(t)
    BY <2>3 DEF TypeOK, UpdateOpenFails, SaveFails, Fault, Returned
  <2>4. ASSUME NEW v \in Vars, UpdateLine(t, v) PROVE TypeOK'
    BY <2>4 DEF TypeOK, UpdateLine, SeenBy, Lines
  <2>5. ASSUME stream[t] \in Inodes PROVE Flushed(t) \in [Vars -> Lines]
    BY <2>5 DEF TypeOK, Flushed
  <2>6. CASE UpdateFlush(t)
    BY <2>5, <2>6, BlankType, ZenonT(60) DEF TypeOK, UpdateFlush
  <2>7. CASE UpdateClose(t)
    BY <2>5, <2>7, BlankType, ZenonT(60) DEF TypeOK, UpdateClose
  <2>8. CASE UpdateCloseFails(t)
    BY <2>8, BlankType DEF TypeOK, UpdateCloseFails, SaveFails, Fault
  <2>9. CASE UpdateRename(t)
    BY <2>9 DEF TypeOK, UpdateRename, Returned
  <2>10. CASE UpdateRenameFails(t)
    BY <2>10 DEF TypeOK, UpdateRenameFails, Fault, Returned
  <2> QED
    BY <1>12, <2>1, <2>2, <2>3, <2>4, <2>6, <2>7, <2>8, <2>9, <2>10 DEF Update
<1>13. CASE UNCHANGED vars
  BY <1>13 DEF TypeOK, vars, memVars, saveVars, diskVars, faultVars
<1> QED
  BY <1>1, <1>2, <1>3, <1>5, <1>6, <1>7, <1>8, <1>9, <1>10, <1>11, <1>12, <1>13 DEF Next

\* No step of the code lets a thread into a critical section without the mutex.
LEMMA LockStep == TypeOK /\ LockInv /\ [Next]_vars => LockInv'
<1> SUFFICES ASSUME TypeOK, LockInv, [Next]_vars PROVE LockInv'
  OBVIOUS
<1> USE PersistenceAssumption DEF TypeOK, LockInv, Savers
<1>1. CASE LoadPersistentState
  BY <1>1 DEF LoadPersistentState
<1>2. CASE TerminatePersistentState
  BY <1>2 DEF TerminatePersistentState, saveVars
<1>3. CASE JoinPersistThread
  BY <1>3 DEF JoinPersistThread, memVars, saveVars
<1>4. CASE ProcessEnds
  BY <1>4 DEF ProcessEnds
<1>5. CASE Exit
  BY <1>4, <1>5 DEF Exit
<1>6. CASE Crash
  BY <1>4, <1>6 DEF Crash
<1>7. ASSUME NEW w \in Writers, NEW v \in Vars, NEW x \in Versions, WriteBegin(w, v, x)
      PROVE  LockInv'
  BY <1>7 DEF WriteBegin, saveVars
<1>8. ASSUME NEW w \in Writers, WriteEnd(w) PROVE LockInv'
  BY <1>8 DEF WriteEnd, saveVars
<1>9. CASE ThreadStart
  BY <1>9 DEF ThreadStart, memVars
<1>10. CASE ThreadWake
  BY <1>10 DEF ThreadWake
<1>11. CASE ThreadLoop
  BY <1>11 DEF ThreadLoop
<1>12. ASSUME NEW t \in Savers, Update(t) PROVE LockInv'
  <2>1. UNCHANGED <<main, memVars>>
    BY <1>12 DEF Update, UpdateTest, UpdateOpen, UpdateOpenFails, UpdateLine, UpdateFlush,
         UpdateClose, UpdateCloseFails, UpdateRename, UpdateRenameFails
  <2>2. pc[t] # "idle" \/ t # PersistThread => 
          /\ pc'[PersistThread] = "idle" <=> pc[PersistThread] = "idle"
          /\ pc'[PersistThread] \in {"test", "open", "writing", "rename", "clear"} <=>
               pc[PersistThread] \in {"test", "open", "writing", "rename", "clear"}
    BY <1>12 DEF Update, UpdateTest, UpdateOpen, UpdateOpenFails, UpdateLine, UpdateFlush,
         UpdateClose, UpdateCloseFails, UpdateRename, UpdateRenameFails, Returned
  <2>3. pc[t] # "idle" \/ t # PersistThread
    BY <1>12 DEF Update, UpdateTest, UpdateOpen, UpdateOpenFails, UpdateLine, UpdateFlush,
         UpdateClose, UpdateCloseFails, UpdateRename, UpdateRenameFails
  <2> QED
    BY <2>1, <2>2, <2>3 DEF memVars
<1>13. CASE UNCHANGED vars
  BY <1>13 DEF vars, memVars, saveVars
<1> QED
  BY <1>1, <1>2, <1>3, <1>5, <1>6, <1>7, <1>8, <1>9, <1>10, <1>11, <1>12, <1>13 DEF Next

\* Every variable keeps its type, whatever threads save and whatever fails.
THEOREM TypeCorrect == Spec => []TypeOK
<1>1. TypeOK /\ LockInv /\ [Next]_vars => (TypeOK /\ LockInv)'
  BY TypeStep, LockStep
<1> QED
  BY InitType, <1>1, PTL DEF Spec

\* The mutex is held exactly in the critical sections of write_persistent_waveform
\* and of the thread, whatever threads save and whatever fails.
THEOREM LockCorrect == Spec => []LockInv
<1>1. TypeOK /\ LockInv /\ [Next]_vars => (TypeOK /\ LockInv)'
  BY TypeStep, LockStep
<1> QED
  BY InitType, <1>1, PTL DEF Spec

-------------------------------------------------------------------------------
(* A process whose only saver is the persistence thread, on a disk that may  *)
(* refuse to open or rename a file but keeps what is written to it.          *)

\* Nobody but the persistence thread saves, and what is written to a stream stays.
SoleSaver == Updaters = {} /\ "write" \notin FaultKinds

\* Before the first save there is no stream and nothing to say of the files.
LEMMA InitFile == Init => FileInv
<1> SUFFICES ASSUME Init PROVE FileInv
  OBVIOUS
<1>1. content \in [Inodes -> [Vars -> Versions]]
  BY BlankType DEF Init
<1>2. buf \in [Savers -> [Vars -> Versions]] /\ mem \in [Vars -> Versions]
  BY BlankType DEF Init
<1>3. mutex \notin Writers /\ pc[PersistThread] = "idle" /\ state = NoInode
  BY PersistenceAssumption DEF Init, Savers
<1> QED
  BY <1>1, <1>2, <1>3 DEF FileInv

\* No call on a stream or a file breaks what FileInv says of a save in progress.
LEMMA FileStep ==
  ASSUME SoleSaver, TypeOK, LockInv, FileInv, [Next]_vars
  PROVE  FileInv'
<1> USE PersistenceAssumption DEF SoleSaver, Savers
<1> DEFINE P == PersistThread
<1>t. Saved \in [Vars -> Versions]
  BY BlankType DEF FileInv, TypeOK, Saved
<1>1. CASE LoadPersistentState
  BY <1>1, <1>t DEF LoadPersistentState, diskVars, FileInv, Flushed, LockInv, TypeOK
<1>2. CASE TerminatePersistentState
  BY <1>2 DEF TerminatePersistentState, saveVars, diskVars, FileInv, Flushed
<1>3. CASE JoinPersistThread
  BY <1>3 DEF JoinPersistThread, memVars, saveVars, diskVars, FileInv, Flushed
<1>4. CASE ProcessEnds
  BY <1>4, BlankType DEF ProcessEnds, diskVars, FileInv
<1>5. CASE Exit
  BY <1>4, <1>5 DEF Exit
<1>6. CASE Crash
  BY <1>4, <1>6 DEF Crash
<1>7. ASSUME NEW w \in Writers, NEW v \in Vars, NEW x \in Versions, WriteBegin(w, v, x)
      PROVE  FileInv'
  BY <1>7 DEF WriteBegin, saveVars, diskVars, FileInv, Flushed, LockInv, TypeOK, Versions, Torn
<1>8. ASSUME NEW w \in Writers, WriteEnd(w) PROVE FileInv'
  BY <1>8 DEF WriteEnd, saveVars, diskVars, FileInv, Flushed, LockInv, TypeOK
<1>9. CASE ThreadStart
  BY <1>9 DEF ThreadStart, memVars, diskVars, FileInv, Flushed, LockInv, TypeOK
<1>10. CASE ThreadWake
  BY <1>10 DEF ThreadWake, diskVars, FileInv, Flushed, LockInv, TypeOK
<1>11. CASE ThreadLoop
  BY <1>11 DEF ThreadLoop, diskVars, FileInv, Flushed, LockInv, TypeOK
<1>12. CASE Update(P)
  <2> USE DEF memVars
  <2>1. CASE UpdateTest(P)
    BY <2>1 DEF UpdateTest, Returned, diskVars, FileInv, Flushed, TypeOK
  <2>2. CASE UpdateOpen(P)
    BY <2>2, BlankType DEF UpdateOpen, FreeInodes, FileInv, Flushed, TypeOK, Blank
  <2>3. CASE UpdateOpenFails(P)
    BY <2>3 DEF UpdateOpenFails, Returned, diskVars, FileInv, Flushed, TypeOK
  <2>4. ASSUME NEW v \in Vars, UpdateLine(P, v) PROVE FileInv'
    <3>1. \A w \in Writers : writing[w] = NoWrite
      BY <2>4 DEF UpdateLine, LockInv
    <3>2. SeenBy(P, v) = {mem[v]}
      BY <3>1 DEF SeenBy, NoWrite
    <3>3. buf' = [buf EXCEPT ![P][v] = mem[v]]
      BY <2>4, <3>2 DEF UpdateLine
    <3>4. buf' \in [Savers -> [Vars -> Versions]]
      BY <3>3 DEF FileInv
    <3>5. \A u \in Vars :
            Flushed(P)'[u] = IF u \in todo'[P] THEN 0 ELSE mem[u]
      BY <2>4, <3>3 DEF UpdateLine, diskVars, FileInv, Flushed, TypeOK
    <3> QED
      BY <2>4, <3>4, <3>5 DEF UpdateLine, diskVars, FileInv
  <2>5. CASE UpdateFlush(P)
    <3>1. stream[P] = backup /\ backup \in Inodes /\ stream' = stream /\ backup' = backup
      BY <2>5 DEF UpdateFlush, FileInv
    <3>2. Flushed(P) \in [Vars -> Versions]
      BY <3>1 DEF FileInv, Flushed
    <3>3. content'[backup] = Flushed(P) /\ content' \in [Inodes -> [Vars -> Versions]]
      BY <2>5, <3>1, <3>2 DEF UpdateFlush, FileInv
    <3>4. buf'[P] = Blank /\ buf' \in [Savers -> [Vars -> Versions]]
      BY <2>5, BlankType DEF UpdateFlush, FileInv
    <3>5. \A v \in Vars : Flushed(P)'[v] = Flushed(P)[v]
      BY <3>1, <3>2, <3>3, <3>4 DEF Flushed, Blank
    <3> QED
      BY <2>5, <3>1, <3>3, <3>4, <3>5 DEF UpdateFlush, FileInv
  <2>6. CASE UpdateClose(P)
    BY <2>6, BlankType DEF UpdateClose, FileInv, Flushed, TypeOK
  <2>7. CASE UpdateCloseFails(P)
    BY <2>7 DEF UpdateCloseFails, SaveFails, Fault
  <2>8. CASE UpdateRename(P)
    BY <2>8 DEF UpdateRename, Returned, FileInv, Flushed, TypeOK
  <2>9. CASE UpdateRenameFails(P)
    BY <2>9 DEF UpdateRenameFails, Returned, diskVars, FileInv, Flushed, TypeOK
  <2> QED
    BY <1>12, <2>1, <2>2, <2>3, <2>4, <2>5, <2>6, <2>7, <2>8, <2>9 DEF Update
<1>13. CASE UNCHANGED vars
  BY <1>13 DEF vars, memVars, saveVars, diskVars, FileInv, Flushed
<1> QED
  BY <1>1, <1>2, <1>3, <1>5, <1>6, <1>7, <1>8, <1>9, <1>10, <1>11, <1>12, <1>13 DEF Next

\* The inductive invariant: types, mutex and files together.
LEMMA Inductive ==
  ASSUME SoleSaver
  PROVE  Spec => [](TypeOK /\ LockInv /\ FileInv)
<1>1. TypeOK /\ LockInv /\ FileInv /\ [Next]_vars => (TypeOK /\ LockInv /\ FileInv)'
  BY TypeStep, LockStep, FileStep
<1> QED
  BY InitType, InitFile, <1>1, PTL DEF Spec

\* Once fclose returns the backup file is the whole table, and at no time is the
\* file being written the one of the name state_filename.
THEOREM SaveCorrect ==
  ASSUME SoleSaver
  PROVE  Spec => []FileInv
BY Inductive, PTL

\* A step changes the content of the state file only by giving the name to another file.
LEMMA RenameOnlyStep ==
  ASSUME SoleSaver, TypeOK, LockInv, FileInv, [Next]_vars,
         state' = state, state # NoInode
  PROVE  content'[state] = content[state]
<1> USE PersistenceAssumption DEF SoleSaver, Savers, TypeOK
<1>1. CASE UNCHANGED diskVars
  BY <1>1 DEF diskVars
<1>2. CASE UpdateOpen(PersistThread)
  BY <1>2 DEF UpdateOpen, FreeInodes, FileInv
<1>3. CASE UpdateFlush(PersistThread)
  BY <1>3 DEF UpdateFlush, FileInv
<1>4. CASE UpdateClose(PersistThread)
  BY <1>4 DEF UpdateClose, FileInv
<1>5. CASE UpdateRename(PersistThread)
  BY <1>5 DEF UpdateRename
<1>6. CASE UpdateCloseFails(PersistThread)
  BY <1>6 DEF UpdateCloseFails, SaveFails, Fault
<1>7. CASE UNCHANGED vars
  BY <1>7 DEF vars, diskVars
<1>8. CASE Update(PersistThread)
  BY <1>8, <1>1, <1>2, <1>3, <1>4, <1>5, <1>6
     DEF Update, UpdateTest, UpdateOpenFails, UpdateLine, UpdateRenameFails
<1> QED
  BY <1>1, <1>7, <1>8
     DEF Next, LoadPersistentState, TerminatePersistentState, JoinPersistThread, Exit,
         Crash, ProcessEnds, WriteBegin, WriteEnd, ThreadStart, ThreadWake, ThreadLoop

\* The file of the name state_filename is never written in place.
THEOREM RenameOnly ==
  ASSUME SoleSaver
  PROVE  Spec => OnlyReplacedByRename
<1>1. TypeOK /\ LockInv /\ FileInv /\ [Next]_vars
        => [state' = state /\ state # NoInode => content'[state] = content[state]]_vars
  BY RenameOnlyStep
<1> QED
  BY Inductive, <1>1, PTL DEF Spec, OnlyReplacedByRename

\* Who changes what the store is made of.
LEMMA StoreStep ==
  ASSUME SoleSaver, TypeOK, LockInv, FileInv, [Next]_vars
  PROVE  [Store!StoreNext]_Store!storeVars
<1> DEFINE smem == IF main = "down" THEN Saved ELSE mem
<1> USE PersistenceAssumption DEF SoleSaver, Savers, TypeOK
<1> SUFFICES \/ UNCHANGED <<smem, Saved>>
             \/ \E v \in Vars : smem' = [smem EXCEPT ![v] = @ + 1] /\ Saved' = Saved
             \/ Saved' = smem /\ smem' = smem
             \/ smem' = Saved /\ Saved' = Saved
  BY DEF Store!StoreNext, Store!StoreWrite, Store!StoreSave, Store!StoreRestart,
         Store!storeVars
<1>1. ASSUME UNCHANGED <<state, backup, content>> PROVE Saved' = Saved
  BY <1>1 DEF Saved
<1>2. CASE LoadPersistentState
  BY <1>1, <1>2 DEF LoadPersistentState, diskVars
<1>3. CASE Exit \/ Crash
  BY <1>1, <1>3 DEF Exit, Crash, ProcessEnds, diskVars
<1>4. ASSUME NEW w \in Writers, WriteEnd(w)
      PROVE  \/ UNCHANGED <<smem, Saved>>
             \/ \E v \in Vars : smem' = [smem EXCEPT ![v] = @ + 1] /\ Saved' = Saved
  <2> DEFINE v == writing[w].var
  <2>1. main # "down" /\ main' = main /\ Saved' = Saved /\ v \in Vars
    BY <1>1, <1>4 DEF WriteEnd, LockInv, diskVars
  <2>2. mem' = mem \/ mem' = [mem EXCEPT ![v] = @ + 1]
    <3>1. mem' = [mem EXCEPT ![v] = writing[w].value]
      BY <1>4 DEF WriteEnd
    <3>2. writing[w].value = mem[v] \/ writing[w].value = mem[v] + 1
      BY <1>4 DEF WriteEnd, FileInv
    <3>3. mem \in [Vars -> Versions]
      BY DEF FileInv
    <3>4. CASE writing[w].value = mem[v]
      BY <3>1, <3>3, <3>4
    <3>5. CASE writing[w].value = mem[v] + 1
      BY <3>1, <3>5
    <3> QED
      BY <3>2, <3>4, <3>5
  <2> QED
    BY <2>1, <2>2
<1>5. ASSUME pc[PersistThread] = "writing", UNCHANGED <<main, mem, state>>,
             \A i \in Inodes : i # backup => content'[i] = content[i]
      PROVE  UNCHANGED <<smem, Saved>>
  BY <1>5 DEF Saved, FileInv
<1>6. CASE Update(PersistThread)
  <2> USE DEF memVars
  <2>1. CASE UpdateOpen(PersistThread)
    BY <2>1 DEF UpdateOpen, FreeInodes, Saved, FileInv
  <2>2. CASE UpdateFlush(PersistThread)
    BY <2>2, <1>5 DEF UpdateFlush, FileInv
  <2>3. CASE UpdateClose(PersistThread)
    BY <2>3, <1>5 DEF UpdateClose, FileInv
  <2>4. CASE UpdateCloseFails(PersistThread)
    BY <2>4 DEF UpdateCloseFails, SaveFails, Fault
  <2>5. CASE UpdateRename(PersistThread)
    <3>1. Saved' = mem /\ main' = main /\ mem' = mem
      BY <2>5 DEF UpdateRename, Saved, FileInv
    <3>2. main # "down"
      BY <2>5 DEF UpdateRename, LockInv
    <3> QED
      BY <3>1, <3>2
  <2>6. CASE UNCHANGED <<main, memVars, diskVars>>
    BY <2>6, <1>1 DEF diskVars
  <2> QED
    BY <1>6, <2>1, <2>2, <2>3, <2>4, <2>5, <2>6
       DEF Update, UpdateTest, UpdateOpenFails, UpdateLine, UpdateRenameFails
<1>7. CASE TerminatePersistentState \/ JoinPersistThread
  BY <1>1, <1>7 DEF TerminatePersistentState, JoinPersistThread, memVars, diskVars
<1>8. ASSUME UNCHANGED <<main, mem, diskVars>> PROVE UNCHANGED <<smem, Saved>>
  BY <1>1, <1>8 DEF diskVars
<1>9. CASE ThreadStart \/ ThreadWake \/ ThreadLoop \/ UNCHANGED vars
  BY <1>8, <1>9 DEF ThreadStart, ThreadWake, ThreadLoop, vars, memVars
<1>10. ASSUME NEW w \in Writers, NEW v \in Vars, NEW x \in Versions, WriteBegin(w, v, x)
       PROVE  UNCHANGED <<smem, Saved>>
  BY <1>8, <1>10 DEF WriteBegin
<1> QED
  BY <1>2, <1>3, <1>4, <1>6, <1>7, <1>9, <1>10 DEF Next

\* The table and the state file implement the store: each save is the whole table
\* at one moment, and a restart finds the last save.
THEOREM Refinement ==
  ASSUME SoleSaver
  PROVE  Spec => ImplementsStore
<1>1. Init => Store!StoreInit
  BY DEF Init, Store!StoreInit, Saved, Blank
<1>2. TypeOK /\ LockInv /\ FileInv /\ [Next]_vars => [Store!StoreNext]_Store!storeVars
  BY StoreStep
<1> QED
  BY <1>1, <1>2, Inductive, PTL DEF Spec, ImplementsStore, Store!StoreSpec

-------------------------------------------------------------------------------
(* The flag is true to the difference between table and file until a save     *)
(* fails.                                                                    *)

CleanInv ==
  /\ CleanMeansSaved
  /\ \A w \in Writers :
       mutex = w /\ ~dirty => writing[w].value = mem[writing[w].var]
  /\ pc[PersistThread] = "clear" => Saved = mem \/ failed

\* No step sets or clears persistence_dirty wrongly while no save fails.
LEMMA CleanStep ==
  ASSUME SoleSaver, TypeOK, LockInv, FileInv, CleanInv, [Next]_vars
  PROVE  CleanInv'
<1> USE PersistenceAssumption DEF SoleSaver, Savers, TypeOK, faultVars
<1> DEFINE P == PersistThread
<1>1. ASSUME UNCHANGED diskVars PROVE Saved' = Saved
  BY <1>1 DEF Saved, diskVars
<1>2. CASE LoadPersistentState
  BY <1>1, <1>2 DEF LoadPersistentState, CleanInv, CleanMeansSaved, LockInv
<1>3. CASE Exit \/ Crash
  BY <1>1, <1>3 DEF Exit, Crash, ProcessEnds, CleanInv, CleanMeansSaved
<1>4. CASE TerminatePersistentState \/ JoinPersistThread
  BY <1>1, <1>4 DEF TerminatePersistentState, JoinPersistThread, memVars, saveVars,
                    CleanInv, CleanMeansSaved
<1>5. ASSUME NEW w \in Writers, NEW v \in Vars, NEW x \in Versions, WriteBegin(w, v, x)
      PROVE  CleanInv'
  BY <1>1, <1>5 DEF WriteBegin, saveVars, CleanInv, CleanMeansSaved, LockInv
<1>6. ASSUME NEW w \in Writers, WriteEnd(w) PROVE CleanInv'
  <2>1. ~dirty => mem' = mem
    BY <1>6 DEF WriteEnd, CleanInv, FileInv
  <2> QED
    BY <1>1, <1>6, <2>1 DEF WriteEnd, saveVars, CleanInv, CleanMeansSaved, LockInv
<1>7. CASE ThreadStart \/ ThreadWake \/ ThreadLoop
  BY <1>1, <1>7 DEF ThreadStart, ThreadWake, ThreadLoop, memVars, CleanInv,
                    CleanMeansSaved, LockInv
<1>8. CASE Update(P)
  <2> USE DEF memVars
  <2>1. CASE UpdateTest(P)
    BY <1>1, <2>1 DEF UpdateTest, Returned, CleanInv, CleanMeansSaved, LockInv
  <2>2. CASE UpdateOpen(P) \/ UpdateFlush(P) \/ UpdateClose(P)
    <3>1. Saved' = Saved
      BY <2>2 DEF UpdateOpen, FreeInodes, UpdateFlush, UpdateClose, FileInv, Saved
    <3>2. pc'[P] # "clear" /\ UNCHANGED <<main, memVars, failed>>
      BY <2>2 DEF UpdateOpen, UpdateFlush, UpdateClose
    <3> QED
      BY <3>1, <3>2 DEF CleanInv, CleanMeansSaved
  <2>3. ASSUME NEW v \in Vars, UpdateLine(P, v) PROVE CleanInv'
    BY <1>1, <2>3 DEF UpdateLine, CleanInv, CleanMeansSaved
  <2>4. CASE UpdateRename(P)
    <3>1. Saved' = mem /\ UNCHANGED <<main, memVars>>
      BY <2>4 DEF UpdateRename, Saved, FileInv
    <3> QED
      BY <3>1 DEF CleanInv, CleanMeansSaved
  <2>5. CASE UpdateOpenFails(P) \/ UpdateCloseFails(P) \/ UpdateRenameFails(P)
    <3>1. failed' /\ UNCHANGED <<main, memVars>>
      BY <2>5 DEF UpdateOpenFails, UpdateCloseFails, UpdateRenameFails, SaveFails
    <3> QED
      BY <3>1 DEF CleanInv, CleanMeansSaved
  <2> QED
    BY <1>8, <2>1, <2>2, <2>3, <2>4, <2>5 DEF Update
<1>9. CASE UNCHANGED vars
  BY <1>1, <1>9 DEF vars, memVars, saveVars, CleanInv, CleanMeansSaved
<1> QED
  BY <1>2, <1>3, <1>4, <1>5, <1>6, <1>7, <1>8, <1>9 DEF Next

\* As long as no save of the process has failed, a clear persistence_dirty means that
\* the state file holds what is in the table, at every point of every interleaving of
\* writers, thread, termination and crash.
THEOREM CleanCorrect ==
  ASSUME SoleSaver
  PROVE  Spec => []CleanMeansSaved
<1>1. Init => CleanInv
  BY PersistenceAssumption DEF Init, CleanInv, CleanMeansSaved, Savers
<1>2. TypeOK /\ LockInv /\ FileInv /\ CleanInv /\ [Next]_vars => CleanInv'
  BY CleanStep
<1>3. CleanInv => CleanMeansSaved
  BY DEF CleanInv
<1> QED
  BY <1>1, <1>2, <1>3, Inductive, PTL DEF Spec

===============================================================================
