--------------------------- MODULE OutRecordProofs ---------------------------
(***************************************************************************)
(* Proofs about OutRecord for any number of clients and driver threads,    *)
(* and any number of puts and restarts.                                    *)
(***************************************************************************)
EXTENDS OutRecord, TLAPS

\* The lock of the record is held by the thread that processes it, and nobody processes it
\* before it is bound.
LockInv ==
  /\ \A a \in Actors : pc[a] # "idle" <=> scanLock = a
  /\ ioc = "down" => scanLock = Nobody /\ ~initialised

\* disable_write is that of the put in progress: the driver is not called by a put that was
\* made with process = false, and by every other one.
QuietInv ==
  /\ disable_write <=> \E d \in Drivers : scanLock = d /\ quiet[d]
  /\ \A a \in Actors : quiet[a] => a \in Drivers
  /\ \A a \in Actors : quiet[a] => pc[a] \notin {"lock", "write", "restore"}

\* No value that is about is that of a put to come.
PutInv ==
  /\ {val, save_value, table, file} \union told \subseteq
       (0 .. puts) \union {InitValue, NoValue, Garbage}
  /\ \A a \in Threads :
       /\ pc[a] \in {"process", "lock", "write"} => val = puts /\ puts \notin told
       /\ quiet[a] /\ pc[a] # "idle" => val = puts /\ puts \notin told
       /\ ~quiet[a] /\ pc[a] \in {"save", "persist", "restore", "unlock"} => puts \in told

\* How far the value of an initialised record has come: what was not accepted is in VAL only,
\* until it is replaced by save_value, and the table follows save_value by one step.
ValueInv ==
  /\ initialised => save_value \in accepted \union {initial}
  /\ \A a \in Actors : pc[a] = "save" => val \in accepted
  /\ \A a \in Actors : pc[a] = "persist" => val = save_value /\ val \in accepted
  /\ initialised /\ (\A a \in Actors : pc[a] \in {"idle", "unlock"}) => val = save_value

TableInv ==
  /\ {table, file} \subseteq accepted \union {NoValue}
  /\ initialised /\ table # NoValue /\ (\A a \in Actors : pc[a] # "persist") =>
       table = save_value

IInv == TypeOK /\ LockInv /\ QuietInv /\ PutInv /\ ValueInv /\ TableInv

-------------------------------------------------------------------------------
(* The steps.                                                              *)

\* The values that are about at the start.
LEMMA InitIInv == Init => IInv
<1> SUFFICES ASSUME Init PROVE IInv
  OBVIOUS
<1> USE OutRecordAssumption DEF Init, Actors, Threads
<1>1. TypeOK
  <2>1. 0 \in Values /\ 0 \in 0 .. MaxPuts /\ 0 \in 0 .. MaxRestarts
    BY DEF Values, InitValue
  <2>2. pc \in [Actors -> {"idle"}] /\ quiet \in [Actors -> BOOLEAN]
    OBVIOUS
  <2> QED
    BY <2>1, <2>2 DEF TypeOK
<1>2. LockInv /\ QuietInv
  BY DEF LockInv, QuietInv
<1>3. PutInv
  BY DEF PutInv
<1>4. ValueInv /\ TableInv
  BY DEF ValueInv, TableInv
<1> QED
  BY <1>1, <1>2, <1>3, <1>4 DEF IInv

\* Values come from puts, from the state file and from the init method, and from nowhere else.
LEMMA TypeStep == TypeOK /\ [Next]_vars => TypeOK'
<1> SUFFICES ASSUME TypeOK, [Next]_vars PROVE TypeOK'
  OBVIOUS
<1> USE OutRecordAssumption DEF TypeOK, InitValue, Values, iocVars, valueVars, lockVars,
        storeVars, putVars, driverVars, Actors, Threads
<1>1. CASE InitRecord
  <2>1. 0 \in Values /\ InitValue \in Values
    OBVIOUS
  <2>2. val' \in Values \union {Garbage}
    BY <1>1, <2>1 DEF InitRecord, InitialValues
  <2>3. pc' = [pc EXCEPT ![Scan] = "process"]
    BY <1>1 DEF InitRecord, BindRecord
  <2> HIDE DEF Values, InitValue
  <2> QED
    BY <1>1, <2>2, <2>3 DEF InitRecord, BindRecord
<1>2. CASE InitRecordFails
  <2>1. val' \in Values \union {Garbage} /\ save_value' \in Values \union {Garbage}
    BY <1>2 DEF InitRecordFails
  <2>2. pc' = [pc EXCEPT ![Scan] = "process"] /\ initialised' \in BOOLEAN
    BY <1>2 DEF InitRecordFails, BindRecord
  <2> HIDE DEF Values, InitValue
  <2> QED
    BY <1>2, <2>1, <2>2 DEF InitRecordFails, BindRecord
<1>3. CASE SaveState
  BY <1>3 DEF SaveState
<1>4. CASE Restart
  <2>1. 0 \in Values /\ restarts' \in 0 .. MaxRestarts
    BY <1>4 DEF Restart
  <2>2. pc' \in [Actors -> {"idle"}] /\ quiet' \in [Actors -> BOOLEAN]
    BY <1>4 DEF Restart
  <2> HIDE DEF Values, InitValue
  <2> QED
    BY <1>4, <2>1, <2>2 DEF Restart
<1>5. ASSUME NEW c \in Clients, ClientPut(c) PROVE TypeOK'
  BY <1>5 DEF ClientPut, Put
<1>6. ASSUME NEW d \in Drivers, NEW process \in BOOLEAN, WriteOutRecord(d, process)
      PROVE  TypeOK'
  BY <1>6 DEF WriteOutRecord, Put
<1>7. ASSUME NEW d \in Drivers, DriverLocks(d) PROVE TypeOK'
  BY <1>7 DEF DriverLocks
<1>8. ASSUME NEW d \in Drivers, DriverUnlocks(d) PROVE TypeOK'
  BY <1>8 DEF DriverUnlocks
<1>9. ASSUME NEW a \in Actors, ProcessQuietly(a) PROVE TypeOK'
  BY <1>9 DEF ProcessQuietly, Step
<1>10. ASSUME NEW a \in Actors, ProcessOutRecord(a) PROVE TypeOK'
  BY <1>10 DEF ProcessOutRecord, Step
<1>11. ASSUME NEW a \in Actors, LockRecordMutex(a) PROVE TypeOK'
  BY <1>11 DEF LockRecordMutex, Step
<1>12. ASSUME NEW a \in Actors, WriteAccepted(a) PROVE TypeOK'
  BY <1>12 DEF WriteAccepted, Step
<1>13. ASSUME NEW a \in Actors, WriteRejected(a) PROVE TypeOK'
  BY <1>13 DEF WriteRejected, Step
<1>14. ASSUME NEW a \in Actors, SaveValue(a) PROVE TypeOK'
  BY <1>14 DEF SaveValue, Step
<1>15. ASSUME NEW a \in Actors, WritePersistentVariable(a) PROVE TypeOK'
  BY <1>15 DEF WritePersistentVariable, Step
<1>16. ASSUME NEW a \in Actors, RestoreValue(a) PROVE TypeOK'
  BY <1>16 DEF RestoreValue, Step
<1>17. ASSUME NEW a \in Actors, PutReturns(a) PROVE TypeOK'
  BY <1>17, ZenonT(60) DEF PutReturns, Step
<1>18. CASE UNCHANGED vars
  BY <1>18 DEF vars
<1> QED
  BY <1>1, <1>2, <1>3, <1>4, <1>5, <1>6, <1>7, <1>8, <1>9, <1>10, <1>11, <1>12, <1>13,
     <1>14, <1>15, <1>16, <1>17, <1>18
     DEF Next, ProcessStep

\* A thread begins to process the record under its lock, and leaves both together.
LEMMA LockStep == IInv /\ [Next]_vars => LockInv'
<1> SUFFICES ASSUME IInv, [Next]_vars PROVE LockInv'
  OBVIOUS
<1> USE OutRecordAssumption DEF IInv, TypeOK, LockInv, iocVars, valueVars, lockVars,
        storeVars, putVars, driverVars, Actors, Threads
<1>1. CASE InitRecord
  BY <1>1 DEF InitRecord, BindRecord, InitialValues
<1>2. CASE InitRecordFails
  BY <1>2 DEF InitRecordFails, BindRecord
<1>3. CASE SaveState
  BY <1>3 DEF SaveState
<1>4. CASE Restart
  BY <1>4 DEF Restart
<1>5. ASSUME NEW c \in Clients, ClientPut(c) PROVE LockInv'
  BY <1>5 DEF ClientPut, Put
<1>6. ASSUME NEW d \in Drivers, NEW process \in BOOLEAN, WriteOutRecord(d, process)
      PROVE  LockInv'
  BY <1>6 DEF WriteOutRecord, Put
<1>7. ASSUME NEW d \in Drivers, DriverLocks(d) PROVE LockInv'
  BY <1>7 DEF DriverLocks
<1>8. ASSUME NEW d \in Drivers, DriverUnlocks(d) PROVE LockInv'
  BY <1>8 DEF DriverUnlocks
<1>9. ASSUME NEW a \in Actors, ProcessQuietly(a) PROVE LockInv'
  BY <1>9 DEF ProcessQuietly, Step
<1>10. ASSUME NEW a \in Actors, ProcessOutRecord(a) PROVE LockInv'
  BY <1>10 DEF ProcessOutRecord, Step
<1>11. ASSUME NEW a \in Actors, LockRecordMutex(a) PROVE LockInv'
  BY <1>11 DEF LockRecordMutex, Step
<1>12. ASSUME NEW a \in Actors, WriteAccepted(a) PROVE LockInv'
  BY <1>12 DEF WriteAccepted, Step
<1>13. ASSUME NEW a \in Actors, WriteRejected(a) PROVE LockInv'
  BY <1>13 DEF WriteRejected, Step
<1>14. ASSUME NEW a \in Actors, SaveValue(a) PROVE LockInv'
  BY <1>14 DEF SaveValue, Step
<1>15. ASSUME NEW a \in Actors, WritePersistentVariable(a) PROVE LockInv'
  BY <1>15 DEF WritePersistentVariable, Step
<1>16. ASSUME NEW a \in Actors, RestoreValue(a) PROVE LockInv'
  BY <1>16 DEF RestoreValue, Step
<1>17. ASSUME NEW a \in Actors, PutReturns(a) PROVE LockInv'
  BY <1>17 DEF PutReturns, Step
<1>18. CASE UNCHANGED vars
  BY <1>18 DEF vars
<1> QED
  BY <1>1, <1>2, <1>3, <1>4, <1>5, <1>6, <1>7, <1>8, <1>9, <1>10, <1>11, <1>12, <1>13,
     <1>14, <1>15, <1>16, <1>17, <1>18
     DEF Next, ProcessStep

\* disable_write is set and reset under the lock of the record, so no other put meets it.
LEMMA QuietStep == IInv /\ [Next]_vars => QuietInv'
<1> SUFFICES ASSUME IInv, [Next]_vars PROVE QuietInv'
  OBVIOUS
<1> USE OutRecordAssumption DEF IInv, TypeOK, LockInv, QuietInv, iocVars, valueVars,
        lockVars, storeVars, putVars, driverVars, Actors, Threads
<1>1. CASE InitRecord
  BY <1>1 DEF InitRecord, BindRecord, InitialValues
<1>2. CASE InitRecordFails
  BY <1>2 DEF InitRecordFails, BindRecord
<1>3. CASE SaveState
  BY <1>3 DEF SaveState
<1>4. CASE Restart
  BY <1>4 DEF Restart
<1>5. ASSUME NEW c \in Clients, ClientPut(c) PROVE QuietInv'
  BY <1>5 DEF ClientPut, Put
<1>6. ASSUME NEW d \in Drivers, NEW process \in BOOLEAN, WriteOutRecord(d, process)
      PROVE  QuietInv'
  BY <1>6 DEF WriteOutRecord, Put
<1>7. ASSUME NEW d \in Drivers, DriverLocks(d) PROVE QuietInv'
  BY <1>7 DEF DriverLocks
<1>8. ASSUME NEW d \in Drivers, DriverUnlocks(d) PROVE QuietInv'
  BY <1>8 DEF DriverUnlocks
<1>9. ASSUME NEW a \in Actors, ProcessQuietly(a) PROVE QuietInv'
  BY <1>9 DEF ProcessQuietly, Step
<1>10. ASSUME NEW a \in Actors, ProcessOutRecord(a) PROVE QuietInv'
  BY <1>10 DEF ProcessOutRecord, Step
<1>11. ASSUME NEW a \in Actors, LockRecordMutex(a) PROVE QuietInv'
  BY <1>11 DEF LockRecordMutex, Step
<1>12. ASSUME NEW a \in Actors, WriteAccepted(a) PROVE QuietInv'
  BY <1>12 DEF WriteAccepted, Step
<1>13. ASSUME NEW a \in Actors, WriteRejected(a) PROVE QuietInv'
  BY <1>13 DEF WriteRejected, Step
<1>14. ASSUME NEW a \in Actors, SaveValue(a) PROVE QuietInv'
  BY <1>14 DEF SaveValue, Step
<1>15. ASSUME NEW a \in Actors, WritePersistentVariable(a) PROVE QuietInv'
  BY <1>15 DEF WritePersistentVariable, Step
<1>16. ASSUME NEW a \in Actors, RestoreValue(a) PROVE QuietInv'
  BY <1>16 DEF RestoreValue, Step
<1>17. ASSUME NEW a \in Actors, PutReturns(a) PROVE QuietInv'
  BY <1>17 DEF PutReturns, Step
<1>18. CASE UNCHANGED vars
  BY <1>18 DEF vars
<1> QED
  BY <1>1, <1>2, <1>3, <1>4, <1>5, <1>6, <1>7, <1>8, <1>9, <1>10, <1>11, <1>12, <1>13,
     <1>14, <1>15, <1>16, <1>17, <1>18
     DEF Next, ProcessStep

\* A put has a new value, and while it holds the lock nobody else changes VAL.
LEMMA PutStep == IInv /\ [Next]_vars => PutInv'
<1> SUFFICES ASSUME IInv, [Next]_vars PROVE PutInv'
  OBVIOUS
<1> USE OutRecordAssumption DEF IInv, TypeOK, LockInv, QuietInv, PutInv, Values, InitValue,
        iocVars, valueVars, lockVars, storeVars, putVars, driverVars, Actors, Threads
<1>1. CASE InitRecord
  <2>1. val' \in (0 .. puts) \union {InitValue, NoValue, Garbage}
    BY <1>1 DEF InitRecord, InitialValues
  <2>2. save_value' = val' /\ table' = file /\ UNCHANGED <<puts, told, file, quiet>>
    BY <1>1 DEF InitRecord, BindRecord
  <2>3. \A a \in Threads : pc[a] = "idle" /\ pc'[a] = "idle"
    BY <1>1 DEF InitRecord, BindRecord
  <2> QED
    BY <2>1, <2>2, <2>3
<1>2. CASE InitRecordFails
  <2>1. val' = 0 /\ save_value' = Garbage /\ table' = file /\ UNCHANGED <<puts, told, file, quiet>>
    BY <1>2 DEF InitRecordFails, BindRecord
  <2>2. 0 \in 0 .. puts
    OBVIOUS
  <2>3. \A a \in Threads : pc[a] = "idle" /\ pc'[a] = "idle"
    BY <1>2 DEF InitRecordFails, BindRecord
  <2> HIDE DEF Values, InitValue
  <2> QED
    BY <2>1, <2>2, <2>3
<1>3. CASE SaveState
  BY <1>3 DEF SaveState
<1>4. CASE Restart
  BY <1>4 DEF Restart
<1>5. ASSUME NEW c \in Clients, ClientPut(c) PROVE PutInv'
  BY <1>5 DEF ClientPut, Put
<1>6. ASSUME NEW d \in Drivers, NEW process \in BOOLEAN, WriteOutRecord(d, process)
      PROVE  PutInv'
  BY <1>6 DEF WriteOutRecord, Put
<1>7. ASSUME NEW d \in Drivers, DriverLocks(d) PROVE PutInv'
  BY <1>7 DEF DriverLocks
<1>8. ASSUME NEW d \in Drivers, DriverUnlocks(d) PROVE PutInv'
  BY <1>8 DEF DriverUnlocks
<1>9. ASSUME NEW a \in Actors, ProcessQuietly(a) PROVE PutInv'
  BY <1>9 DEF ProcessQuietly, Step
<1>10. ASSUME NEW a \in Actors, ProcessOutRecord(a) PROVE PutInv'
  BY <1>10 DEF ProcessOutRecord, Step
<1>11. ASSUME NEW a \in Actors, LockRecordMutex(a) PROVE PutInv'
  BY <1>11 DEF LockRecordMutex, Step
<1>12. ASSUME NEW a \in Actors, WriteAccepted(a) PROVE PutInv'
  BY <1>12 DEF WriteAccepted, Step
<1>13. ASSUME NEW a \in Actors, WriteRejected(a) PROVE PutInv'
  BY <1>13 DEF WriteRejected, Step
<1>14. ASSUME NEW a \in Actors, SaveValue(a) PROVE PutInv'
  BY <1>14 DEF SaveValue, Step
<1>15. ASSUME NEW a \in Actors, WritePersistentVariable(a) PROVE PutInv'
  BY <1>15 DEF WritePersistentVariable, Step
<1>16. ASSUME NEW a \in Actors, RestoreValue(a) PROVE PutInv'
  BY <1>16 DEF RestoreValue, Step
<1>17. ASSUME NEW a \in Actors, PutReturns(a) PROVE PutInv'
  BY <1>17 DEF PutReturns, Step
<1>18. CASE UNCHANGED vars
  BY <1>18 DEF vars
<1> QED
  BY <1>1, <1>2, <1>3, <1>4, <1>5, <1>6, <1>7, <1>8, <1>9, <1>10, <1>11, <1>12, <1>13,
     <1>14, <1>15, <1>16, <1>17, <1>18
     DEF Next, ProcessStep

\* save_value is replaced after the write method has accepted the value, and never else.
LEMMA ValueStep == IInv /\ [Next]_vars => ValueInv'
<1> SUFFICES ASSUME IInv, [Next]_vars PROVE ValueInv'
  OBVIOUS
<1> USE OutRecordAssumption DEF IInv, TypeOK, LockInv, ValueInv, iocVars, valueVars,
        lockVars, storeVars, putVars, driverVars, Actors, Threads
<1>1. CASE InitRecord
  BY <1>1 DEF InitRecord, BindRecord, InitialValues
<1>2. CASE InitRecordFails
  BY <1>2 DEF InitRecordFails, BindRecord
<1>3. CASE SaveState
  BY <1>3 DEF SaveState
<1>4. CASE Restart
  BY <1>4 DEF Restart
<1>5. ASSUME NEW c \in Clients, ClientPut(c) PROVE ValueInv'
  BY <1>5 DEF ClientPut, Put
<1>6. ASSUME NEW d \in Drivers, NEW process \in BOOLEAN, WriteOutRecord(d, process)
      PROVE  ValueInv'
  BY <1>6 DEF WriteOutRecord, Put
<1>7. ASSUME NEW d \in Drivers, DriverLocks(d) PROVE ValueInv'
  BY <1>7 DEF DriverLocks
<1>8. ASSUME NEW d \in Drivers, DriverUnlocks(d) PROVE ValueInv'
  BY <1>8 DEF DriverUnlocks
<1>9. ASSUME NEW a \in Actors, ProcessQuietly(a) PROVE ValueInv'
  BY <1>9 DEF ProcessQuietly, Step
<1>10. ASSUME NEW a \in Actors, ProcessOutRecord(a) PROVE ValueInv'
  BY <1>10 DEF ProcessOutRecord, Step
<1>11. ASSUME NEW a \in Actors, LockRecordMutex(a) PROVE ValueInv'
  BY <1>11 DEF LockRecordMutex, Step
<1>12. ASSUME NEW a \in Actors, WriteAccepted(a) PROVE ValueInv'
  BY <1>12 DEF WriteAccepted, Step
<1>13. ASSUME NEW a \in Actors, WriteRejected(a) PROVE ValueInv'
  BY <1>13 DEF WriteRejected, Step
<1>14. ASSUME NEW a \in Actors, SaveValue(a) PROVE ValueInv'
  BY <1>14 DEF SaveValue, Step
<1>15. ASSUME NEW a \in Actors, WritePersistentVariable(a) PROVE ValueInv'
  BY <1>15 DEF WritePersistentVariable, Step
<1>16. ASSUME NEW a \in Actors, RestoreValue(a) PROVE ValueInv'
  BY <1>16 DEF RestoreValue, Step
<1>17. ASSUME NEW a \in Actors, PutReturns(a) PROVE ValueInv'
  BY <1>17 DEF PutReturns, Step
<1>18. CASE UNCHANGED vars
  BY <1>18 DEF vars
<1> QED
  BY <1>1, <1>2, <1>3, <1>4, <1>5, <1>6, <1>7, <1>8, <1>9, <1>10, <1>11, <1>12, <1>13,
     <1>14, <1>15, <1>16, <1>17, <1>18
     DEF Next, ProcessStep

\* Between save_value and the table there is one step, which is made under the lock.
LEMMA TableStep == IInv /\ [Next]_vars => TableInv'
<1> SUFFICES ASSUME IInv, [Next]_vars PROVE TableInv'
  OBVIOUS
<1> USE OutRecordAssumption DEF IInv, TypeOK, LockInv, ValueInv, TableInv, iocVars,
        valueVars, lockVars, storeVars, putVars, driverVars, Actors, Threads
<1>1. CASE InitRecord
  BY <1>1 DEF InitRecord, BindRecord, InitialValues
<1>2. CASE InitRecordFails
  BY <1>2 DEF InitRecordFails, BindRecord
<1>3. CASE SaveState
  BY <1>3 DEF SaveState
<1>4. CASE Restart
  BY <1>4 DEF Restart
<1>5. ASSUME NEW c \in Clients, ClientPut(c) PROVE TableInv'
  BY <1>5 DEF ClientPut, Put
<1>6. ASSUME NEW d \in Drivers, NEW process \in BOOLEAN, WriteOutRecord(d, process)
      PROVE  TableInv'
  BY <1>6 DEF WriteOutRecord, Put
<1>7. ASSUME NEW d \in Drivers, DriverLocks(d) PROVE TableInv'
  BY <1>7 DEF DriverLocks
<1>8. ASSUME NEW d \in Drivers, DriverUnlocks(d) PROVE TableInv'
  BY <1>8 DEF DriverUnlocks
<1>9. ASSUME NEW a \in Actors, ProcessQuietly(a) PROVE TableInv'
  BY <1>9 DEF ProcessQuietly, Step
<1>10. ASSUME NEW a \in Actors, ProcessOutRecord(a) PROVE TableInv'
  BY <1>10 DEF ProcessOutRecord, Step
<1>11. ASSUME NEW a \in Actors, LockRecordMutex(a) PROVE TableInv'
  BY <1>11 DEF LockRecordMutex, Step
<1>12. ASSUME NEW a \in Actors, WriteAccepted(a) PROVE TableInv'
  BY <1>12 DEF WriteAccepted, Step
<1>13. ASSUME NEW a \in Actors, WriteRejected(a) PROVE TableInv'
  BY <1>13 DEF WriteRejected, Step
<1>14. ASSUME NEW a \in Actors, SaveValue(a) PROVE TableInv'
  BY <1>14 DEF SaveValue, Step
<1>15. ASSUME NEW a \in Actors, WritePersistentVariable(a) PROVE TableInv'
  BY <1>15 DEF WritePersistentVariable, Step
<1>16. ASSUME NEW a \in Actors, RestoreValue(a) PROVE TableInv'
  BY <1>16 DEF RestoreValue, Step
<1>17. ASSUME NEW a \in Actors, PutReturns(a) PROVE TableInv'
  BY <1>17 DEF PutReturns, Step
<1>18. CASE UNCHANGED vars
  BY <1>18 DEF vars
<1> QED
  BY <1>1, <1>2, <1>3, <1>4, <1>5, <1>6, <1>7, <1>8, <1>9, <1>10, <1>11, <1>12, <1>13,
     <1>14, <1>15, <1>16, <1>17, <1>18
     DEF Next, ProcessStep

-------------------------------------------------------------------------------
(* The theorems.                                                           *)

\* The inductive invariant holds of every behaviour.
LEMMA Inductive == Spec => []IInv
<1>1. IInv /\ [Next]_vars => IInv'
  BY TypeStep, LockStep, QuietStep, PutStep, ValueStep, TableStep DEF IInv
<1> QED
  BY <1>1, InitIInv, PTL DEF Spec

\* At rest nobody processes the record.
LEMMA RestIsIdle == IInv /\ Unlocked => \A a \in Actors : pc[a] = "idle"
BY OutRecordAssumption DEF IInv, LockInv, Unlocked

\* Every variable has its type.
THEOREM OutRecordTypes == Spec => []TypeOK
BY Inductive, PTL DEF IInv

\* process_out_record() and _write_out_record(): at rest the VAL field is save_value, a value
\* that the write method accepted, or that came without processing, or the first one.
THEOREM OutRecordRestores == Spec => []RejectedIsRestored
<1>1. IInv => RejectedIsRestored
  BY RestIsIdle DEF IInv, ValueInv, RejectedIsRestored, Restored
<1> QED
  BY <1>1, Inductive, PTL

\* The persistent value of a record at rest is its value, and no rejected value gets into
\* the table or the state file, whenever the IOC is stopped.
THEOREM OutRecordMirrors == Spec => []PersistMirrors
<1>1. IInv => PersistMirrors
  BY RestIsIdle DEF IInv, ValueInv, TableInv, PersistMirrors
<1> QED
  BY <1>1, Inductive, PTL

\* The write method of the driver is called for each put that asks for it, and for no other,
\* in whatever order the puts of the threads come.
THEOREM OutRecordTells == Spec => []ToldAsAsked
<1>1. IInv => ToldAsAsked
  BY DEF IInv, PutInv, ToldAsAsked
<1> QED
  BY <1>1, Inductive, PTL
===============================================================================
