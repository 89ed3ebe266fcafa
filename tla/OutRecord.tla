------------------------------ MODULE OutRecord ------------------------------
(***************************************************************************)
(* One OUT record of epics_device.c with its persistent variable: binding  *)
(* and initialisation, processing by way of the driver's write method,     *)
(* which may reject the value, WRITE_OUT_RECORD from a thread of the       *)
(* driver, with processing or without, and the restart of the IOC.         *)
(*                                                                         *)
(* Every put has a value of its own, the number of the put; 0 is the value *)
(* of a record that neither its persistent variable nor the driver's init  *)
(* method has initialised.                                                 *)
(***************************************************************************)
EXTENDS Naturals

CONSTANTS
  Clients,      \* Channel Access clients, each a thread of the IOC
  Drivers,      \* Threads of the driver that call WRITE_OUT_RECORD
  Nobody,       \* A lock is free
  NoValue,      \* The persistent variable is not set
  Garbage,      \* What malloc left in save_value
  BindingErrors,\* TRUE: the database may give the record a wrong SCAN field
  MaxPuts,      \* Bound: puts
  MaxRestarts   \* Bound: restarts of the IOC

Threads == Clients \union Drivers
Scan    == "scan"             \* The scan task, which does the PINI processing
Actors  == Threads \union {Scan}
InitValue == MaxPuts + 1       \* What the init method of the driver gives
Values  == 0 .. InitValue

ASSUME OutRecordAssumption ==
  /\ MaxPuts \in Nat /\ MaxRestarts \in Nat
  /\ BindingErrors \in BOOLEAN
  /\ Garbage \notin Values /\ NoValue \notin Values
  /\ Clients \intersect Drivers = {} /\ Scan \notin Threads
  /\ Nobody \notin Actors

VARIABLES
  ioc,          \* "down", or the record is bound and "up"
  initialised,  \* init_out_record() was called for the record
  val,          \* The VAL field
  save_value,   \* base->out.save_value
  disable_write,\* base->disable_write
  scanLock,     \* Holder of the lock of dbScanLock()
  mutex,        \* Holder of base->mutex
  pc,           \* Where each thread is in processing the record
  quiet,        \* Put of the thread was made with process = false
  table,        \* Its value in the table of persistent variables
  file,         \* Its value in the state file
  puts,         \* Number of puts so far
  initial,      \* The value the record came up with
  told,         \* Values the write method was called with since then
  accepted,     \* Values a write agreed to, or that came without processing
  restarts      \* Number of restarts so far

iocVars    == <<ioc, initialised, initial, restarts>>
valueVars  == <<val, save_value, disable_write>>
lockVars   == <<scanLock, mutex>>
storeVars  == <<table, file>>
putVars    == <<quiet, puts>>
driverVars == <<told, accepted>>
vars       == <<iocVars, valueVars, lockVars, pc, storeVars, putVars, driverVars>>

\* Every variable has the type of what it stands for; Garbage, which malloc() left in
\* save_value, is a value that VAL, the driver and the table may come to have.
TypeOK ==
  /\ ioc \in {"down", "up"} /\ initialised \in BOOLEAN
  /\ val \in Values \union {Garbage}
  /\ save_value \in Values \union {Garbage}
  /\ disable_write \in BOOLEAN
  /\ scanLock \in Actors \union {Nobody}
  /\ mutex \in Actors \union {Nobody}
  /\ pc \in [Actors -> {"idle", "process", "lock", "write", "save", "persist",
                        "restore", "unlock"}]
  /\ quiet \in [Actors -> BOOLEAN]
  /\ table \in Values \union {NoValue, Garbage}
  /\ file \in Values \union {NoValue, Garbage}
  /\ puts \in 0 .. MaxPuts
  /\ initial \in Values \union {Garbage}
  /\ told \subseteq Values \union {Garbage}
  /\ accepted \subseteq Values \union {Garbage}
  /\ restarts \in 0 .. MaxRestarts

Init ==
  /\ ioc = "down" /\ initialised = FALSE
  /\ val = 0
  /\ save_value = Garbage
  /\ disable_write = FALSE
  /\ scanLock = Nobody
  /\ mutex = Nobody
  /\ pc = [a \in Actors |-> "idle"]
  /\ quiet = [a \in Actors |-> FALSE]
  /\ table = NoValue
  /\ file = NoValue
  /\ puts = 0
  /\ initial = 0
  /\ told = {}
  /\ accepted = {}
  /\ restarts = 0

-------------------------------------------------------------------------------
(* The IOC.                                                                *)

\* Seeded fault: the result of reading the persistent value is not tested.
InitialValuesUntested == {file, InitValue}

\* The persistent value if there is one, otherwise what the init method of the driver
\* gives, otherwise 0.
InitialValues == IF file = NoValue THEN {0, InitValue} ELSE {file}

\* load_persistent_state and init_record_common.  The record is then to be processed
\* once by the scan task (PINI).
BindRecord ==
  /\ ioc = "down"
  /\ ioc' = "up"
  /\ table' = file
  /\ initial' = val'
  /\ pc' = [pc EXCEPT ![Scan] = "process"]
  /\ scanLock' = Scan
  /\ UNCHANGED <<restarts, disable_write, mutex, file, putVars, driverVars>>

\* init_out_record.
InitRecord ==
  /\ val' \in InitialValues
  /\ save_value' = val'
  /\ initialised' = TRUE
  /\ BindRecord

\* init_record_common finds that the scan menu does not fit ioscanpvt, after it
\* has bound the record: init_out_record is not called and save_value not set.
InitRecordFails ==
  /\ BindingErrors
  /\ val' = 0
  /\ save_value' = Garbage
  /\ initialised' = FALSE
  /\ BindRecord

\* The persistence thread saves the table.
SaveState ==
  /\ ioc = "up"
  /\ file # table
  /\ file' = table
  /\ UNCHANGED <<iocVars, valueVars, lockVars, pc, table, putVars, driverVars>>

\* The IOC stops, at any point of what its threads are doing.
Restart ==
  /\ ioc = "up"
  /\ restarts < MaxRestarts
  /\ restarts' = restarts + 1
  /\ ioc' = "down" /\ initialised' = FALSE
  /\ val' = 0 /\ save_value' = Garbage /\ disable_write' = FALSE
  /\ scanLock' = Nobody /\ mutex' = Nobody
  /\ pc' = [a \in Actors |-> "idle"]
  /\ quiet' = [a \in Actors |-> FALSE]
  /\ table' = NoValue
  /\ told' = {}
  /\ UNCHANGED <<file, puts, initial, accepted>>

-------------------------------------------------------------------------------
(* Puts and processing.                                                    *)

\* dbPutField: the scan lock, the value, the processing.
Put(a) ==
  /\ ioc = "up" /\ pc[a] = "idle" /\ scanLock = Nobody
  /\ puts < MaxPuts
  /\ puts' = puts + 1
  /\ scanLock' = a
  /\ val' = puts + 1
  /\ pc' = [pc EXCEPT ![a] = "process"]
  /\ UNCHANGED <<iocVars, save_value, mutex, storeVars, driverVars>>

\* A put from Channel Access.
ClientPut(c) ==
  /\ Put(c)
  /\ quiet' = [quiet EXCEPT ![c] = FALSE]
  /\ UNCHANGED disable_write

\* _write_out_record up to the processing that its dbPutField does.
WriteOutRecord(d, process) ==
  /\ Put(d)
  /\ quiet' = [quiet EXCEPT ![d] = ~process]
  /\ disable_write' = ~process

\* A thread goes on in process_out_record; the value is neither put nor loaded.
Step(a, from, to) ==
  /\ pc[a] = from
  /\ pc' = [pc EXCEPT ![a] = to]
  /\ UNCHANGED <<iocVars, file, putVars>>

\* With disable_write set the driver is not called.
ProcessQuietly(a) ==
  /\ Step(a, "process", "save")
  /\ disable_write
  /\ accepted' = accepted \union {val}
  /\ UNCHANGED <<valueVars, lockVars, table, told>>

ProcessOutRecord(a) ==
  /\ Step(a, "process", "lock")
  /\ ~disable_write
  /\ UNCHANGED <<valueVars, lockVars, table, driverVars>>

LockRecordMutex(a) ==
  /\ Step(a, "lock", "write")
  /\ mutex = Nobody
  /\ mutex' = a
  /\ UNCHANGED <<valueVars, scanLock, table, driverVars>>

WriteAccepted(a) ==
  /\ Step(a, "write", "save")
  /\ told' = told \union {val}
  /\ accepted' = accepted \union {val}
  /\ mutex' = Nobody
  /\ UNCHANGED <<valueVars, scanLock, table>>

\* Seeded fault: the early return of a rejection leaves the mutex locked.
WriteRejectedLocked(a) ==
  /\ Step(a, "write", "restore")
  /\ told' = told \union {val}
  /\ UNCHANGED <<valueVars, lockVars, table, accepted>>

WriteRejected(a) ==
  /\ Step(a, "write", "restore")
  /\ told' = told \union {val}
  /\ mutex' = Nobody
  /\ UNCHANGED <<valueVars, scanLock, table, accepted>>

\* Seeded fault: a value written without processing is not made persistent.
SaveValueOnly(a) ==
  /\ Step(a, "save", IF quiet[a] THEN "unlock" ELSE "persist")
  /\ save_value' = val
  /\ UNCHANGED <<val, disable_write, lockVars, table, driverVars>>

SaveValue(a) ==
  /\ Step(a, "save", "persist")
  /\ save_value' = val
  /\ UNCHANGED <<val, disable_write, lockVars, table, driverVars>>

WritePersistentVariable(a) ==
  /\ Step(a, "persist", "unlock")
  /\ table' = val
  /\ UNCHANGED <<valueVars, lockVars, driverVars>>

\* Seeded fault: the rejected value is left in the record.
RestoreNothing(a) ==
  /\ Step(a, "restore", "unlock")
  /\ UNCHANGED <<valueVars, lockVars, table, driverVars>>

RestoreValue(a) ==
  /\ Step(a, "restore", "unlock")
  /\ val' = save_value
  /\ UNCHANGED <<save_value, disable_write, lockVars, table, driverVars>>

\* Seeded fault: disable_write is not reset.
PutReturnsQuiet(a) ==
  /\ Step(a, "unlock", "idle")
  /\ scanLock' = Nobody
  /\ UNCHANGED <<valueVars, mutex, table, driverVars>>

\* The end of the processing; _write_out_record also resets disable_write.
PutReturns(a) ==
  /\ Step(a, "unlock", "idle")
  /\ scanLock' = Nobody
  /\ disable_write' = IF a \in Drivers THEN FALSE ELSE disable_write
  /\ UNCHANGED <<val, save_value, mutex, table, driverVars>>

ProcessStep(a) ==
  \/ ProcessQuietly(a) \/ ProcessOutRecord(a)
  \/ LockRecordMutex(a) \/ WriteAccepted(a) \/ WriteRejected(a)
  \/ SaveValue(a) \/ WritePersistentVariable(a)
  \/ RestoreValue(a)
  \/ PutReturns(a)

\* A thread of the driver uses what the record mutex guards for itself.  It calls no
\* WRITE_OUT_RECORD meanwhile.
DriverLocks(d) ==
  /\ ioc = "up" /\ pc[d] = "idle" /\ mutex = Nobody
  /\ mutex' = d
  /\ UNCHANGED <<iocVars, valueVars, scanLock, pc, storeVars, putVars, driverVars>>

DriverUnlocks(d) ==
  /\ pc[d] = "idle" /\ mutex = d
  /\ mutex' = Nobody
  /\ UNCHANGED <<iocVars, valueVars, scanLock, pc, storeVars, putVars, driverVars>>

Next ==
  \/ InitRecord \/ InitRecordFails
  \/ SaveState
  \/ Restart
  \/ \E c \in Clients : ClientPut(c)
  \/ \E d \in Drivers, process \in BOOLEAN : mutex # d /\ WriteOutRecord(d, process)
  \/ \E d \in Drivers : DriverLocks(d) \/ DriverUnlocks(d)
  \/ \E a \in Actors : ProcessStep(a)

Spec == Init /\ [][Next]_vars

\* Threads run, and the record mutex is not held or handed around for ever.
FairSpec ==
  /\ Spec
  /\ \A a \in Actors : SF_vars(ProcessStep(a))
  /\ \A d \in Drivers : WF_vars(DriverUnlocks(d))

-------------------------------------------------------------------------------
(* Properties.                                                             *)

Unlocked == ioc = "up" /\ scanLock = Nobody
Restored == val = save_value /\ val \in accepted \union {initial}

\* Between puts the VAL field is what is restored after a rejected write, and it is a
\* value that was accepted, or the one the record came up with.
RejectedIsRestored == Unlocked /\ initialised => Restored

\* "If writing fails then restore saved value": whatever the record went through before.
RejectedIsAlwaysRestored == Unlocked => Restored

\* "All successful writes are mirrored to persistent storage", and no other: once a
\* write has succeeded the persistent value is the value of the record, and neither the
\* table nor, after a stop at any point, the state file holds a rejected value.
PersistMirrors ==
  /\ Unlocked /\ initialised /\ table # NoValue => table = val
  /\ {table, file} \subseteq accepted \union {NoValue}

\* A put that asks for processing reaches the driver's write method, also when another
\* thread writes the record with process = false at the same time, and only such a put
\* does: "if process is False then the generated process callback is suppressed".
ToldAsAsked ==
  \A a \in Threads :
    IF quiet[a] THEN pc[a] # "idle" => val \notin told
                ELSE pc[a] \in {"persist", "unlock"} => puts \in told

\* A put ends: no order of the scan lock and the record mutex blocks it for good, as
\* long as the driver does not write the record with the mutex in its hands.
PutEnds == \A a \in Threads : pc[a] = "process" ~> pc[a] = "idle"
===============================================================================
