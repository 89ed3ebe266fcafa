------------------------------- MODULE Waveform -------------------------------
(***************************************************************************)
(* One waveform record of epics_device.c, its array in EPICS, the variable *)
(* of the driver that the adapter copies it to or from, and its persistent *)
(* variable: initialisation, puts of parts of the array, processing,       *)
(* WRITE_OUT_RECORD_WF and READ_RECORD_VALUE_WF from threads of the        *)
(* driver, and restarts.                                                   *)
(*                                                                         *)
(* What a put or an update of the driver writes are elements of its own,   *)
(* its number; 0 is what is there at the start.                            *)
(***************************************************************************)
EXTENDS Naturals, Sequences

CONSTANTS
  Clients,      \* Channel Access clients
  Drivers,      \* Threads of the driver
  Scan,         \* The scan task of EPICS
  Nobody,       \* A lock is free
  MaxLength,    \* max_length of the record, and NELM
  MaxChanges,   \* Bound: puts and updates
  MaxRestarts   \* Bound: restarts of the IOC

Actors  == Clients \union Drivers \union {Scan}
Lengths == 0 .. MaxLength
Arrays  == [1 .. MaxLength -> 0 .. MaxChanges]
Kinds   == {"write_var", "read_var", "action"}

ASSUME WaveformAssumption ==
  /\ MaxLength \in Nat /\ MaxChanges \in Nat /\ MaxRestarts \in Nat
  /\ Clients \intersect Drivers = {} /\ Scan \notin Clients \union Drivers
  /\ Nobody \notin Actors

VARIABLES
  published,      \* What the driver published: the adapter, whether it has a length
                  \* (PUBLISH_WF_..._LEN), and whether the record is persistent
  ioc,            \* "down", "up", or "dead" after an error that is fatal
  bptr, nord,     \* The array of the record and its length
  disable_write,  \* base->disable_write
  length,         \* nord of process_waveform(), a local variable
  variable,       \* info->context: the array of the driver
  current_length, \* *info->current_length
  table, file,    \* The persistent variable, in memory and in the state file
  scanLock,       \* Holder of the lock of dbScanLock()
  mutex,          \* Holder of base->mutex
  pc,             \* Where each thread is
  changes,        \* Number of puts and updates so far
  inStep,         \* History: processed since the start, and no quiet put after that
  offered,        \* History: what the driver has had in its variable, with its length
  restarts        \* Number of restarts so far

recordVars == <<bptr, nord, disable_write, length>>
driverVars == <<variable, current_length, offered>>
lockVars   == <<scanLock, mutex, pc>>
boundVars  == <<published, changes, restarts>>
vars       == <<recordVars, driverVars, lockVars, boundVars, ioc, table, file, inStep>>

Zeros == [i \in 1 .. MaxLength |-> 0]
Prefix(array, n) == SubSeq(array, 1, n)
Overlay(part, array) == [i \in 1 .. MaxLength |-> IF i \in DOMAIN part THEN part[i] ELSE array[i]]
Minimum(a, b) == IF a < b THEN a ELSE b

Init ==
  /\ published \in [kind : Kinds, has_length : BOOLEAN, persist : BOOLEAN]
  /\ published.kind = "action" => ~published.has_length
  /\ ioc = "down"
  /\ bptr = Zeros /\ nord = 0 /\ disable_write = FALSE /\ length = 0
  /\ variable = Zeros /\ current_length = 1 /\ offered = {<<Zeros, 1>>}
  /\ table = <<>> /\ file = <<>>
  /\ scanLock = Nobody /\ mutex = Nobody /\ pc = [a \in Actors |-> "idle"]
  /\ changes = 0 /\ restarts = 0 /\ inStep = FALSE

-------------------------------------------------------------------------------
(* The IOC.                                                                *)

\* Seeded fault: the length of the driver is taken as it is.
ReadLengthWhole == IF published.has_length THEN current_length ELSE MaxLength

\* _publish_waveform_read_var().
ReadLength == IF published.has_length THEN Minimum(current_length, MaxLength) ELSE MaxLength

\* The persistent value if it has a length, or else what the init method gives, which
\* the macros set to the reader; an action has none.  The driver is not called with a
\* persistent value: that is left to the processing at the start (PINI).
InitRecordWaveform ==
  /\ ioc = "down"
  /\ ioc' = "up"
  /\ table' = IF published.persist THEN file ELSE <<>>
  /\ bptr' = IF table' # <<>> THEN Overlay(file, Zeros)
             ELSE IF published.kind = "action" THEN Zeros ELSE variable
  /\ nord' = IF table' # <<>> THEN Len(file)
             ELSE IF published.kind = "action" THEN 0 ELSE ReadLength
  /\ UNCHANGED <<disable_write, length, driverVars, lockVars, boundVars, file, inStep>>

\* persistence.c writes the state file from the table, at any time.
SaveState ==
  /\ ioc = "up"
  /\ file # table
  /\ file' = table
  /\ UNCHANGED <<recordVars, driverVars, lockVars, boundVars, ioc, table, inStep>>

\* The process stops, at any point, and is started again.
Restart ==
  /\ restarts < MaxRestarts
  /\ ioc' = "down"
  /\ bptr' = Zeros /\ nord' = 0 /\ disable_write' = FALSE /\ length' = 0
  /\ variable' = Zeros /\ current_length' = 1 /\ offered' = {<<Zeros, 1>>}
  /\ table' = <<>>
  /\ scanLock' = Nobody /\ mutex' = Nobody /\ pc' = [a \in Actors |-> "idle"]
  /\ inStep' = FALSE
  /\ restarts' = restarts + 1
  /\ UNCHANGED <<published, changes, file>>

-------------------------------------------------------------------------------
(* Puts, scans, and reads by name.                                         *)

Begin(a, next) ==
  /\ ioc = "up"
  /\ scanLock = Nobody
  /\ pc[a] = "idle"
  /\ scanLock' = a
  /\ pc' = [pc EXCEPT ![a] = next]

\* dbPutField(): the first n elements and NORD, and then the record is processed.
Put(a, n) ==
  /\ Begin(a, "process")
  /\ changes < MaxChanges
  /\ changes' = changes + 1
  /\ bptr' = Overlay([i \in 1 .. n |-> changes'], bptr)
  /\ nord' = n
  /\ UNCHANGED <<length, driverVars, mutex, published, restarts, ioc, table, file>>

ClientPut(c, n) ==
  /\ Put(c, n)
  /\ UNCHANGED <<disable_write, inStep>>

\* The length was compared with max_length before.
WriteOutRecordWaveform(d, n, process) ==
  /\ Put(d, n)
  /\ disable_write' = ~process
  /\ inStep' = (inStep /\ process)

\* The record is processed without a put: at the start, by a trigger or a forward link.
ScanRecord ==
  /\ Begin(Scan, "process")
  /\ UNCHANGED <<recordVars, driverVars, boundVars, mutex, ioc, table, file, inStep>>

\* If the record has fewer elements than were asked for, the process dies.
ReadRecordWaveform(d, n) ==
  /\ ioc = "up"
  /\ scanLock = Nobody
  /\ pc[d] = "idle"
  /\ nord < n
  /\ ioc' = "dead"
  /\ UNCHANGED <<recordVars, driverVars, lockVars, boundVars, table, file, inStep>>

-------------------------------------------------------------------------------
(* process_waveform() in thread a, under the lock of the record.           *)

At(a, here, next) ==
  /\ ioc = "up"
  /\ pc[a] = here
  /\ pc' = [pc EXCEPT ![a] = next]

\* Seeded fault: a quiet put is not persistent.
BeginProcessQuietly(a) ==
  /\ At(a, "process", IF disable_write THEN "unlock" ELSE "lock")
  /\ UNCHANGED <<recordVars, driverVars, boundVars, scanLock, mutex, ioc, table, file, inStep>>

BeginProcess(a) ==
  /\ At(a, "process", IF disable_write THEN "persist" ELSE "lock")
  /\ UNCHANGED <<recordVars, driverVars, boundVars, scanLock, mutex, ioc, table, file, inStep>>

LockMutex(a) ==
  /\ At(a, "lock", "copy")
  /\ mutex = Nobody
  /\ mutex' = a
  /\ length' = nord
  /\ UNCHANGED <<bptr, nord, disable_write, driverVars, boundVars, scanLock, ioc, table, file,
                 inStep>>

\* Seeded fault: only the part that has been put is copied.
CopyArrayPart(a) ==
  /\ At(a, "copy", "length")
  /\ variable' = IF published.kind = "write_var"
                 THEN Overlay(Prefix(bptr, length), variable) ELSE variable
  /\ bptr' = IF published.kind = "read_var" THEN variable ELSE bptr
  /\ UNCHANGED <<nord, disable_write, length, current_length, offered, boundVars, scanLock,
                 mutex, ioc, table, file, inStep>>

\* The adapter copies all of the array, whatever its length; an action may do what it
\* likes with it, and here does nothing.
CopyArray(a) ==
  /\ At(a, "copy", "length")
  /\ variable' = IF published.kind = "write_var" THEN bptr ELSE variable
  /\ bptr' = IF published.kind = "read_var" THEN variable ELSE bptr
  /\ UNCHANGED <<nord, disable_write, length, current_length, offered, boundVars, scanLock,
                 mutex, ioc, table, file, inStep>>

\* A length that the driver does not take is set back to the maximum.
SetLength(a) ==
  /\ At(a, "length", "nord")
  /\ CASE published.kind = "write_var" /\ published.has_length ->
            current_length' = length /\ UNCHANGED length
       [] published.kind = "read_var" ->
            length' = ReadLength /\ UNCHANGED current_length
       [] OTHER ->
            length' = MaxLength /\ UNCHANGED current_length
  /\ mutex' = Nobody
  /\ UNCHANGED <<bptr, nord, disable_write, variable, offered, boundVars, scanLock, ioc, table,
                 file, inStep>>

SetNord(a) ==
  /\ At(a, "nord", "persist")
  /\ nord' = length
  /\ inStep' = TRUE
  /\ UNCHANGED <<bptr, disable_write, length, driverVars, boundVars, scanLock, mutex, ioc,
                 table, file>>

WritePersistentWaveform(a) ==
  /\ At(a, "persist", "unlock")
  /\ table' = IF published.persist THEN Prefix(bptr, nord) ELSE table
  /\ UNCHANGED <<recordVars, driverVars, boundVars, scanLock, mutex, ioc, file, inStep>>

\* Only _write_out_record() has set disable_write.
ScanUnlock(a) ==
  /\ At(a, "unlock", "idle")
  /\ disable_write' = FALSE
  /\ scanLock' = Nobody
  /\ UNCHANGED <<bptr, nord, length, driverVars, boundVars, mutex, ioc, table, file, inStep>>

Process(a) ==
  \/ BeginProcess(a) \/ LockMutex(a) \/ CopyArray(a) \/ SetLength(a) \/ SetNord(a)
  \/ WritePersistentWaveform(a) \/ ScanUnlock(a)

-------------------------------------------------------------------------------
(* The driver updates the variable of a reader, under the record mutex.    *)

UpdateArray(d) ==
  /\ published.kind = "read_var"
  /\ changes < MaxChanges
  /\ At(d, "idle", "update")
  /\ mutex = Nobody
  /\ mutex' = d
  /\ changes' = changes + 1
  /\ variable' = [i \in 1 .. MaxLength |-> changes']
  /\ UNCHANGED <<recordVars, current_length, offered, scanLock, published, restarts, ioc, table,
                 file, inStep>>

\* The length may be anything.
UpdateLength(d) ==
  /\ At(d, "update", "idle")
  /\ current_length' \in 0 .. MaxLength + 1
  /\ offered' = offered \union {<<variable, current_length'>>}
  /\ mutex' = Nobody
  /\ UNCHANGED <<recordVars, variable, scanLock, boundVars, ioc, table, file, inStep>>

Next ==
  \/ InitRecordWaveform
  \/ SaveState
  \/ Restart
  \/ \E c \in Clients, n \in Lengths : ClientPut(c, n)
  \/ \E d \in Drivers, n \in Lengths, process \in BOOLEAN : WriteOutRecordWaveform(d, n, process)
  \/ ScanRecord
  \/ \E d \in Drivers, n \in Lengths : ReadRecordWaveform(d, n)
  \/ \E a \in Actors : Process(a)
  \/ \E d \in Drivers : UpdateArray(d) \/ UpdateLength(d)

Spec == Init /\ [][Next]_vars

-------------------------------------------------------------------------------
(* Properties.                                                             *)

\* Every variable has its type; in particular no length is beyond that of the arrays,
\* whatever the driver puts into current_length.
TypeOK ==
  /\ published \in [kind : Kinds, has_length : BOOLEAN, persist : BOOLEAN]
  /\ ioc \in {"down", "up", "dead"}
  /\ {bptr, variable} \subseteq Arrays
  /\ nord \in Lengths /\ length \in Lengths /\ current_length \in Nat
  /\ {table, file} \subseteq Seq(0 .. MaxChanges)
  /\ Len(table) \in Lengths /\ Len(file) \in Lengths
  /\ scanLock \in Actors \union {Nobody} /\ mutex \in Actors \union {Nobody}
  /\ pc \in [Actors -> {"idle", "process", "lock", "copy", "length", "nord", "persist",
                        "unlock", "update"}]
  /\ changes \in 0 .. MaxChanges /\ restarts \in 0 .. MaxRestarts
  /\ disable_write \in BOOLEAN /\ inStep \in BOOLEAN

AtRest == ioc = "up" /\ scanLock = Nobody

Agree ==
  CASE published.kind = "write_var" ->
         variable = bptr /\ nord = IF published.has_length THEN current_length ELSE MaxLength
    [] published.kind = "read_var" ->
         \E o \in offered : bptr = o[1] /\
           nord = IF published.has_length THEN Minimum(o[2], MaxLength) ELSE MaxLength
    [] published.kind = "action" -> nord = MaxLength

\* Once the record was processed, and until a put that does not process it, the two
\* sides hold the same waveform: the driver has the whole array, the elements that a
\* short put "leaves undisturbed" too, with the length of the record; and a reader shows
\* an array and a length that the driver had in its variable at one moment.
BothSidesAgree == AtRest /\ inStep => Agree

\* The persistent value is the waveform that the record shows, also after a put without
\* processing, and the state file brings this waveform back after a stop at any point,
\* unless it was empty.
PersistFollows ==
  AtRest /\ published.persist =>
    \/ table = Prefix(bptr, nord)
    \/ table = <<>> /\ ~inStep
===============================================================================
