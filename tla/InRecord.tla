------------------------------- MODULE InRecord -------------------------------
(***************************************************************************)
(* IN records with data: _write_in_record() in a thread of the driver,     *)
(* trigger_record(), the I/O Intr scan and process_in_record() in EPICS,   *)
(* and the start of the IOC, before which EPICS ignores the scans that     *)
(* trigger_record() asks for and after which init_hook() repeats them.     *)
(*                                                                         *)
(* The driver writes every record from a thread of its own.  A value has   *)
(* two halves, copied one after the other; what a write puts in a field of *)
(* the record is the number of the write.                                  *)
(***************************************************************************)
EXTENDS Naturals

CONSTANTS
  Records,      \* The records, all published with .io_intr and .set_time
  MayLock,      \* Those whose driver may hold the record mutex around its writes
  Relaxed,      \* Those whose store to ioscan_pending the processor may delay
  MaxWrites     \* Bound: writes to each record, a function

Fields == {"severity", "high", "low", "timestamp"}

ASSUME InRecordAssumption ==
  MaxWrites \in [Records -> Nat] /\ MayLock \subseteq Records /\ Relaxed \subseteq Records

VARIABLES
  interruptAccept, \* EPICS takes scan requests
  hook,            \* init_hook(): "before", "walk", "done"
  walked,          \* Records that hash_table_walk() in the hook has visited
  pending,         \* base->ioscan_pending, as init_hook sees it
  delayed,         \* A store to ioscan_pending is still in the store buffer
  queued,          \* A scan of the record is queued
  locked,          \* Records whose driver does so, chosen once
  mutex,           \* Holder of base->mutex: "free", "driver" or "process"
  wpc,             \* Where the driver is in _write_in_record
  writes,          \* Number of writes
  record,          \* The fields in the memory of the driver
  ppc,             \* Where EPICS is in process_in_record
  reading,         \* The value as far as it has been read
  shown            \* What EPICS shows to its clients

startVars == <<interruptAccept, hook, walked>>
mutexVars == <<locked, mutex>>
trigVars  == <<pending, delayed, queued>>
writeVars == <<wpc, writes, record>>
procVars  == <<ppc, reading, shown>>
vars      == <<startVars, trigVars, mutexVars, writeVars, procVars>>

Values  == [Records -> [Fields -> Nat]]
Nothing == [f \in Fields |-> 0]

Types ==
  /\ interruptAccept \in BOOLEAN
  /\ hook \in {"before", "walk", "done"}
  /\ walked \subseteq Records
  /\ pending \in [Records -> BOOLEAN]
  /\ delayed \in [Records -> BOOLEAN]
  /\ queued \in [Records -> BOOLEAN]
  /\ locked \subseteq MayLock
  /\ mutex \in [Records -> {"free", "driver", "process"}]
  /\ wpc \in [Records -> {"idle", "severity", "high", "low", "timestamp", "pending",
                          "request", "return"}]
  /\ writes \in [Records -> Nat]
  /\ record \in Values /\ reading \in Values /\ shown \in Values
  /\ ppc \in [Records -> {"idle", "lock", "high", "low", "severity", "timestamp"}]

Bounded(r) ==
  /\ writes[r] <= MaxWrites[r]
  /\ \A f \in Fields : /\ record[r][f] <= MaxWrites[r]
                       /\ reading[r][f] <= MaxWrites[r]
                       /\ shown[r][f] <= MaxWrites[r]

\* Every variable has the type of what it stands for, and no more is written, read or shown
\* than the driver has to write.
TypeOK == Types /\ \A r \in Records : Bounded(r)

Init ==
  /\ interruptAccept = FALSE
  /\ hook = "before"
  /\ walked = {}
  /\ pending = [r \in Records |-> FALSE]
  /\ delayed = [r \in Records |-> FALSE]
  /\ queued = [r \in Records |-> FALSE]
  /\ locked \in SUBSET MayLock
  /\ mutex = [r \in Records |-> "free"]
  /\ wpc = [r \in Records |-> "idle"]
  /\ writes = [r \in Records |-> 0]
  /\ record = [r \in Records |-> Nothing]
  /\ ppc = [r \in Records |-> "idle"]
  /\ reading = [r \in Records |-> Nothing]
  /\ shown = [r \in Records |-> Nothing]

-------------------------------------------------------------------------------
(* The driver.                                                             *)

\* The call, from code that holds the mutex the record was published with or not.
WriteBegin(r) ==
  /\ wpc[r] = "idle"
  /\ writes[r] < MaxWrites[r]
  /\ r \in locked => mutex[r] = "free"
  /\ writes' = [writes EXCEPT ![r] = @ + 1]
  /\ mutex' = [mutex EXCEPT ![r] = IF r \in locked THEN "driver" ELSE @]
  /\ wpc' = [wpc EXCEPT ![r] = "severity"]
  /\ UNCHANGED <<startVars, locked, trigVars, record, procVars>>

\* set_record_severity, memcpy of the value, set_record_timestamp, in this order.
AfterField == [severity |-> "high", high |-> "low", low |-> "timestamp",
               timestamp |-> "pending"]

\* Seeded fault: the value of the next write is copied.
WriteFieldAhead(r) ==
  /\ wpc[r] \in Fields
  /\ record' = [record EXCEPT ![r][wpc[r]] = writes[r] + 1]
  /\ wpc' = [wpc EXCEPT ![r] = AfterField[wpc[r]]]
  /\ UNCHANGED <<startVars, trigVars, mutexVars, writes, procVars>>

\* Seeded fault: the severity is set after the value.
WriteSeverityLate(r) ==
  /\ wpc[r] \in Fields
  /\ record' = CASE wpc[r] = "severity"  -> record
                [] wpc[r] = "timestamp" -> [record EXCEPT ![r].severity = writes[r],
                                                          ![r].timestamp = writes[r]]
                [] OTHER -> [record EXCEPT ![r][wpc[r]] = writes[r]]
  /\ wpc' = [wpc EXCEPT ![r] = AfterField[wpc[r]]]
  /\ UNCHANGED <<startVars, trigVars, mutexVars, writes, procVars>>

\* A whole write: WRITE_IN_RECORD_SEV, which has no value, would leave out the two halves,
\* and a call with no timestamp the last field.
WriteField(r) ==
  /\ wpc[r] \in Fields
  /\ record' = [record EXCEPT ![r][wpc[r]] = writes[r]]
  /\ wpc' = [wpc EXCEPT ![r] = AfterField[wpc[r]]]
  /\ UNCHANGED <<startVars, trigVars, mutexVars, writes, procVars>>

\* trigger_record: ioscan_pending = true ...
TriggerPending(r) ==
  /\ wpc[r] = "pending"
  /\ \/ pending' = [pending EXCEPT ![r] = TRUE] /\ UNCHANGED delayed
     \/ r \in Relaxed /\ delayed' = [delayed EXCEPT ![r] = TRUE] /\ UNCHANGED pending
  /\ wpc' = [wpc EXCEPT ![r] = "request"]
  /\ UNCHANGED <<startVars, queued, mutexVars, writes, record, procVars>>

StoreReaches(r) ==
  /\ delayed[r]
  /\ pending' = [pending EXCEPT ![r] = TRUE]
  /\ delayed' = [delayed EXCEPT ![r] = FALSE]
  /\ UNCHANGED <<startVars, queued, mutexVars, writeVars, procVars>>

\* Seeded fault: a trigger that meets a scan in progress is dropped.
TriggerIfIdle(r) ==
  /\ wpc[r] = "request"
  /\ queued' = [queued EXCEPT ![r] = @ \/ (interruptAccept /\ ppc[r] = "idle")]
  /\ wpc' = [wpc EXCEPT ![r] = "return"]
  /\ UNCHANGED <<startVars, pending, delayed, mutexVars, writes, record, procVars>>

\* ... and then scanIoRequest, which does nothing before interruptAccept and
\* queues the scan, if it is not in the queue, after it.
TriggerRequest(r) ==
  /\ wpc[r] = "request"
  /\ queued' = [queued EXCEPT ![r] = @ \/ interruptAccept]
  /\ wpc' = [wpc EXCEPT ![r] = "return"]
  /\ UNCHANGED <<startVars, pending, delayed, mutexVars, writes, record, procVars>>

WriteReturns(r) ==
  /\ wpc[r] = "return"
  /\ mutex' = [mutex EXCEPT ![r] = IF r \in locked THEN "free" ELSE @]
  /\ wpc' = [wpc EXCEPT ![r] = "idle"]
  /\ UNCHANGED <<startVars, locked, trigVars, writes, record, procVars>>

-------------------------------------------------------------------------------
(* The start of the IOC.                                                   *)

AcceptInterrupts ==
  /\ ~interruptAccept
  /\ interruptAccept' = TRUE
  /\ UNCHANGED <<hook, walked, trigVars, mutexVars, writeVars, procVars>>

\* initHookAfterInterruptAccept.
HookStart ==
  /\ interruptAccept
  /\ hook = "before"
  /\ hook' = "walk"
  /\ UNCHANGED <<interruptAccept, walked, trigVars, mutexVars, writeVars, procVars>>

HookVisit(r) ==
  /\ hook = "walk"
  /\ r \notin walked
  /\ walked' = walked \union {r}
  /\ queued' = [queued EXCEPT ![r] = @ \/ pending[r]]
  /\ UNCHANGED <<interruptAccept, hook, pending, delayed, mutexVars, writeVars, procVars>>

HookDone ==
  /\ hook = "walk"
  /\ walked = Records
  /\ hook' = "done"
  /\ UNCHANGED <<interruptAccept, walked, trigVars, mutexVars, writeVars, procVars>>

-------------------------------------------------------------------------------
(* Processing.                                                             *)

\* The scan leaves the queue as its processing begins.
ScanRecord(r) ==
  /\ queued[r]
  /\ ppc[r] = "idle"
  /\ queued' = [queued EXCEPT ![r] = FALSE]
  /\ ppc' = [ppc EXCEPT ![r] = "lock"]
  /\ UNCHANGED <<startVars, pending, delayed, mutexVars, writeVars, reading, shown>>

\* Seeded fault: the record is read without its mutex.
ProcessUnlocked(r) ==
  /\ ppc[r] = "lock"
  /\ UNCHANGED mutex
  /\ ppc' = [ppc EXCEPT ![r] = "high"]
  /\ UNCHANGED <<startVars, locked, trigVars, writeVars, reading, shown>>

ProcessLock(r) ==
  /\ ppc[r] = "lock"
  /\ mutex[r] # "driver"
  /\ mutex' = [mutex EXCEPT ![r] = "process"]
  /\ ppc' = [ppc EXCEPT ![r] = "high"]
  /\ UNCHANGED <<startVars, locked, trigVars, writeVars, reading, shown>>

ReadHigh(r) ==
  /\ ppc[r] = "high"
  /\ reading' = [reading EXCEPT ![r].high = record[r].high]
  /\ ppc' = [ppc EXCEPT ![r] = "low"]
  /\ UNCHANGED <<startVars, trigVars, mutexVars, writeVars, shown>>

\* The end of the read method; the mutex is unlocked.
ReadLow(r) ==
  /\ ppc[r] = "low"
  /\ reading' = [reading EXCEPT ![r].low = record[r].low]
  /\ mutex' = [mutex EXCEPT ![r] = "free"]
  /\ ppc' = [ppc EXCEPT ![r] = "severity"]
  /\ UNCHANGED <<startVars, locked, trigVars, writeVars, shown>>

ReadSeverity(r) ==
  /\ ppc[r] = "severity"
  /\ reading' = [reading EXCEPT ![r].severity = record[r].severity]
  /\ ppc' = [ppc EXCEPT ![r] = "timestamp"]
  /\ UNCHANGED <<startVars, trigVars, mutexVars, writeVars, shown>>

\* Seeded fault: the request is cleared when the scan ends, not when it begins.
ReadTimestampClears(r) ==
  /\ ppc[r] = "timestamp"
  /\ shown' = [shown EXCEPT ![r] = [reading[r] EXCEPT !.timestamp = record[r].timestamp]]
  /\ reading' = [reading EXCEPT ![r] = Nothing]
  /\ ppc' = [ppc EXCEPT ![r] = "idle"]
  /\ queued' = [queued EXCEPT ![r] = FALSE]
  /\ UNCHANGED <<startVars, pending, delayed, mutexVars, writeVars>>

\* The timestamp is the last; then EPICS posts its monitors.
ReadTimestamp(r) ==
  /\ ppc[r] = "timestamp"
  /\ shown' = [shown EXCEPT ![r] = [reading[r] EXCEPT !.timestamp = record[r].timestamp]]
  /\ reading' = [reading EXCEPT ![r] = Nothing]
  /\ ppc' = [ppc EXCEPT ![r] = "idle"]
  /\ UNCHANGED <<startVars, trigVars, mutexVars, writeVars>>

Write(r) == WriteField(r) \/ TriggerPending(r) \/ TriggerRequest(r) \/ WriteReturns(r)
Process(r) == \/ ScanRecord(r) \/ ProcessLock(r) \/ ReadHigh(r) \/ ReadLow(r)
              \/ ReadSeverity(r) \/ ReadTimestamp(r)
Start == AcceptInterrupts \/ HookStart \/ (\E r \in Records : HookVisit(r)) \/ HookDone

Next ==
  \/ Start
  \/ \E r \in Records : WriteBegin(r) \/ Write(r) \/ StoreReaches(r) \/ Process(r)

Spec == Init /\ [][Next]_vars

\* iocInit goes on, a write that has begun ends, queued scans are processed.
FairSpec ==
  /\ Spec
  /\ WF_vars(Start)
  /\ \A r \in Records : WF_vars(Write(r)) /\ SF_vars(Process(r)) /\ WF_vars(StoreReaches(r))

-------------------------------------------------------------------------------
(* Properties.                                                             *)

Settled(r) ==
  hook = "done" /\ wpc[r] = "idle" /\ ~delayed[r] /\ ~queued[r] /\ ppc[r] = "idle"

\* When EPICS has nothing left to do, it shows what was written last, in every field:
\* no trigger is lost, neither one before interruptAccept nor one that meets a scan
\* which is queued already or half way through its processing.
UpToDate == \A r \in Records \ Relaxed : Settled(r) => shown[r] = record[r]

\* A value is never shown with the severity of an earlier write.
SeverityNotOlder ==
  \A r \in Records : shown[r].severity >= shown[r].high /\ shown[r].severity >= shown[r].low

\* The record mutex keeps a value from being read half written.
NotTorn == \A r \in locked : shown[r].high = shown[r].low

\* Every write is shown in the end, it or a later one.
WriteIsShown ==
  \A r \in Records \ Relaxed : \A n \in 1 .. MaxWrites[r] :
    writes[r] = n ~> shown[r].high >= n /\ shown[r].low >= n
===============================================================================
