---------------------------- MODULE InRecordProofs ----------------------------
(***************************************************************************)
(* Proofs about InRecord for any set of records and any number of writes   *)
(* to each of them.                                                        *)
(***************************************************************************)
EXTENDS InRecord, TLAPS

\* The hook walks after interruptAccept, and ends when it has visited every record; a store to
\* ioscan_pending that is not delayed has reached memory before the scan is asked for.
StartInv ==
  /\ hook # "before" => interruptAccept
  /\ hook = "before" => walked = {}
  /\ hook = "done" => walked = Records
  /\ \A r \in Records \ Relaxed : ~delayed[r] /\ (wpc[r] = "request" => pending[r])

\* A scan is still to begin: the driver will ask for it, it is queued or about to lock the
\* record, or the hook will come to the record and find it pending.
Owed(r) ==
  \/ wpc[r] \notin {"idle", "return"}
  \/ queued[r]
  \/ ppc[r] = "lock"
  \/ pending[r] /\ r \notin walked

\* What a scan has read of the record at each of its steps.
FieldsRead(r) ==
  CASE ppc[r] = "low"       -> {"high"}
    [] ppc[r] = "severity"  -> {"high", "low"}
    [] ppc[r] = "timestamp" -> {"high", "low", "severity"}
    [] OTHER -> {}

\* If no scan is to begin, then what is shown is what is there, and so is what the scan in
\* progress has read.
ScanOK(r) ==
  r \notin Relaxed /\ ~Owed(r) =>
    /\ \A f \in FieldsRead(r) : reading[r][f] = record[r][f]
    /\ ppc[r] = "idle" => \A f \in Fields : shown[r][f] = record[r][f]

\* The severity of a record is never behind its value; the value is read first.
SeverityOK(r) ==
  /\ \A f \in Fields : record[r][f] <= writes[r]
  /\ wpc[r] # "severity" => record[r]["severity"] = writes[r]
  /\ \A f \in {"high", "low"} :
       /\ record[r][f] <= record[r]["severity"]
       /\ f \in FieldsRead(r) =>
            reading[r][f] <= IF ppc[r] = "timestamp" THEN reading[r]["severity"]
                                                     ELSE record[r]["severity"]
       /\ shown[r][f] <= shown[r]["severity"]

\* The mutex of a record that the driver locks is held while its value is written or read, and
\* the halves of the value differ only while it is written.
TornOK(r) ==
  r \in locked =>
    /\ mutex[r] = "driver" <=> wpc[r] # "idle"
    /\ mutex[r] = "process" <=> ppc[r] \in {"high", "low"}
    /\ wpc[r] \notin {"severity", "high"} => record[r]["high"] = writes[r]
    /\ wpc[r] \notin {"severity", "high", "low"} => record[r]["low"] = writes[r]
    /\ ppc[r] = "low" => reading[r]["high"] = record[r]["high"]
    /\ ppc[r] \in {"severity", "timestamp"} => reading[r]["high"] = reading[r]["low"]
    /\ shown[r]["high"] = shown[r]["low"]

IInv ==
  /\ TypeOK
  /\ StartInv
  /\ \A r \in Records : ScanOK(r) /\ SeverityOK(r) /\ TornOK(r)

-------------------------------------------------------------------------------
(* The steps.                                                              *)

\* It holds before the IOC starts.
LEMMA InitIInv == Init => IInv
<1> SUFFICES ASSUME Init PROVE IInv
  OBVIOUS
<1> USE DEF Init
<1>1. Nothing \in [Fields -> Nat] /\ \A f \in Fields : Nothing[f] = 0
  BY DEF Nothing
<1>2. Types
  BY <1>1 DEF Types, Values
<1>3. \A r \in Records, f \in Fields :
        writes[r] = 0 /\ record[r][f] = 0 /\ reading[r][f] = 0 /\ shown[r][f] = 0
  BY <1>1
<1>4. StartInv
  BY DEF StartInv
<1>5. ASSUME NEW r \in Records
      PROVE  Bounded(r) /\ ScanOK(r) /\ SeverityOK(r) /\ TornOK(r)
  <2>1. FieldsRead(r) = {}
    BY DEF FieldsRead
  <2>2. MaxWrites[r] \in Nat /\ writes[r] = 0
    BY InRecordAssumption
  <2>3. wpc[r] = "idle" /\ ppc[r] = "idle" /\ mutex[r] = "free"
    OBVIOUS
  <2> HIDE DEF Init
  <2>4. Bounded(r)
    BY <1>3, <2>2 DEF Bounded
  <2>5. ScanOK(r) /\ SeverityOK(r) /\ TornOK(r)
    BY <1>3, <2>1, <2>2, <2>3 DEF ScanOK, SeverityOK, TornOK, Fields
  <2> QED
    BY <2>4, <2>5
<1> QED
  BY <1>2, <1>4, <1>5 DEF IInv, TypeOK

-------------------------------------------------------------------------------
(* What the actions that copy a field do to every field of every record.   *)

MoveDriver(r, from, to) ==
  wpc[r] = from /\ wpc' = [wpc EXCEPT ![r] = to]

MoveScan(r, from, to) ==
  ppc[r] = from /\ ppc' = [ppc EXCEPT ![r] = to]

FieldWritten(r) ==
  /\ \/ MoveDriver(r, "severity", "high")
     \/ MoveDriver(r, "high", "low")
     \/ MoveDriver(r, "low", "timestamp")
     \/ MoveDriver(r, "timestamp", "pending")
  /\ record' \in Values
  /\ \A q \in Records, f \in Fields :
       record'[q][f] = IF q = r /\ f = wpc[r] THEN writes[r] ELSE record[q][f]
  /\ UNCHANGED <<startVars, trigVars, mutexVars, writes, procVars>>

FieldRead(r, field, next) ==
  /\ MoveScan(r, field, next)
  /\ reading' \in Values
  /\ \A q \in Records, f \in Fields :
       reading'[q][f] = IF q = r /\ f = field THEN record[q][f] ELSE reading[q][f]
  /\ UNCHANGED <<startVars, locked, trigVars, writeVars, shown>>

ValueShown(r) ==
  /\ MoveScan(r, "timestamp", "idle")
  /\ shown' \in Values /\ reading' \in Values
  /\ \A q \in Records, f \in Fields :
       /\ shown'[q][f] = IF q # r THEN shown[q][f]
                         ELSE IF f = "timestamp" THEN record[q][f] ELSE reading[q][f]
       /\ reading'[q][f] = IF q = r THEN 0 ELSE reading[q][f]
  /\ UNCHANGED <<startVars, trigVars, mutexVars, writeVars>>

CopyEffects ==
  \A r \in Records :
    /\ WriteField(r) => FieldWritten(r)
    /\ ReadHigh(r) => FieldRead(r, "high", "low") /\ UNCHANGED mutex
    /\ ReadLow(r) => FieldRead(r, "low", "severity") /\ mutex' = [mutex EXCEPT ![r] = "free"]
    /\ ReadSeverity(r) => FieldRead(r, "severity", "timestamp") /\ UNCHANGED mutex
    /\ ReadTimestamp(r) => ValueShown(r)

\* Each of these actions copies its one field, and no other of any record.
LEMMA Copies == TypeOK /\ [Next]_vars => CopyEffects
<1> SUFFICES ASSUME TypeOK, NEW r \in Records
             PROVE  /\ WriteField(r) => FieldWritten(r)
                    /\ ReadHigh(r) => FieldRead(r, "high", "low") /\ UNCHANGED mutex
                    /\ ReadLow(r) => /\ FieldRead(r, "low", "severity")
                                     /\ mutex' = [mutex EXCEPT ![r] = "free"]
                    /\ ReadSeverity(r) => /\ FieldRead(r, "severity", "timestamp")
                                          /\ UNCHANGED mutex
                    /\ ReadTimestamp(r) => ValueShown(r)
  BY DEF CopyEffects
<1> USE DEF TypeOK, Types, Values, MoveDriver, MoveScan, mutexVars
<1>1. WriteField(r) => FieldWritten(r)
  <2> SUFFICES ASSUME WriteField(r) PROVE FieldWritten(r)
    OBVIOUS
  <2>1. /\ wpc[r] \in Fields /\ writes[r] \in Nat
        /\ wpc' = [wpc EXCEPT ![r] = AfterField[wpc[r]]]
        /\ record' = [record EXCEPT ![r] = [record[r] EXCEPT ![wpc[r]] = writes[r]]]
        /\ UNCHANGED <<startVars, trigVars, mutexVars, writes, procVars>>
    BY DEF WriteField
  <2>2. \/ MoveDriver(r, "severity", "high")
        \/ MoveDriver(r, "high", "low")
        \/ MoveDriver(r, "low", "timestamp")
        \/ MoveDriver(r, "timestamp", "pending")
    <3>1. /\ AfterField["severity"] = "high" /\ AfterField["high"] = "low"
          /\ AfterField["low"] = "timestamp" /\ AfterField["timestamp"] = "pending"
      BY DEF AfterField
    <3> QED
      BY <2>1, <3>1 DEF Fields
  <2>3. record' \in Values
    BY <2>1
  <2>4. \A q \in Records, f \in Fields :
          record'[q][f] = IF q = r /\ f = wpc[r] THEN writes[r] ELSE record[q][f]
    BY <2>1
  <2> QED
    BY <2>1, <2>2, <2>3, <2>4 DEF FieldWritten
<1>2. ReadHigh(r) => FieldRead(r, "high", "low") /\ UNCHANGED mutex
  BY DEF ReadHigh, FieldRead, Fields
<1>3. ReadLow(r) => FieldRead(r, "low", "severity") /\ mutex' = [mutex EXCEPT ![r] = "free"]
  BY SMTT(30) DEF ReadLow, FieldRead, Fields
<1>4. ReadSeverity(r) => FieldRead(r, "severity", "timestamp") /\ UNCHANGED mutex
  BY DEF ReadSeverity, FieldRead, Fields
<1>5. ReadTimestamp(r) => ValueShown(r)
  <2>1. Nothing \in [Fields -> Nat] /\ \A f \in Fields : Nothing[f] = 0
    BY DEF Nothing
  <2> QED
    BY <2>1, SMTT(30) DEF ReadTimestamp, ValueShown, Fields
<1> QED
  BY <1>1, <1>2, <1>3, <1>4, <1>5

\* Every action keeps the types.
LEMMA TypesStep == TypeOK /\ [Next]_vars => Types'
<1> SUFFICES ASSUME TypeOK, [Next]_vars PROVE Types'
  OBVIOUS
<1>a. CopyEffects
  BY Copies
<1> USE DEF TypeOK, Types, Values, startVars, mutexVars, trigVars, writeVars, procVars
<1>1. ASSUME NEW r \in Records, WriteBegin(r) PROVE Types'
  BY <1>1 DEF WriteBegin
<1>2. ASSUME NEW r \in Records, WriteField(r) PROVE Types'
  <2>1. FieldWritten(r)
    BY <1>2, <1>a DEF CopyEffects
  <2> QED
    BY <2>1 DEF FieldWritten, MoveDriver
<1>3. ASSUME NEW r \in Records, TriggerPending(r) PROVE Types'
  BY <1>3 DEF TriggerPending
<1>4. ASSUME NEW r \in Records, StoreReaches(r) PROVE Types'
  BY <1>4 DEF StoreReaches
<1>5. ASSUME NEW r \in Records, TriggerRequest(r) PROVE Types'
  BY <1>5 DEF TriggerRequest
<1>6. ASSUME NEW r \in Records, WriteReturns(r) PROVE Types'
  BY <1>6 DEF WriteReturns
<1>7. CASE AcceptInterrupts
  BY <1>7 DEF AcceptInterrupts
<1>8. CASE HookStart
  BY <1>8 DEF HookStart
<1>9. ASSUME NEW r \in Records, HookVisit(r) PROVE Types'
  BY <1>9 DEF HookVisit
<1>10. CASE HookDone
  BY <1>10 DEF HookDone
<1>11. ASSUME NEW r \in Records, ScanRecord(r) PROVE Types'
  BY <1>11 DEF ScanRecord
<1>12. ASSUME NEW r \in Records, ProcessLock(r) PROVE Types'
  BY <1>12 DEF ProcessLock
<1>13. ASSUME NEW r \in Records, ReadHigh(r) PROVE Types'
  <2>1. FieldRead(r, "high", "low") /\ UNCHANGED mutex
    BY <1>13, <1>a DEF CopyEffects
  <2> QED
    BY <2>1 DEF FieldRead, MoveScan
<1>14. ASSUME NEW r \in Records, ReadLow(r) PROVE Types'
  <2>1. FieldRead(r, "low", "severity") /\ mutex' = [mutex EXCEPT ![r] = "free"]
    BY <1>14, <1>a DEF CopyEffects
  <2> QED
    BY <2>1 DEF FieldRead, MoveScan
<1>15. ASSUME NEW r \in Records, ReadSeverity(r) PROVE Types'
  <2>1. FieldRead(r, "severity", "timestamp") /\ UNCHANGED mutex
    BY <1>15, <1>a DEF CopyEffects
  <2> QED
    BY <2>1 DEF FieldRead, MoveScan
<1>16. ASSUME NEW r \in Records, ReadTimestamp(r) PROVE Types'
  <2>1. ValueShown(r)
    BY <1>16, <1>a DEF CopyEffects
  <2> QED
    BY <2>1 DEF ValueShown, MoveScan
<1>17. CASE UNCHANGED vars
  BY <1>17 DEF vars
<1> QED
  BY <1>1, <1>2, <1>3, <1>4, <1>5, <1>6, <1>7, <1>8, <1>9, <1>10, <1>11, <1>12, <1>13,
     <1>14, <1>15, <1>16, <1>17
     DEF Next, Start, Write, Process

\* A write is counted only while the driver has one left; what is written, read and shown are
\* numbers of writes.
LEMMA BoundedStep ==
  ASSUME TypeOK, [Next]_vars, NEW q \in Records PROVE Bounded(q)'
<1>a. CopyEffects
  BY Copies
<1>b. MaxWrites[q] \in Nat
  BY InRecordAssumption
<1> USE <1>b DEF TypeOK, Types, Bounded, Values, Fields, startVars, mutexVars, trigVars,
        writeVars, procVars
<1>1. ASSUME NEW r \in Records, WriteBegin(r) PROVE Bounded(q)'
  BY <1>1 DEF WriteBegin
<1>2. ASSUME NEW r \in Records, WriteField(r) PROVE Bounded(q)'
  <2>1. FieldWritten(r)
    BY <1>2, <1>a DEF CopyEffects
  <2>2. CASE q = r
    BY <2>1, <2>2 DEF FieldWritten, MoveDriver
  <2>3. CASE q # r
    BY <2>1, <2>3 DEF FieldWritten, MoveDriver
  <2> QED
    BY <2>2, <2>3
<1>3. ASSUME NEW r \in Records, TriggerPending(r) PROVE Bounded(q)'
  BY <1>3 DEF TriggerPending
<1>4. ASSUME NEW r \in Records, StoreReaches(r) PROVE Bounded(q)'
  BY <1>4 DEF StoreReaches
<1>5. ASSUME NEW r \in Records, TriggerRequest(r) PROVE Bounded(q)'
  BY <1>5 DEF TriggerRequest
<1>6. ASSUME NEW r \in Records, WriteReturns(r) PROVE Bounded(q)'
  BY <1>6 DEF WriteReturns
<1>7. CASE AcceptInterrupts
  BY <1>7 DEF AcceptInterrupts
<1>8. CASE HookStart
  BY <1>8 DEF HookStart
<1>9. ASSUME NEW r \in Records, HookVisit(r) PROVE Bounded(q)'
  BY <1>9 DEF HookVisit
<1>10. CASE HookDone
  BY <1>10 DEF HookDone
<1>11. ASSUME NEW r \in Records, ScanRecord(r) PROVE Bounded(q)'
  BY <1>11 DEF ScanRecord
<1>12. ASSUME NEW r \in Records, ProcessLock(r) PROVE Bounded(q)'
  BY <1>12 DEF ProcessLock
<1>13. ASSUME NEW r \in Records, ReadHigh(r) PROVE Bounded(q)'
  <2>1. FieldRead(r, "high", "low") /\ UNCHANGED mutex
    BY <1>13, <1>a DEF CopyEffects
  <2>2. CASE q = r
    BY <2>1, <2>2 DEF FieldRead, MoveScan
  <2>3. CASE q # r
    BY <2>1, <2>3 DEF FieldRead, MoveScan
  <2> QED
    BY <2>2, <2>3
<1>14. ASSUME NEW r \in Records, ReadLow(r) PROVE Bounded(q)'
  <2>1. FieldRead(r, "low", "severity") /\ mutex' = [mutex EXCEPT ![r] = "free"]
    BY <1>14, <1>a DEF CopyEffects
  <2>2. CASE q = r
    BY <2>1, <2>2 DEF FieldRead, MoveScan
  <2>3. CASE q # r
    BY <2>1, <2>3 DEF FieldRead, MoveScan
  <2> QED
    BY <2>2, <2>3
<1>15. ASSUME NEW r \in Records, ReadSeverity(r) PROVE Bounded(q)'
  <2>1. FieldRead(r, "severity", "timestamp") /\ UNCHANGED mutex
    BY <1>15, <1>a DEF CopyEffects
  <2>2. CASE q = r
    BY <2>1, <2>2 DEF FieldRead, MoveScan
  <2>3. CASE q # r
    BY <2>1, <2>3 DEF FieldRead, MoveScan
  <2> QED
    BY <2>2, <2>3
<1>16. ASSUME NEW r \in Records, ReadTimestamp(r) PROVE Bounded(q)'
  <2>1. ValueShown(r)
    BY <1>16, <1>a DEF CopyEffects
  <2>2. CASE q = r
    BY <2>1, <2>2 DEF ValueShown, MoveScan
  <2>3. CASE q # r
    BY <2>1, <2>3 DEF ValueShown, MoveScan
  <2> QED
    BY <2>2, <2>3
<1>17. CASE UNCHANGED vars
  BY <1>17 DEF vars
<1> QED
  BY <1>1, <1>2, <1>3, <1>4, <1>5, <1>6, <1>7, <1>8, <1>9, <1>10, <1>11, <1>12, <1>13,
     <1>14, <1>15, <1>16, <1>17
     DEF Next, Start, Write, Process

\* The hook walks once and visits every record.
LEMMA StartStep == IInv /\ [Next]_vars => StartInv'
<1> SUFFICES ASSUME IInv, [Next]_vars PROVE StartInv'
  OBVIOUS
<1>a. CopyEffects
  BY Copies DEF IInv
<1> USE DEF IInv, TypeOK, Types, StartInv, Fields, startVars, mutexVars, trigVars,
        writeVars, procVars
<1>1. ASSUME NEW r \in Records, WriteBegin(r) PROVE StartInv'
  BY <1>1 DEF WriteBegin
<1>2. ASSUME NEW r \in Records, WriteField(r) PROVE StartInv'
  <2>1. FieldWritten(r)
    BY <1>2, <1>a DEF CopyEffects
  <2> QED
    BY <2>1 DEF FieldWritten, MoveDriver
<1>3. ASSUME NEW r \in Records, TriggerPending(r) PROVE StartInv'
  BY <1>3 DEF TriggerPending
<1>4. ASSUME NEW r \in Records, StoreReaches(r) PROVE StartInv'
  BY <1>4 DEF StoreReaches
<1>5. ASSUME NEW r \in Records, TriggerRequest(r) PROVE StartInv'
  BY <1>5 DEF TriggerRequest
<1>6. ASSUME NEW r \in Records, WriteReturns(r) PROVE StartInv'
  BY <1>6 DEF WriteReturns
<1>7. CASE AcceptInterrupts
  BY <1>7 DEF AcceptInterrupts
<1>8. CASE HookStart
  BY <1>8 DEF HookStart
<1>9. ASSUME NEW r \in Records, HookVisit(r) PROVE StartInv'
  BY <1>9 DEF HookVisit
<1>10. CASE HookDone
  BY <1>10 DEF HookDone
<1>11. ASSUME NEW r \in Records, ScanRecord(r) PROVE StartInv'
  BY <1>11 DEF ScanRecord
<1>12. ASSUME NEW r \in Records, ProcessLock(r) PROVE StartInv'
  BY <1>12 DEF ProcessLock
<1>13. ASSUME NEW r \in Records, ReadHigh(r) PROVE StartInv'
  <2>1. FieldRead(r, "high", "low") /\ UNCHANGED mutex
    BY <1>13, <1>a DEF CopyEffects
  <2> QED
    BY <2>1 DEF FieldRead, MoveScan
<1>14. ASSUME NEW r \in Records, ReadLow(r) PROVE StartInv'
  <2>1. FieldRead(r, "low", "severity") /\ mutex' = [mutex EXCEPT ![r] = "free"]
    BY <1>14, <1>a DEF CopyEffects
  <2> QED
    BY <2>1 DEF FieldRead, MoveScan
<1>15. ASSUME NEW r \in Records, ReadSeverity(r) PROVE StartInv'
  <2>1. FieldRead(r, "severity", "timestamp") /\ UNCHANGED mutex
    BY <1>15, <1>a DEF CopyEffects
  <2> QED
    BY <2>1 DEF FieldRead, MoveScan
<1>16. ASSUME NEW r \in Records, ReadTimestamp(r) PROVE StartInv'
  <2>1. ValueShown(r)
    BY <1>16, <1>a DEF CopyEffects
  <2> QED
    BY <2>1 DEF ValueShown, MoveScan
<1>17. CASE UNCHANGED vars
  BY <1>17 DEF vars
<1> QED
  BY <1>1, <1>2, <1>3, <1>4, <1>5, <1>6, <1>7, <1>8, <1>9, <1>10, <1>11, <1>12, <1>13,
     <1>14, <1>15, <1>16, <1>17
     DEF Next, Start, Write, Process

\* What a scan misses of a write, a later scan will find: the trigger comes after the fields,
\* and the request leaves the queue before they are read.
LEMMA ScanStep ==
  ASSUME IInv, [Next]_vars, NEW q \in Records PROVE ScanOK(q)'
<1>a. CopyEffects
  BY Copies DEF IInv
<1> USE DEF IInv, TypeOK, Types, StartInv, ScanOK, Owed, FieldsRead, Values, Fields,
        startVars, mutexVars, trigVars, writeVars, procVars
<1>1. ASSUME NEW r \in Records, WriteBegin(r) PROVE ScanOK(q)'
  BY <1>1 DEF WriteBegin
<1>2. ASSUME NEW r \in Records, WriteField(r) PROVE ScanOK(q)'
  <2>1. FieldWritten(r)
    BY <1>2, <1>a DEF CopyEffects
  <2>2. CASE q = r
    BY <2>1, <2>2 DEF FieldWritten, MoveDriver
  <2>3. CASE q # r
    BY <2>1, <2>3 DEF FieldWritten, MoveDriver
  <2> QED
    BY <2>2, <2>3
<1>3. ASSUME NEW r \in Records, TriggerPending(r) PROVE ScanOK(q)'
  BY <1>3 DEF TriggerPending
<1>4. ASSUME NEW r \in Records, StoreReaches(r) PROVE ScanOK(q)'
  BY <1>4 DEF StoreReaches
<1>5. ASSUME NEW r \in Records, TriggerRequest(r) PROVE ScanOK(q)'
  BY <1>5 DEF TriggerRequest
<1>6. ASSUME NEW r \in Records, WriteReturns(r) PROVE ScanOK(q)'
  BY <1>6 DEF WriteReturns
<1>7. CASE AcceptInterrupts
  BY <1>7 DEF AcceptInterrupts
<1>8. CASE HookStart
  BY <1>8 DEF HookStart
<1>9. ASSUME NEW r \in Records, HookVisit(r) PROVE ScanOK(q)'
  BY <1>9 DEF HookVisit
<1>10. CASE HookDone
  BY <1>10 DEF HookDone
<1>11. ASSUME NEW r \in Records, ScanRecord(r) PROVE ScanOK(q)'
  BY <1>11 DEF ScanRecord
<1>12. ASSUME NEW r \in Records, ProcessLock(r) PROVE ScanOK(q)'
  BY <1>12 DEF ProcessLock
<1>13. ASSUME NEW r \in Records, ReadHigh(r) PROVE ScanOK(q)'
  <2>1. FieldRead(r, "high", "low") /\ UNCHANGED mutex
    BY <1>13, <1>a DEF CopyEffects
  <2>2. CASE q = r
    BY <2>1, <2>2 DEF FieldRead, MoveScan
  <2>3. CASE q # r
    BY <2>1, <2>3 DEF FieldRead, MoveScan
  <2> QED
    BY <2>2, <2>3
<1>14. ASSUME NEW r \in Records, ReadLow(r) PROVE ScanOK(q)'
  <2>1. FieldRead(r, "low", "severity") /\ mutex' = [mutex EXCEPT ![r] = "free"]
    BY <1>14, <1>a DEF CopyEffects
  <2>2. CASE q = r
    <3>1. FieldsRead(q) = {"high"} /\ FieldsRead(q)' = {"high", "low"}
      BY <2>1, <2>2 DEF FieldRead, MoveScan
    <3>2. Owed(q)' <=> Owed(q)
      BY <2>1, <2>2 DEF FieldRead, MoveScan
    <3>3. /\ reading'[q]["high"] = reading[q]["high"]
          /\ reading'[q]["low"] = record[q]["low"]
          /\ UNCHANGED record /\ ppc'[q] # "idle"
      BY <2>1, <2>2 DEF FieldRead, MoveScan
    <3> HIDE DEF Owed, FieldsRead
    <3> QED
      BY <3>1, <3>2, <3>3
  <2>3. CASE q # r
    BY <2>1, <2>3 DEF FieldRead, MoveScan
  <2> QED
    BY <2>2, <2>3
<1>15. ASSUME NEW r \in Records, ReadSeverity(r) PROVE ScanOK(q)'
  <2>1. FieldRead(r, "severity", "timestamp") /\ UNCHANGED mutex
    BY <1>15, <1>a DEF CopyEffects
  <2>2. CASE q = r
    BY <2>1, <2>2, SMTT(30) DEF FieldRead, MoveScan
  <2>3. CASE q # r
    BY <2>1, <2>3 DEF FieldRead, MoveScan
  <2> QED
    BY <2>2, <2>3
<1>16. ASSUME NEW r \in Records, ReadTimestamp(r) PROVE ScanOK(q)'
  <2>1. ValueShown(r)
    BY <1>16, <1>a DEF CopyEffects
  <2>2. CASE q = r
    <3>1. FieldsRead(q) = {"high", "low", "severity"} /\ FieldsRead(q)' = {}
      BY <2>1, <2>2 DEF ValueShown, MoveScan
    <3>2. Owed(q)' <=> Owed(q)
      BY <2>1, <2>2 DEF ValueShown, MoveScan
    <3>3. /\ UNCHANGED record
          /\ \A f \in Fields :
               shown'[q][f] = IF f = "timestamp" THEN record[q][f] ELSE reading[q][f]
      BY <2>1, <2>2 DEF ValueShown
    <3> HIDE DEF Owed, FieldsRead
    <3> QED
      BY <3>1, <3>2, <3>3
  <2>3. CASE q # r
    BY <2>1, <2>3 DEF ValueShown, MoveScan
  <2> QED
    BY <2>2, <2>3
<1>17. CASE UNCHANGED vars
  BY <1>17 DEF vars
<1> QED
  BY <1>1, <1>2, <1>3, <1>4, <1>5, <1>6, <1>7, <1>8, <1>9, <1>10, <1>11, <1>12, <1>13,
     <1>14, <1>15, <1>16, <1>17
     DEF Next, Start, Write, Process

\* The severity is the first to be written and the last to be read before the timestamp.
LEMMA SeverityStep ==
  ASSUME IInv, [Next]_vars, NEW q \in Records PROVE SeverityOK(q)'
<1>a. CopyEffects
  BY Copies DEF IInv
<1> USE DEF IInv, TypeOK, Types, SeverityOK, FieldsRead, Values, Fields, startVars,
        mutexVars, trigVars, writeVars, procVars
<1>1. ASSUME NEW r \in Records, WriteBegin(r) PROVE SeverityOK(q)'
  BY <1>1 DEF WriteBegin
<1>2. ASSUME NEW r \in Records, WriteField(r) PROVE SeverityOK(q)'
  <2>1. FieldWritten(r)
    BY <1>2, <1>a DEF CopyEffects
  <2>2. CASE q = r
    BY <2>1, <2>2, SMTT(30) DEF FieldWritten, MoveDriver
  <2>3. CASE q # r
    BY <2>1, <2>3 DEF FieldWritten, MoveDriver
  <2> QED
    BY <2>2, <2>3
<1>3. ASSUME NEW r \in Records, TriggerPending(r) PROVE SeverityOK(q)'
  BY <1>3 DEF TriggerPending
<1>4. ASSUME NEW r \in Records, StoreReaches(r) PROVE SeverityOK(q)'
  BY <1>4 DEF StoreReaches
<1>5. ASSUME NEW r \in Records, TriggerRequest(r) PROVE SeverityOK(q)'
  BY <1>5 DEF TriggerRequest
<1>6. ASSUME NEW r \in Records, WriteReturns(r) PROVE SeverityOK(q)'
  BY <1>6 DEF WriteReturns
<1>7. CASE AcceptInterrupts
  BY <1>7 DEF AcceptInterrupts
<1>8. CASE HookStart
  BY <1>8 DEF HookStart
<1>9. ASSUME NEW r \in Records, HookVisit(r) PROVE SeverityOK(q)'
  BY <1>9 DEF HookVisit
<1>10. CASE HookDone
  BY <1>10 DEF HookDone
<1>11. ASSUME NEW r \in Records, ScanRecord(r) PROVE SeverityOK(q)'
  BY <1>11 DEF ScanRecord
<1>12. ASSUME NEW r \in Records, ProcessLock(r) PROVE SeverityOK(q)'
  BY <1>12 DEF ProcessLock
<1>13. ASSUME NEW r \in Records, ReadHigh(r) PROVE SeverityOK(q)'
  <2>1. FieldRead(r, "high", "low") /\ UNCHANGED mutex
    BY <1>13, <1>a DEF CopyEffects
  <2>2. CASE q = r
    BY <2>1, <2>2 DEF FieldRead, MoveScan
  <2>3. CASE q # r
    BY <2>1, <2>3 DEF FieldRead, MoveScan
  <2> QED
    BY <2>2, <2>3
<1>14. ASSUME NEW r \in Records, ReadLow(r) PROVE SeverityOK(q)'
  <2>1. FieldRead(r, "low", "severity") /\ mutex' = [mutex EXCEPT ![r] = "free"]
    BY <1>14, <1>a DEF CopyEffects
  <2>2. CASE q = r
    BY <2>1, <2>2 DEF FieldRead, MoveScan
  <2>3. CASE q # r
    BY <2>1, <2>3 DEF FieldRead, MoveScan
  <2> QED
    BY <2>2, <2>3
<1>15. ASSUME NEW r \in Records, ReadSeverity(r) PROVE SeverityOK(q)'
  <2>1. FieldRead(r, "severity", "timestamp") /\ UNCHANGED mutex
    BY <1>15, <1>a DEF CopyEffects
  <2>2. CASE q = r
    BY <2>1, <2>2 DEF FieldRead, MoveScan
  <2>3. CASE q # r
    BY <2>1, <2>3 DEF FieldRead, MoveScan
  <2> QED
    BY <2>2, <2>3
<1>16. ASSUME NEW r \in Records, ReadTimestamp(r) PROVE SeverityOK(q)'
  <2>1. ValueShown(r)
    BY <1>16, <1>a DEF CopyEffects
  <2>2. CASE q = r
    BY <2>1, <2>2 DEF ValueShown, MoveScan
  <2>3. CASE q # r
    BY <2>1, <2>3 DEF ValueShown, MoveScan
  <2> QED
    BY <2>2, <2>3
<1>17. CASE UNCHANGED vars
  BY <1>17 DEF vars
<1> QED
  BY <1>1, <1>2, <1>3, <1>4, <1>5, <1>6, <1>7, <1>8, <1>9, <1>10, <1>11, <1>12, <1>13,
     <1>14, <1>15, <1>16, <1>17
     DEF Next, Start, Write, Process

\* Where the driver holds the mutex, it is not reading, and where it is reading, the driver
\* waits.
LEMMA TornStep ==
  ASSUME IInv, [Next]_vars, NEW q \in Records PROVE TornOK(q)'
<1>a. CopyEffects
  BY Copies DEF IInv
<1> USE DEF IInv, TypeOK, Types, TornOK, Values, Fields, startVars, mutexVars, trigVars,
        writeVars, procVars
<1>1. ASSUME NEW r \in Records, WriteBegin(r) PROVE TornOK(q)'
  BY <1>1 DEF WriteBegin
<1>2. ASSUME NEW r \in Records, WriteField(r) PROVE TornOK(q)'
  <2>1. FieldWritten(r)
    BY <1>2, <1>a DEF CopyEffects
  <2>2. CASE q = r
    BY <2>1, <2>2 DEF FieldWritten, MoveDriver
  <2>3. CASE q # r
    BY <2>1, <2>3 DEF FieldWritten, MoveDriver
  <2> QED
    BY <2>2, <2>3
<1>3. ASSUME NEW r \in Records, TriggerPending(r) PROVE TornOK(q)'
  BY <1>3 DEF TriggerPending
<1>4. ASSUME NEW r \in Records, StoreReaches(r) PROVE TornOK(q)'
  BY <1>4 DEF StoreReaches
<1>5. ASSUME NEW r \in Records, TriggerRequest(r) PROVE TornOK(q)'
  BY <1>5 DEF TriggerRequest
<1>6. ASSUME NEW r \in Records, WriteReturns(r) PROVE TornOK(q)'
  BY <1>6 DEF WriteReturns
<1>7. CASE AcceptInterrupts
  BY <1>7 DEF AcceptInterrupts
<1>8. CASE HookStart
  BY <1>8 DEF HookStart
<1>9. ASSUME NEW r \in Records, HookVisit(r) PROVE TornOK(q)'
  BY <1>9 DEF HookVisit
<1>10. CASE HookDone
  BY <1>10 DEF HookDone
<1>11. ASSUME NEW r \in Records, ScanRecord(r) PROVE TornOK(q)'
  BY <1>11 DEF ScanRecord
<1>12. ASSUME NEW r \in Records, ProcessLock(r) PROVE TornOK(q)'
  BY <1>12 DEF ProcessLock
<1>13. ASSUME NEW r \in Records, ReadHigh(r) PROVE TornOK(q)'
  <2>1. FieldRead(r, "high", "low") /\ UNCHANGED mutex
    BY <1>13, <1>a DEF CopyEffects
  <2>2. CASE q = r
    BY <2>1, <2>2 DEF FieldRead, MoveScan
  <2>3. CASE q # r
    BY <2>1, <2>3 DEF FieldRead, MoveScan
  <2> QED
    BY <2>2, <2>3
<1>14. ASSUME NEW r \in Records, ReadLow(r) PROVE TornOK(q)'
  <2>1. FieldRead(r, "low", "severity") /\ mutex' = [mutex EXCEPT ![r] = "free"]
    BY <1>14, <1>a DEF CopyEffects
  <2>2. CASE q = r
    <3>1. /\ reading'[q]["high"] = reading[q]["high"]
          /\ reading'[q]["low"] = record[q]["low"]
          /\ ppc[q] = "low" /\ ppc'[q] = "severity"
          /\ mutex'[q] = "free"
          /\ UNCHANGED <<record, shown, wpc, writes, locked>>
      BY <2>1, <2>2 DEF FieldRead, MoveScan
    <3>2. q \in locked => wpc[q] = "idle" /\ record[q]["high"] = record[q]["low"]
      BY <3>1
    <3> QED
      BY <3>1, <3>2
  <2>3. CASE q # r
    BY <2>1, <2>3 DEF FieldRead, MoveScan
  <2> QED
    BY <2>2, <2>3
<1>15. ASSUME NEW r \in Records, ReadSeverity(r) PROVE TornOK(q)'
  <2>1. FieldRead(r, "severity", "timestamp") /\ UNCHANGED mutex
    BY <1>15, <1>a DEF CopyEffects
  <2>2. CASE q = r
    BY <2>1, <2>2 DEF FieldRead, MoveScan
  <2>3. CASE q # r
    BY <2>1, <2>3 DEF FieldRead, MoveScan
  <2> QED
    BY <2>2, <2>3
<1>16. ASSUME NEW r \in Records, ReadTimestamp(r) PROVE TornOK(q)'
  <2>1. ValueShown(r)
    BY <1>16, <1>a DEF CopyEffects
  <2>2. CASE q = r
    BY <2>1, <2>2, ZenonT(60) DEF ValueShown, MoveScan
  <2>3. CASE q # r
    BY <2>1, <2>3 DEF ValueShown, MoveScan
  <2> QED
    BY <2>2, <2>3
<1>17. CASE UNCHANGED vars
  BY <1>17 DEF vars
<1> QED
  BY <1>1, <1>2, <1>3, <1>4, <1>5, <1>6, <1>7, <1>8, <1>9, <1>10, <1>11, <1>12, <1>13,
     <1>14, <1>15, <1>16, <1>17
     DEF Next, Start, Write, Process

-------------------------------------------------------------------------------
(* The theorems.                                                           *)

\* The strengthened invariant holds in every reachable state.
LEMMA Inductive == Spec => []IInv
<1>1. IInv /\ [Next]_vars => IInv'
  BY TypesStep, BoundedStep, StartStep, ScanStep, SeverityStep, TornStep DEF IInv, TypeOK
<1> QED
  BY <1>1, InitIInv, PTL DEF Spec

\* Every variable has its type.
THEOREM InRecordTypes == Spec => []TypeOK
BY Inductive, PTL DEF IInv

\* trigger_record(), init_hook() and process_in_record(): no trigger is lost, also none that
\* comes before interruptAccept, while the hook walks, or while the record is processed.
THEOREM NoTriggerLost == Spec => []UpToDate
<1>1. IInv => UpToDate
  <2> SUFFICES ASSUME IInv, NEW r \in Records \ Relaxed, Settled(r)
               PROVE  shown[r] = record[r]
    BY DEF UpToDate
  <2>1. \A f \in Fields : shown[r][f] = record[r][f]
    BY DEF IInv, StartInv, ScanOK, Owed, Settled
  <2>2. shown[r] \in [Fields -> Nat] /\ record[r] \in [Fields -> Nat]
    BY DEF IInv, TypeOK, Types, Values
  <2> QED
    BY <2>1, <2>2
<1> QED
  BY <1>1, Inductive, PTL

\* _write_in_record() sets the severity first and process_in_record() reads it last: whatever
\* the interleaving, a value comes with its own severity or a later one.
THEOREM SeverityFollows == Spec => []SeverityNotOlder
<1>1. IInv => SeverityNotOlder
  <2> SUFFICES ASSUME IInv, NEW r \in Records
               PROVE  shown[r].severity >= shown[r].high /\ shown[r].severity >= shown[r].low
    BY DEF SeverityNotOlder
  <2>1. shown[r] \in [Fields -> Nat]
    BY DEF IInv, TypeOK, Types, Values
  <2>2. shown[r].high <= shown[r].severity /\ shown[r].low <= shown[r].severity
    BY DEF IInv, SeverityOK
  <2> QED
    BY <2>1, <2>2 DEF Fields
<1> QED
  BY <1>1, Inductive, PTL

\* A driver that holds the record mutex around its writes has none of them read half written.
THEOREM NeverTorn == Spec => []NotTorn
<1>1. IInv => NotTorn
  BY InRecordAssumption DEF IInv, TypeOK, Types, TornOK, NotTorn
<1> QED
  BY <1>1, Inductive, PTL
===============================================================================
