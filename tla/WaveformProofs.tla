---------------------------- MODULE WaveformProofs ----------------------------
(***************************************************************************)
(* Proofs about Waveform for any number of clients and driver threads, any *)
(* length of the array and any number of puts, updates and restarts.       *)
(***************************************************************************)
EXTENDS Waveform, SequenceTheorems, TLAPS

Processing == {"process", "lock", "copy", "length", "nord", "persist", "unlock"}

\* The lock of the record and the record mutex are held in their sections and nowhere else;
\* only the variable of a reader is updated.
LockInv ==
  /\ \A a \in Actors : pc[a] \in Processing <=> scanLock = a
  /\ \A a \in Actors : pc[a] \in {"copy", "length", "update"} <=> mutex = a
  /\ \A a \in Actors : pc[a] = "update" => published.kind = "read_var"

\* Before iocInit() nothing is set, and nobody is at work.
DownInv ==
  ioc = "down" => table = <<>> /\ ~inStep /\ \A a \in Actors : pc[a] = "idle"

\* A quiet put is in progress while disable_write is set: it has not called the driver, and
\* the two sides need not agree.
QuietInv ==
  disable_write =>
    \E a \in Actors : scanLock = a /\ pc[a] \in {"process", "persist", "unlock"} /\ ~inStep

\* While nobody updates it, the variable of a reader has been offered as it is.
OfferedInv ==
  published.kind = "read_var" =>
    \/ <<variable, current_length>> \in offered
    \/ \E a \in Actors : pc[a] = "update"

\* What the adapter has done at each of its steps, and what is left of it.
CopyInv ==
  /\ \A a \in Actors : pc[a] = "length" =>
       variable = bptr \/ published.kind = "action"
  /\ \A a \in Actors : pc[a] = "nord" =>
       CASE published.kind = "write_var" ->
              variable = bptr /\ length = IF published.has_length THEN current_length ELSE MaxLength
         [] published.kind = "read_var" ->
              \E o \in offered : bptr = o[1] /\
                length = IF published.has_length THEN Minimum(o[2], MaxLength) ELSE MaxLength
         [] published.kind = "action" -> length = MaxLength
  /\ inStep /\ (\A a \in Actors : pc[a] \in Processing => pc[a] \in {"persist", "unlock"}) => Agree

\* The persistent value, when there is nobody between a put and its end.
TableInv ==
  published.persist /\ ioc # "down" /\ (\A a \in Actors : pc[a] \in Processing => pc[a] = "unlock") =>
    table = Prefix(bptr, nord) \/ (table = <<>> /\ ~inStep)

IInv == TypeOK /\ LockInv /\ DownInv /\ QuietInv /\ OfferedInv /\ CopyInv /\ TableInv

-------------------------------------------------------------------------------
(* Arrays and their parts.                                                 *)

\* The part of an array that is shown or saved is a sequence of its first elements.
LEMMA PrefixType ==
  ASSUME NEW array \in Arrays, NEW n \in Lengths
  PROVE  /\ Prefix(array, n) \in Seq(0 .. MaxChanges)
         /\ Len(Prefix(array, n)) = n
         /\ \A i \in 1 .. n : Prefix(array, n)[i] = array[i]
<1>1. \A i \in 1 .. n : array[i] \in 0 .. MaxChanges
  BY WaveformAssumption DEF Arrays, Lengths
<1>2. n \in Int /\ n >= 0
  BY WaveformAssumption DEF Lengths
<1> QED
  BY <1>1, <1>2, SubSeqProperties, Z3 DEF Prefix

\* A put of the first elements leaves an array.
LEMMA OverlayType ==
  ASSUME NEW part, NEW array \in Arrays, \A i \in DOMAIN part : part[i] \in 0 .. MaxChanges
  PROVE  Overlay(part, array) \in Arrays
BY DEF Overlay, Arrays

\* What a buffer holds at the start is an array.
LEMMA ZerosType == Zeros \in Arrays
BY WaveformAssumption DEF Zeros, Arrays

\* What was saved is what is shown after it was loaded.
LEMMA Reload ==
  ASSUME NEW s \in Seq(0 .. MaxChanges), Len(s) \in Lengths
  PROVE  /\ Overlay(s, Zeros) \in Arrays
         /\ Prefix(Overlay(s, Zeros), Len(s)) = s
<1>1. /\ DOMAIN s = 1 .. Len(s)
      /\ \A i \in 1 .. Len(s) : s[i] \in 0 .. MaxChanges
  BY LenProperties, ElementOfSeq
<1>2. Overlay(s, Zeros) \in Arrays
  BY <1>1, ZerosType, OverlayType
<1>3. \A i \in 1 .. Len(s) : Overlay(s, Zeros)[i] = s[i]
  BY <1>1, WaveformAssumption DEF Overlay, Lengths
<1>4. \A i \in 1 .. Len(s) : Prefix(Overlay(s, Zeros), Len(s))[i] = s[i]
  BY <1>2, <1>3, PrefixType
<1>5. /\ Prefix(Overlay(s, Zeros), Len(s)) \in Seq(0 .. MaxChanges)
      /\ Len(Prefix(Overlay(s, Zeros), Len(s))) = Len(s)
  BY <1>2, PrefixType
<1> HIDE DEF Prefix, Overlay
<1>6. Prefix(Overlay(s, Zeros), Len(s)) = s
  BY <1>4, <1>5, SeqEqual
<1> QED
  BY <1>2, <1>6

\* The length that a reader takes is one of the array.
LEMMA LengthType == TypeOK => ReadLength \in Lengths
BY WaveformAssumption DEF TypeOK, ReadLength, Lengths, Minimum

-------------------------------------------------------------------------------
(* Types.                                                                  *)

\* The types hold at the start.
LEMMA InitType == Init => TypeOK
<1> SUFFICES ASSUME Init PROVE TypeOK
  OBVIOUS
<1>1. /\ <<>> \in Seq(0 .. MaxChanges) /\ Len(<<>>) \in Lengths /\ 0 \in Lengths
      /\ 0 \in 0 .. MaxChanges /\ 0 \in 0 .. MaxRestarts
  BY EmptySeq, WaveformAssumption DEF Lengths
<1>2. pc \in [Actors -> {"idle"}]
  BY DEF Init
<1> QED
  BY <1>1, <1>2, ZerosType DEF Init, TypeOK

\* No step breaks the types; a length of the driver is cut before it is used.
LEMMA TypeStep == TypeOK /\ [Next]_vars => TypeOK'
<1> SUFFICES ASSUME TypeOK, [Next]_vars PROVE TypeOK'
  OBVIOUS
<1> USE WaveformAssumption DEF recordVars, driverVars, lockVars, boundVars
<1>1. CASE InitRecordWaveform
  <2>1. <<>> \in Seq(0 .. MaxChanges) /\ Len(<<>>) \in Lengths /\ 0 \in Lengths
    BY EmptySeq DEF Lengths
  <2>2. table' \in Seq(0 .. MaxChanges) /\ Len(table') \in Lengths
    BY <1>1, <2>1 DEF TypeOK, InitRecordWaveform
  <2>3. bptr' \in Arrays /\ nord' \in Lengths
    BY <1>1, <2>1, ZerosType, Reload, LengthType DEF TypeOK, InitRecordWaveform
  <2> QED
    BY <1>1, <2>2, <2>3 DEF TypeOK, InitRecordWaveform
<1>2. CASE SaveState
  BY <1>2 DEF TypeOK, SaveState
<1>3. CASE Restart
  <2>1. <<>> \in Seq(0 .. MaxChanges) /\ Len(<<>>) \in Lengths /\ 0 \in Lengths
    BY EmptySeq DEF Lengths
  <2>2. restarts' \in 0 .. MaxRestarts
    BY <1>3 DEF TypeOK, Restart
  <2>3. pc' \in [Actors -> {"idle"}]
    BY <1>3 DEF Restart
  <2>4. /\ {bptr', variable'} \subseteq Arrays /\ nord' \in Lengths /\ length' \in Lengths
        /\ current_length' \in Nat
    BY <1>3, <2>1, ZerosType DEF Restart
  <2>5. /\ {table', file'} \subseteq Seq(0 .. MaxChanges)
        /\ Len(table') \in Lengths /\ Len(file') \in Lengths
    BY <1>3, <2>1 DEF TypeOK, Restart
  <2> QED
    BY <1>3, <2>2, <2>3, <2>4, <2>5 DEF TypeOK, Restart
<1>4. ASSUME NEW a \in Actors, NEW n \in Lengths, Put(a, n), disable_write' \in BOOLEAN,
             inStep' \in BOOLEAN
      PROVE  TypeOK'
  <2>1. changes' \in 0 .. MaxChanges
    BY <1>4 DEF TypeOK, Put
  <2>2. bptr' \in Arrays
    BY <1>4, <2>1, OverlayType DEF TypeOK, Put
  <2> QED
    BY <1>4, <2>1, <2>2 DEF TypeOK, Put, Begin
<1>5. ASSUME NEW c \in Clients, NEW n \in Lengths, ClientPut(c, n) PROVE TypeOK'
  BY <1>4, <1>5 DEF TypeOK, ClientPut, Actors
<1>6. ASSUME NEW d \in Drivers, NEW n \in Lengths, NEW process \in BOOLEAN,
             WriteOutRecordWaveform(d, n, process)
      PROVE  TypeOK'
  BY <1>4, <1>6 DEF TypeOK, WriteOutRecordWaveform, Actors
<1>7. CASE ScanRecord
  BY <1>7 DEF TypeOK, ScanRecord, Begin, Actors
<1>8. ASSUME NEW d \in Drivers, NEW n \in Lengths, ReadRecordWaveform(d, n) PROVE TypeOK'
  BY <1>8 DEF TypeOK, ReadRecordWaveform
<1>9. ASSUME NEW a \in Actors, BeginProcess(a) PROVE TypeOK'
  BY <1>9 DEF TypeOK, BeginProcess, At
<1>10. ASSUME NEW a \in Actors, LockMutex(a) PROVE TypeOK'
  BY <1>10 DEF TypeOK, LockMutex, At
<1>11. ASSUME NEW a \in Actors, CopyArray(a) PROVE TypeOK'
  BY <1>11 DEF TypeOK, CopyArray, At
<1>12. ASSUME NEW a \in Actors, SetLength(a) PROVE TypeOK'
  <2>1. length' \in Lengths /\ current_length' \in Nat
    BY <1>12, LengthType DEF TypeOK, SetLength, Lengths, Kinds
  <2> QED
    BY <1>12, <2>1 DEF TypeOK, SetLength, At
<1>13. ASSUME NEW a \in Actors, SetNord(a) PROVE TypeOK'
  BY <1>13 DEF TypeOK, SetNord, At
<1>14. ASSUME NEW a \in Actors, WritePersistentWaveform(a) PROVE TypeOK'
  <2>1. table' \in Seq(0 .. MaxChanges) /\ Len(table') \in Lengths
    BY <1>14, PrefixType DEF TypeOK, WritePersistentWaveform
  <2> QED
    BY <1>14, <2>1 DEF TypeOK, WritePersistentWaveform, At
<1>15. ASSUME NEW a \in Actors, ScanUnlock(a) PROVE TypeOK'
  BY <1>15 DEF TypeOK, ScanUnlock, At
<1>16. ASSUME NEW d \in Drivers, UpdateArray(d) PROVE TypeOK'
  <2>1. changes' \in 0 .. MaxChanges
    BY <1>16 DEF TypeOK, UpdateArray
  <2>2. variable' \in Arrays
    BY <1>16, <2>1 DEF UpdateArray, Arrays
  <2> QED
    BY <1>16, <2>1, <2>2 DEF TypeOK, UpdateArray, At, Actors
<1>17. ASSUME NEW d \in Drivers, UpdateLength(d) PROVE TypeOK'
  BY <1>17 DEF TypeOK, UpdateLength, At, Actors
<1>18. CASE UNCHANGED vars
  BY <1>18 DEF TypeOK, vars
<1> QED
  BY <1>1, <1>2, <1>3, <1>5, <1>6, <1>7, <1>8, <1>9, <1>10, <1>11, <1>12, <1>13, <1>14, <1>15,
     <1>16, <1>17, <1>18 DEF Next, Process

\* Every variable has its type, whatever lengths the driver sets.
THEOREM WaveformTypes == Spec => []TypeOK
BY InitType, TypeStep, PTL DEF Spec

-------------------------------------------------------------------------------
(* The steps.                                                              *)

\* A thread takes a lock that is free, and leaves it where its section ends.
LEMMA LockStep == IInv /\ [Next]_vars => LockInv'
<1> SUFFICES ASSUME IInv, [Next]_vars PROVE LockInv'
  OBVIOUS
<1> USE WaveformAssumption
    DEF IInv, TypeOK, LockInv, DownInv, Processing,
        recordVars, driverVars, lockVars, boundVars
<1>1. CASE InitRecordWaveform
  BY <1>1 DEF InitRecordWaveform
<1>2. CASE SaveState
  BY <1>2 DEF SaveState
<1>3. CASE Restart
  BY <1>3 DEF Restart
<1>4. ASSUME NEW c \in Clients, NEW n \in Lengths, ClientPut(c, n)
      PROVE  LockInv'
  BY <1>4 DEF ClientPut, Put, Begin, Actors
<1>5. ASSUME NEW d \in Drivers, NEW n \in Lengths, NEW process \in BOOLEAN,
             WriteOutRecordWaveform(d, n, process)
      PROVE  LockInv'
  BY <1>5 DEF WriteOutRecordWaveform, Put, Begin, Actors
<1>6. CASE ScanRecord
  BY <1>6 DEF ScanRecord, Begin, Actors
<1>7. ASSUME NEW d \in Drivers, NEW n \in Lengths, ReadRecordWaveform(d, n)
      PROVE  LockInv'
  BY <1>7 DEF ReadRecordWaveform, Actors
<1>8. ASSUME NEW a \in Actors, BeginProcess(a) PROVE  LockInv'
  BY <1>8 DEF BeginProcess, At
<1>9. ASSUME NEW a \in Actors, LockMutex(a) PROVE  LockInv'
  BY <1>9 DEF LockMutex, At
<1>10. ASSUME NEW a \in Actors, CopyArray(a) PROVE  LockInv'
  BY <1>10 DEF CopyArray, At
<1>11. ASSUME NEW a \in Actors, SetLength(a) PROVE  LockInv'
  BY <1>11 DEF SetLength, At
<1>12. ASSUME NEW a \in Actors, SetNord(a) PROVE  LockInv'
  BY <1>12 DEF SetNord, At
<1>13. ASSUME NEW a \in Actors, WritePersistentWaveform(a) PROVE  LockInv'
  BY <1>13 DEF WritePersistentWaveform, At
<1>14. ASSUME NEW a \in Actors, ScanUnlock(a) PROVE  LockInv'
  BY <1>14 DEF ScanUnlock, At
<1>15. ASSUME NEW d \in Drivers, UpdateArray(d) PROVE  LockInv'
  BY <1>15 DEF UpdateArray, At, Actors
<1>16. ASSUME NEW d \in Drivers, UpdateLength(d) PROVE  LockInv'
  BY <1>16 DEF UpdateLength, At, Actors
<1>17. CASE UNCHANGED vars
  BY <1>17 DEF vars
<1> QED
  BY <1>1, <1>2, <1>3, <1>4, <1>5, <1>6, <1>7, <1>8, <1>9,
     <1>10, <1>11, <1>12, <1>13, <1>14, <1>15, <1>16, <1>17 DEF Next, Process

\* Nothing is set and nobody begins before iocInit().
LEMMA DownStep == IInv /\ [Next]_vars => DownInv'
<1> SUFFICES ASSUME IInv, [Next]_vars PROVE DownInv'
  OBVIOUS
<1> USE WaveformAssumption
    DEF IInv, TypeOK, DownInv, LockInv, Processing,
        recordVars, driverVars, lockVars, boundVars
<1>1. CASE InitRecordWaveform
  BY <1>1 DEF InitRecordWaveform
<1>2. CASE SaveState
  BY <1>2 DEF SaveState
<1>3. CASE Restart
  BY <1>3 DEF Restart
<1>4. ASSUME NEW c \in Clients, NEW n \in Lengths, ClientPut(c, n)
      PROVE  DownInv'
  BY <1>4 DEF ClientPut, Put, Begin, Actors
<1>5. ASSUME NEW d \in Drivers, NEW n \in Lengths, NEW process \in BOOLEAN,
             WriteOutRecordWaveform(d, n, process)
      PROVE  DownInv'
  BY <1>5 DEF WriteOutRecordWaveform, Put, Begin, Actors
<1>6. CASE ScanRecord
  BY <1>6 DEF ScanRecord, Begin, Actors
<1>7. ASSUME NEW d \in Drivers, NEW n \in Lengths, ReadRecordWaveform(d, n)
      PROVE  DownInv'
  BY <1>7 DEF ReadRecordWaveform, Actors
<1>8. ASSUME NEW a \in Actors, BeginProcess(a) PROVE  DownInv'
  BY <1>8 DEF BeginProcess, At
<1>9. ASSUME NEW a \in Actors, LockMutex(a) PROVE  DownInv'
  BY <1>9 DEF LockMutex, At
<1>10. ASSUME NEW a \in Actors, CopyArray(a) PROVE  DownInv'
  BY <1>10 DEF CopyArray, At
<1>11. ASSUME NEW a \in Actors, SetLength(a) PROVE  DownInv'
  BY <1>11 DEF SetLength, At
<1>12. ASSUME NEW a \in Actors, SetNord(a) PROVE  DownInv'
  BY <1>12 DEF SetNord, At
<1>13. ASSUME NEW a \in Actors, WritePersistentWaveform(a) PROVE  DownInv'
  BY <1>13 DEF WritePersistentWaveform, At
<1>14. ASSUME NEW a \in Actors, ScanUnlock(a) PROVE  DownInv'
  BY <1>14 DEF ScanUnlock, At
<1>15. ASSUME NEW d \in Drivers, UpdateArray(d) PROVE  DownInv'
  BY <1>15 DEF UpdateArray, At, Actors
<1>16. ASSUME NEW d \in Drivers, UpdateLength(d) PROVE  DownInv'
  BY <1>16 DEF UpdateLength, At, Actors
<1>17. CASE UNCHANGED vars
  BY <1>17 DEF vars
<1> QED
  BY <1>1, <1>2, <1>3, <1>4, <1>5, <1>6, <1>7, <1>8, <1>9,
     <1>10, <1>11, <1>12, <1>13, <1>14, <1>15, <1>16, <1>17 DEF Next, Process

\* disable_write is set and cleared under the lock of the record, by the quiet put itself.
LEMMA QuietStep == IInv /\ [Next]_vars => QuietInv'
<1> SUFFICES ASSUME IInv, [Next]_vars PROVE QuietInv'
  OBVIOUS
<1> USE WaveformAssumption
    DEF IInv, TypeOK, DownInv, LockInv, QuietInv, Processing,
        recordVars, driverVars, lockVars, boundVars
<1>1. CASE InitRecordWaveform
  BY <1>1 DEF InitRecordWaveform
<1>2. CASE SaveState
  BY <1>2 DEF SaveState
<1>3. CASE Restart
  BY <1>3 DEF Restart
<1>4. ASSUME NEW c \in Clients, NEW n \in Lengths, ClientPut(c, n)
      PROVE  QuietInv'
  BY <1>4 DEF ClientPut, Put, Begin, Actors
<1>5. ASSUME NEW d \in Drivers, NEW n \in Lengths, NEW process \in BOOLEAN,
             WriteOutRecordWaveform(d, n, process)
      PROVE  QuietInv'
  BY <1>5 DEF WriteOutRecordWaveform, Put, Begin, Actors
<1>6. CASE ScanRecord
  BY <1>6 DEF ScanRecord, Begin, Actors
<1>7. ASSUME NEW d \in Drivers, NEW n \in Lengths, ReadRecordWaveform(d, n)
      PROVE  QuietInv'
  BY <1>7 DEF ReadRecordWaveform, Actors
<1>8. ASSUME NEW a \in Actors, BeginProcess(a) PROVE  QuietInv'
  BY <1>8 DEF BeginProcess, At
<1>9. ASSUME NEW a \in Actors, LockMutex(a) PROVE  QuietInv'
  BY <1>9 DEF LockMutex, At
<1>10. ASSUME NEW a \in Actors, CopyArray(a) PROVE  QuietInv'
  BY <1>10 DEF CopyArray, At
<1>11. ASSUME NEW a \in Actors, SetLength(a) PROVE  QuietInv'
  BY <1>11 DEF SetLength, At
<1>12. ASSUME NEW a \in Actors, SetNord(a) PROVE  QuietInv'
  BY <1>12 DEF SetNord, At
<1>13. ASSUME NEW a \in Actors, WritePersistentWaveform(a) PROVE  QuietInv'
  BY <1>13 DEF WritePersistentWaveform, At
<1>14. ASSUME NEW a \in Actors, ScanUnlock(a) PROVE  QuietInv'
  BY <1>14 DEF ScanUnlock, At
<1>15. ASSUME NEW d \in Drivers, UpdateArray(d) PROVE  QuietInv'
  BY <1>15 DEF UpdateArray, At, Actors
<1>16. ASSUME NEW d \in Drivers, UpdateLength(d) PROVE  QuietInv'
  BY <1>16 DEF UpdateLength, At, Actors
<1>17. CASE UNCHANGED vars
  BY <1>17 DEF vars
<1> QED
  BY <1>1, <1>2, <1>3, <1>4, <1>5, <1>6, <1>7, <1>8, <1>9,
     <1>10, <1>11, <1>12, <1>13, <1>14, <1>15, <1>16, <1>17 DEF Next, Process

\* The variable of a reader and its length are changed in one section of the mutex.
LEMMA OfferedStep == IInv /\ [Next]_vars => OfferedInv'
<1> SUFFICES ASSUME IInv, [Next]_vars PROVE OfferedInv'
  OBVIOUS
<1> USE WaveformAssumption
    DEF IInv, TypeOK, LockInv, OfferedInv, DownInv, Processing,
        recordVars, driverVars, lockVars, boundVars
<1>1. CASE InitRecordWaveform
  BY <1>1 DEF InitRecordWaveform
<1>2. CASE SaveState
  BY <1>2 DEF SaveState
<1>3. CASE Restart
  BY <1>3 DEF Restart
<1>4. ASSUME NEW c \in Clients, NEW n \in Lengths, ClientPut(c, n)
      PROVE  OfferedInv'
  BY <1>4 DEF ClientPut, Put, Begin, Actors
<1>5. ASSUME NEW d \in Drivers, NEW n \in Lengths, NEW process \in BOOLEAN,
             WriteOutRecordWaveform(d, n, process)
      PROVE  OfferedInv'
  BY <1>5 DEF WriteOutRecordWaveform, Put, Begin, Actors
<1>6. CASE ScanRecord
  BY <1>6 DEF ScanRecord, Begin, Actors
<1>7. ASSUME NEW d \in Drivers, NEW n \in Lengths, ReadRecordWaveform(d, n)
      PROVE  OfferedInv'
  BY <1>7 DEF ReadRecordWaveform, Actors
<1>8. ASSUME NEW a \in Actors, BeginProcess(a) PROVE  OfferedInv'
  BY <1>8 DEF BeginProcess, At
<1>9. ASSUME NEW a \in Actors, LockMutex(a) PROVE  OfferedInv'
  BY <1>9 DEF LockMutex, At
<1>10. ASSUME NEW a \in Actors, CopyArray(a) PROVE  OfferedInv'
  BY <1>10 DEF CopyArray, At
<1>11. ASSUME NEW a \in Actors, SetLength(a) PROVE  OfferedInv'
  BY <1>11 DEF SetLength, At
<1>12. ASSUME NEW a \in Actors, SetNord(a) PROVE  OfferedInv'
  BY <1>12 DEF SetNord, At
<1>13. ASSUME NEW a \in Actors, WritePersistentWaveform(a) PROVE  OfferedInv'
  BY <1>13 DEF WritePersistentWaveform, At
<1>14. ASSUME NEW a \in Actors, ScanUnlock(a) PROVE  OfferedInv'
  BY <1>14 DEF ScanUnlock, At
<1>15. ASSUME NEW d \in Drivers, UpdateArray(d) PROVE  OfferedInv'
  BY <1>15 DEF UpdateArray, At, Actors
<1>16. ASSUME NEW d \in Drivers, UpdateLength(d) PROVE  OfferedInv'
  BY <1>16 DEF UpdateLength, At, Actors
<1>17. CASE UNCHANGED vars
  BY <1>17 DEF vars
<1> QED
  BY <1>1, <1>2, <1>3, <1>4, <1>5, <1>6, <1>7, <1>8, <1>9,
     <1>10, <1>11, <1>12, <1>13, <1>14, <1>15, <1>16, <1>17 DEF Next, Process

\* The adapter copies the array and its length in one section of the mutex, so that they belong
\* together; between that and the next put they stay as they are.
LEMMA CopyStep == IInv /\ [Next]_vars => CopyInv'
<1> SUFFICES ASSUME IInv, [Next]_vars PROVE CopyInv'
  OBVIOUS
<1> USE WaveformAssumption
    DEF IInv, TypeOK, LockInv, QuietInv, OfferedInv, CopyInv, DownInv, Processing, Agree,
        recordVars, driverVars, lockVars, boundVars
<1>1. CASE InitRecordWaveform
  BY <1>1 DEF InitRecordWaveform
<1>2. CASE SaveState
  BY <1>2, ZenonT(60) DEF SaveState
<1>3. CASE Restart
  BY <1>3 DEF Restart
<1>4. ASSUME NEW c \in Clients, NEW n \in Lengths, ClientPut(c, n)
      PROVE  CopyInv'
  BY <1>4 DEF ClientPut, Put, Begin, Actors
<1>5. ASSUME NEW d \in Drivers, NEW n \in Lengths, NEW process \in BOOLEAN,
             WriteOutRecordWaveform(d, n, process)
      PROVE  CopyInv'
  BY <1>5, ZenonT(60) DEF WriteOutRecordWaveform, Put, Begin, Actors
<1>6. CASE ScanRecord
  BY <1>6, ZenonT(60) DEF ScanRecord, Begin, Actors
<1>7. ASSUME NEW d \in Drivers, NEW n \in Lengths, ReadRecordWaveform(d, n)
      PROVE  CopyInv'
  BY <1>7, ZenonT(60) DEF ReadRecordWaveform, Actors
<1>8. ASSUME NEW a \in Actors, BeginProcess(a) PROVE  CopyInv'
  BY <1>8, ZenonT(60) DEF BeginProcess, At
<1>9. ASSUME NEW a \in Actors, LockMutex(a) PROVE  CopyInv'
  BY <1>9, ZenonT(60) DEF LockMutex, At
<1>10. ASSUME NEW a \in Actors, CopyArray(a) PROVE  CopyInv'
  <2>1. scanLock = a /\ \A b \in Actors : b # a => pc[b] \notin Processing
    BY <1>10 DEF CopyArray, At
  <2>2. pc' = [pc EXCEPT ![a] = "length"] /\ pc'[a] = "length"
    BY <1>10 DEF CopyArray, At
  <2>3. variable' = bptr' \/ published'.kind = "action"
    BY <1>10 DEF CopyArray, Kinds
  <2>4. \A b \in Actors : pc'[b] = "length" => b = a
    BY <2>1, <2>2
  <2>5. \A b \in Actors : pc'[b] # "nord"
    BY <2>1, <2>2
  <2> QED
    BY <2>2, <2>3, <2>4, <2>5
<1>11. ASSUME NEW a \in Actors, SetLength(a) PROVE  CopyInv'
  <2>1. scanLock = a /\ \A b \in Actors : b # a => pc[b] \notin Processing
    BY <1>11 DEF SetLength, At
  <2>2. pc' = [pc EXCEPT ![a] = "nord"] /\ pc'[a] = "nord"
    BY <1>11 DEF SetLength, At
  <2>3. \A b \in Actors : pc'[b] # "length" /\ (pc'[b] = "nord" => b = a)
    BY <2>1, <2>2
  <2>4. variable = bptr \/ published.kind = "action"
    BY <1>11 DEF SetLength, At
  <2>5. published.kind = "read_var" => <<variable, current_length>> \in offered
    <3>1. \A b \in Actors : pc[b] # "update"
      BY <1>11 DEF SetLength, At
    <3> QED
      BY <3>1
  <2>6. CASE published.kind = "write_var"
    <3>1. variable' = bptr' /\ length' = IF published'.has_length THEN current_length' ELSE MaxLength
      BY <1>11, <2>4, <2>6 DEF SetLength
    <3> QED
      BY <1>11, <2>2, <2>3, <2>6, <3>1 DEF SetLength
  <2>7. CASE published.kind = "read_var"
    <3>1. length' = ReadLength /\ bptr' = bptr /\ offered' = offered /\ published' = published
      BY <1>11, <2>7 DEF SetLength
    <3> QED
      BY <2>2, <2>3, <2>4, <2>5, <2>7, <3>1, ZenonT(60) DEF ReadLength
  <2>8. CASE published.kind = "action"
    BY <1>11, <2>2, <2>3, <2>8 DEF SetLength
  <2> QED
    BY <2>6, <2>7, <2>8 DEF Kinds
<1>12. ASSUME NEW a \in Actors, SetNord(a) PROVE  CopyInv'
  BY <1>12, ZenonT(60) DEF SetNord, At
<1>13. ASSUME NEW a \in Actors, WritePersistentWaveform(a) PROVE  CopyInv'
  BY <1>13, ZenonT(60) DEF WritePersistentWaveform, At
<1>14. ASSUME NEW a \in Actors, ScanUnlock(a) PROVE  CopyInv'
  BY <1>14, ZenonT(60) DEF ScanUnlock, At
<1>15. ASSUME NEW d \in Drivers, UpdateArray(d) PROVE  CopyInv'
  BY <1>15, ZenonT(60) DEF UpdateArray, At, Actors
<1>16. ASSUME NEW d \in Drivers, UpdateLength(d) PROVE  CopyInv'
  BY <1>16, ZenonT(60) DEF UpdateLength, At, Actors
<1>17. CASE UNCHANGED vars
  BY <1>17, ZenonT(60) DEF vars
<1> HIDE DEF IInv, CopyInv, Agree
<1> QED
  BY <1>1, <1>2, <1>3, <1>4, <1>5, <1>6, <1>7, <1>8, <1>9,
     <1>10, <1>11, <1>12, <1>13, <1>14, <1>15, <1>16, <1>17 DEF Next, Process

\* What the record shows is in the table when the lock of the record is left, and what was
\* loaded is what is shown.
LEMMA TableStep == IInv /\ [Next]_vars => TableInv'
<1> SUFFICES ASSUME IInv, [Next]_vars PROVE TableInv'
  OBVIOUS
<1> USE WaveformAssumption
    DEF IInv, TypeOK, LockInv, QuietInv, DownInv, TableInv, Processing,
        recordVars, driverVars, lockVars, boundVars
<1>1. CASE InitRecordWaveform
  <2>1. ~inStep /\ inStep' = inStep /\ published' = published
    BY <1>1 DEF InitRecordWaveform
  <2>2. CASE published.persist /\ file # <<>>
    <3>1. table' = file /\ bptr' = Overlay(file, Zeros) /\ nord' = Len(file)
      BY <1>1, <2>2 DEF InitRecordWaveform
    <3>2. Prefix(bptr', nord') = file
      BY <3>1, Reload
    <3> QED
      BY <3>1, <3>2
  <2>3. CASE ~(published.persist /\ file # <<>>)
    <3>1. table' = <<>>
      BY <1>1, <2>3 DEF InitRecordWaveform
    <3> QED
      BY <2>1, <3>1
  <2> QED
    BY <2>2, <2>3
<1>2. CASE SaveState
  BY <1>2 DEF SaveState
<1>3. CASE Restart
  BY <1>3 DEF Restart
<1>4. ASSUME NEW c \in Clients, NEW n \in Lengths, ClientPut(c, n)
      PROVE  TableInv'
  BY <1>4 DEF ClientPut, Put, Begin, Actors
<1>5. ASSUME NEW d \in Drivers, NEW n \in Lengths, NEW process \in BOOLEAN,
             WriteOutRecordWaveform(d, n, process)
      PROVE  TableInv'
  BY <1>5 DEF WriteOutRecordWaveform, Put, Begin, Actors
<1>6. CASE ScanRecord
  BY <1>6 DEF ScanRecord, Begin, Actors
<1>7. ASSUME NEW d \in Drivers, NEW n \in Lengths, ReadRecordWaveform(d, n)
      PROVE  TableInv'
  BY <1>7 DEF ReadRecordWaveform, Actors
<1>8. ASSUME NEW a \in Actors, BeginProcess(a) PROVE  TableInv'
  BY <1>8 DEF BeginProcess, At
<1>9. ASSUME NEW a \in Actors, LockMutex(a) PROVE  TableInv'
  BY <1>9 DEF LockMutex, At
<1>10. ASSUME NEW a \in Actors, CopyArray(a) PROVE  TableInv'
  BY <1>10 DEF CopyArray, At
<1>11. ASSUME NEW a \in Actors, SetLength(a) PROVE  TableInv'
  BY <1>11 DEF SetLength, At
<1>12. ASSUME NEW a \in Actors, SetNord(a) PROVE  TableInv'
  BY <1>12 DEF SetNord, At
<1>13. ASSUME NEW a \in Actors, WritePersistentWaveform(a) PROVE  TableInv'
  BY <1>13 DEF WritePersistentWaveform, At
<1>14. ASSUME NEW a \in Actors, ScanUnlock(a) PROVE  TableInv'
  BY <1>14 DEF ScanUnlock, At
<1>15. ASSUME NEW d \in Drivers, UpdateArray(d) PROVE  TableInv'
  BY <1>15 DEF UpdateArray, At, Actors
<1>16. ASSUME NEW d \in Drivers, UpdateLength(d) PROVE  TableInv'
  BY <1>16 DEF UpdateLength, At, Actors
<1>17. CASE UNCHANGED vars
  BY <1>17 DEF vars
<1> QED
  BY <1>1, <1>2, <1>3, <1>4, <1>5, <1>6, <1>7, <1>8, <1>9,
     <1>10, <1>11, <1>12, <1>13, <1>14, <1>15, <1>16, <1>17 DEF Next, Process
-------------------------------------------------------------------------------
(* The theorems.                                                           *)

\* The inductive invariant holds at the start,
LEMMA InitIInv == Init => IInv
<1> SUFFICES ASSUME Init PROVE IInv
  OBVIOUS
<1>1. TypeOK
  BY InitType
<1>2. scanLock = Nobody /\ mutex = Nobody /\ ioc = "down" /\ \A a \in Actors : pc[a] = "idle"
  BY DEF Init
<1>3. LockInv /\ CopyInv
  BY <1>2, WaveformAssumption DEF Init, LockInv, CopyInv, Processing
<1>4. DownInv /\ QuietInv /\ OfferedInv /\ TableInv
  BY <1>2 DEF Init, DownInv, QuietInv, OfferedInv, TableInv
<1> QED
  BY <1>1, <1>3, <1>4 DEF IInv

\* and in every state.
LEMMA Inductive == Spec => []IInv
<1>1. IInv /\ [Next]_vars => IInv'
  BY TypeStep, LockStep, DownStep, QuietStep, OfferedStep, CopyStep, TableStep DEF IInv
<1> QED
  BY <1>1, InitIInv, PTL DEF Spec

\* Nobody is processing the record when its lock is free.
LEMMA RestIsIdle == IInv /\ AtRest => \A a \in Actors : pc[a] \notin Processing
BY WaveformAssumption DEF IInv, LockInv, AtRest

\* _publish_waveform_write_var(), _publish_waveform_read_var() and process_waveform(): once
\* the record was processed, the record and the driver hold the same waveform with the
\* same length, or, for a reader, one that the driver had.
THEOREM WaveformAgrees == Spec => []BothSidesAgree
<1>1. IInv => BothSidesAgree
  BY RestIsIdle DEF IInv, CopyInv, BothSidesAgree
<1> QED
  BY <1>1, Inductive, PTL

\* process_waveform() and init_record_waveform(): at rest the persistent value of the
\* record is what it shows, after quiet and partial puts and after a restart too.
THEOREM WaveformPersists == Spec => []PersistFollows
<1>1. IInv => PersistFollows
  BY RestIsIdle DEF IInv, TableInv, PersistFollows, AtRest
<1> QED
  BY <1>1, Inductive, PTL
===============================================================================
