----------------------------- MODULE Persistence -----------------------------
(***************************************************************************)
(* The persistence layer of epics_device: the table of persistent          *)
(* variables, the mutex that guards it, the thread that saves it to a file *)
(* by way of a backup file, the public update_persistent_state() which     *)
(* saves it from any other thread without taking the mutex, and the        *)
(* lifecycle load - run - terminate - exit of the process, which may also  *)
(* stop at any point and be started again on the files it left.            *)
(*                                                                         *)
(* A value is the number of the write that stored it (0: length = 0, the   *)
(* variable has no value), so a later value is a greater number.  A file   *)
(* is an inode whose content maps a variable to the value on its line (0:  *)
(* no line).  A stream is the FILE of one saver: the lines it has          *)
(* formatted but not yet flushed, and the inode it writes to.              *)
(***************************************************************************)
EXTENDS Integers

CONSTANTS
  Vars,           \* The persistent variables
  Writers,        \* Threads that process records and so write variables
  PersistThread,  \* The thread persistence_thread() runs in
  Updaters,       \* Threads that call update_persistent_state()
  Inodes,         \* Files of the directory, named or only open
  NoInode,        \* Name without a file, stream not open
  NoOne,          \* The mutex is free
  MaxVersion,     \* Bound: writes to one variable that change its value
  FaultKinds,     \* What may fail: subset of {"crash","open","write","rename"}
  MaxFaults       \* Bound: how many such faults happen in all

Savers == Updaters \union {PersistThread}

ASSUME PersistenceAssumption ==
  /\ MaxVersion \in Nat \ {0}
  /\ MaxFaults \in Nat
  /\ FaultKinds \subseteq {"crash", "open", "write", "rename"}
  /\ NoInode \notin Inodes
  /\ PersistThread \notin Updaters
  /\ NoOne \notin Writers \union Savers \union Vars
  /\ PersistThread \notin Writers

VARIABLES
  main,      \* Lifecycle of the process, as its main thread sees it
  running,   \* thread_running
  dirty,     \* persistence_dirty
  mutex,     \* Holder of the mutex
  mem,       \* The table: value of each variable
  writing,   \* The write each writer is in the middle of, under the mutex
  pc,        \* Where each saver is
  todo,      \* Variables hash_table_walk() has not given to a saver yet
  buf,       \* Lines formatted by a saver and not flushed to its inode
  stream,    \* Inode a saver has open
  state,     \* Inode named state_filename
  backup,    \* Inode named state_filename ".backup"
  content,   \* What each inode holds
  faults,    \* Number of faults so far
  failed     \* One of them befell a save of this process

memVars  == <<running, dirty, mutex, mem, writing>>
saveVars == <<pc, todo, buf, stream>>
diskVars == <<state, backup, content>>
faultVars == <<faults, failed>>
vars     == <<main, memVars, saveVars, diskVars, faultVars>>

Versions == 0 .. MaxVersion
Torn     == -1                 \* A line read while its value was being copied
Lines    == Versions \union {Torn}
Blank    == [v \in Vars |-> 0]
NoWrite  == [var |-> NoOne, value |-> 0]

\* The variables have their types; a value that is stored is one that was written.
TypeOK ==
  /\ main \in {"down", "up", "joining", "joined"}
  /\ running \in BOOLEAN
  /\ dirty \in BOOLEAN
  /\ mutex \in Writers \union {PersistThread, NoOne}
  /\ mem \in [Vars -> Lines]
  /\ writing \in [Writers -> [var : Vars, value : Versions] \union {NoWrite}]
  /\ pc \in [Savers -> {"idle", "start", "waiting", "test", "open", "writing",
                        "rename", "clear", "done"}]
  /\ todo \in [Savers -> SUBSET Vars]
  /\ buf \in [Savers -> [Vars -> Lines]]
  /\ stream \in [Savers -> Inodes \union {NoInode}]
  /\ state \in Inodes \union {NoInode}
  /\ backup \in Inodes \union {NoInode}
  /\ content \in [Inodes -> [Vars -> Lines]]
  /\ faults \in 0 .. MaxFaults
  /\ failed \in BOOLEAN

\* What a process that loads the state file now would find in it.
Saved == IF state = NoInode THEN Blank ELSE content[state]

Fault(kind) ==
  /\ kind \in FaultKinds
  /\ faults < MaxFaults
  /\ faults' = faults + 1

SaveFails(kind) == Fault(kind) /\ failed' = TRUE

Init ==
  /\ main = "down"
  /\ running = TRUE
  /\ dirty = FALSE
  /\ mutex = NoOne
  /\ mem = Blank
  /\ writing = [w \in Writers |-> NoWrite]
  /\ pc = [t \in Savers |-> "idle"]
  /\ todo = [t \in Savers |-> {}]
  /\ buf = [t \in Savers |-> Blank]
  /\ stream = [t \in Savers |-> NoInode]
  /\ state = NoInode
  /\ backup = NoInode
  /\ content = [i \in Inodes |-> Blank]
  /\ faults = 0
  /\ failed = FALSE

-------------------------------------------------------------------------------
(* The process.                                                            *)

\* load_persistent_state: names the file, parses it under the mutex into the
\* table made by create_persistent_waveform, and creates the thread.  A new
\* process has the static values of thread_running and persistence_dirty.  The file can be
\* opened if there is one; StateFile has the process that fails to and runs all the same.
LoadPersistentState ==
  /\ main = "down"
  /\ main' = "up"
  /\ mem' = Saved
  /\ pc' = [pc EXCEPT ![PersistThread] = "start"]
  /\ UNCHANGED <<running, dirty, mutex, writing, todo, buf, stream, diskVars, faultVars>>

\* Seeded fault: thread_running is left set.
TerminateSilently ==
  /\ main = "up"
  /\ mutex = NoOne
  /\ UNCHANGED running
  /\ main' = "joining"
  /\ UNCHANGED <<dirty, mutex, mem, writing, saveVars, diskVars, faultVars>>

\* terminate_persistent_state up to pthread_join.  The signal is not recorded:
\* the thread sits in a timed wait, which may return at any time without it.
TerminatePersistentState ==
  /\ main = "up"
  /\ mutex = NoOne
  /\ running' = FALSE
  /\ main' = "joining"
  /\ UNCHANGED <<dirty, mutex, mem, writing, saveVars, diskVars, faultVars>>

\* pthread_join returns.
JoinPersistThread ==
  /\ main = "joining"
  /\ pc[PersistThread] = "done"
  /\ main' = "joined"
  /\ UNCHANGED <<memVars, saveVars, diskVars, faultVars>>

\* The process is gone: only the files are left.
ProcessEnds ==
  /\ main' = "down"
  /\ running' = TRUE
  /\ dirty' = FALSE
  /\ mutex' = NoOne
  /\ mem' = Blank
  /\ writing' = [w \in Writers |-> NoWrite]
  /\ pc' = [t \in Savers |-> "idle"]
  /\ todo' = [t \in Savers |-> {}]
  /\ buf' = [t \in Savers |-> Blank]
  /\ stream' = [t \in Savers |-> NoInode]
  /\ failed' = FALSE
  /\ UNCHANGED diskVars

Exit ==
  /\ main = "joined"
  /\ ProcessEnds
  /\ UNCHANGED faults

Crash ==
  /\ main # "down"
  /\ Fault("crash")
  /\ ProcessEnds

-------------------------------------------------------------------------------
(* Writers.                                                                *)

\* Seeded fault: the flag is assigned, not accumulated.
WriteBeginAssigns(w, v, x) ==
  /\ main # "down"
  /\ mutex = NoOne
  /\ x # 0 /\ (x \in {mem[v], mem[v] + 1} \/ mem[v] = Torn)
  /\ mutex' = w
  /\ dirty' = (mem[v] # x)
  /\ writing' = [writing EXCEPT ![w] = [var |-> v, value |-> x]]
  /\ UNCHANGED <<main, running, mem, saveVars, diskVars, faultVars>>

\* write_persistent_waveform takes the mutex and decides whether the value is
\* new: x is the value already there or the next one.  A write of length 0, which has no
\* line in the file, is in Waveform.
WriteBegin(w, v, x) ==
  /\ main # "down"
  /\ mutex = NoOne
  /\ x # 0 /\ (x \in {mem[v], mem[v] + 1} \/ mem[v] = Torn)
  /\ mutex' = w
  /\ dirty' = (dirty \/ mem[v] # x)
  /\ writing' = [writing EXCEPT ![w] = [var |-> v, value |-> x]]
  /\ UNCHANGED <<main, running, mem, saveVars, diskVars, faultVars>>

\* Seeded fault: a value that was not written is stored.
WriteEndCounts(w) ==
  /\ mutex = w
  /\ mem' = [mem EXCEPT ![writing[w].var] = writing[w].value + 1]
  /\ writing' = [writing EXCEPT ![w] = NoWrite]
  /\ mutex' = NoOne
  /\ UNCHANGED <<main, running, dirty, saveVars, diskVars, faultVars>>

\* It stores length and value and releases the mutex.
WriteEnd(w) ==
  /\ mutex = w
  /\ mem' = [mem EXCEPT ![writing[w].var] = writing[w].value]
  /\ writing' = [writing EXCEPT ![w] = NoWrite]
  /\ mutex' = NoOne
  /\ UNCHANGED <<main, running, dirty, saveVars, diskVars, faultVars>>

-------------------------------------------------------------------------------
(* The persistence thread.                                                 *)

\* Its first entry to WITH_MUTEX; in the wait the mutex is free again.
ThreadStart ==
  /\ pc[PersistThread] = "start"
  /\ mutex = NoOne
  /\ pc' = [pc EXCEPT ![PersistThread] = IF running THEN "waiting" ELSE "done"]
  /\ UNCHANGED <<main, memVars, todo, buf, stream, diskVars, faultVars>>

\* Seeded fault: the wait does not take the mutex again.
ThreadWakeUnlocked ==
  /\ pc[PersistThread] = "waiting"
  /\ UNCHANGED mutex
  /\ pc' = [pc EXCEPT ![PersistThread] = "test"]
  /\ UNCHANGED <<main, running, dirty, mem, writing, todo, buf, stream, diskVars, faultVars>>

\* Seeded fault: the thread leaves at once when told to, without a last save.
ThreadWakeLeaves ==
  /\ pc[PersistThread] = "waiting"
  /\ mutex = NoOne
  /\ mutex' = PersistThread
  /\ pc' = [pc EXCEPT ![PersistThread] = IF running THEN "test" ELSE "clear"]
  /\ UNCHANGED <<main, running, dirty, mem, writing, todo, buf, stream, diskVars, faultVars>>

\* pwait_timeout returns, by timeout or signal, with the mutex taken.
ThreadWake ==
  /\ pc[PersistThread] = "waiting"
  /\ mutex = NoOne
  /\ mutex' = PersistThread
  /\ pc' = [pc EXCEPT ![PersistThread] = "test"]
  /\ UNCHANGED <<main, running, dirty, mem, writing, todo, buf, stream, diskVars, faultVars>>

\* Seeded fault: the loop is left without unlocking.
ThreadLoopKeeps ==
  /\ pc[PersistThread] = "clear"
  /\ dirty' = FALSE
  /\ mutex' = IF running THEN NoOne ELSE mutex
  /\ pc' = [pc EXCEPT ![PersistThread] = IF running THEN "waiting" ELSE "done"]
  /\ UNCHANGED <<main, running, mem, writing, todo, buf, stream, diskVars, faultVars>>

\* update_persistent_state has returned, its error if any has been reported.
ThreadLoop ==
  /\ pc[PersistThread] = "clear"
  /\ dirty' = FALSE
  /\ mutex' = NoOne
  /\ pc' = [pc EXCEPT ![PersistThread] = IF running THEN "waiting" ELSE "done"]
  /\ UNCHANGED <<main, running, mem, writing, todo, buf, stream, diskVars, faultVars>>

-------------------------------------------------------------------------------
(* update_persistent_state, for any saver.                                 *)

Returned(t) == IF t = PersistThread THEN "clear" ELSE "idle"

UpdateTest(t) ==
  /\ IF t = PersistThread THEN pc[t] = "test" ELSE pc[t] = "idle" /\ main # "down"
  /\ pc' = [pc EXCEPT ![t] = IF dirty THEN "open" ELSE Returned(t)]
  /\ UNCHANGED <<main, memVars, todo, buf, stream, diskVars, faultVars>>

FreeInodes == Inodes \ ({state, backup} \union {stream[t] : t \in Savers})

\* Seeded fault: the state file itself is opened.
UpdateOpenInPlace(t) ==
  /\ pc[t] = "open"
  /\ \E i \in IF state = NoInode THEN FreeInodes ELSE {state} :
       /\ backup' = i
       /\ stream' = [stream EXCEPT ![t] = i]
       /\ content' = [content EXCEPT ![i] = Blank]
  /\ todo' = [todo EXCEPT ![t] = Vars]
  /\ buf' = [buf EXCEPT ![t] = Blank]
  /\ pc' = [pc EXCEPT ![t] = "writing"]
  /\ UNCHANGED <<main, memVars, state, faultVars>>

\* fopen(backup_file, "w") truncates the file of that name or creates one.
UpdateOpen(t) ==
  /\ pc[t] = "open"
  /\ \E i \in IF backup = NoInode THEN FreeInodes ELSE {backup} :
       /\ backup' = i
       /\ stream' = [stream EXCEPT ![t] = i]
       /\ content' = [content EXCEPT ![i] = Blank]
  /\ todo' = [todo EXCEPT ![t] = Vars]
  /\ buf' = [buf EXCEPT ![t] = Blank]
  /\ pc' = [pc EXCEPT ![t] = "writing"]
  /\ UNCHANGED <<main, memVars, state, faultVars>>

UpdateOpenFails(t) ==
  /\ pc[t] = "open"
  /\ SaveFails("open")
  /\ pc' = [pc EXCEPT ![t] = Returned(t)]
  /\ UNCHANGED <<main, memVars, todo, buf, stream, diskVars>>

\* A saver that does not hold the mutex can see a value half copied.
SeenBy(t, v) ==
  IF \E w \in Writers : writing[w].var = v /\ writing[w].value # mem[v]
    THEN {Torn, mem[v]}
    ELSE {mem[v]}

\* write_lines for the next variable of the walk, into the stream's buffer;
\* a variable without a value has no line.
UpdateLine(t, v) ==
  /\ pc[t] = "writing"
  /\ v \in todo[t]
  /\ \E x \in SeenBy(t, v) : buf' = [buf EXCEPT ![t][v] = x]
  /\ todo' = [todo EXCEPT ![t] = @ \ {v}]
  /\ UNCHANGED <<main, memVars, pc, stream, diskVars, faultVars>>

Flushed(t) ==
  [v \in Vars |-> IF buf[t][v] # 0 THEN buf[t][v] ELSE content[stream[t]][v]]

\* The buffer of the stream is full: its lines reach the inode.
UpdateFlush(t) ==
  /\ pc[t] = "writing"
  /\ buf[t] # Blank
  /\ content' = [content EXCEPT ![stream[t]] = Flushed(t)]
  /\ buf' = [buf EXCEPT ![t] = Blank]
  /\ UNCHANGED <<main, memVars, pc, todo, stream, state, backup, faultVars>>

\* Seeded fault: the file is renamed before its stream is flushed.
UpdateCloseLate(t) ==
  /\ pc[t] = "writing"
  /\ todo[t] = {}
  /\ UNCHANGED content
  /\ buf' = [buf EXCEPT ![t] = Blank]
  /\ stream' = [stream EXCEPT ![t] = NoInode]
  /\ pc' = [pc EXCEPT ![t] = "rename"]
  /\ UNCHANGED <<main, memVars, todo, state, backup, faultVars>>

\* fclose flushes what is left.
UpdateClose(t) ==
  /\ pc[t] = "writing"
  /\ todo[t] = {}
  /\ content' = [content EXCEPT ![stream[t]] = Flushed(t)]
  /\ buf' = [buf EXCEPT ![t] = Blank]
  /\ stream' = [stream EXCEPT ![t] = NoInode]
  /\ pc' = [pc EXCEPT ![t] = "rename"]
  /\ UNCHANGED <<main, memVars, todo, state, backup, faultVars>>

\* The same with the device full: the lines are lost, and as the results of
\* fprintf and fclose are not tested the save goes on.
UpdateCloseFails(t) ==
  /\ pc[t] = "writing"
  /\ todo[t] = {}
  /\ SaveFails("write")
  /\ buf' = [buf EXCEPT ![t] = Blank]
  /\ stream' = [stream EXCEPT ![t] = NoInode]
  /\ pc' = [pc EXCEPT ![t] = "rename"]
  /\ UNCHANGED <<main, memVars, todo, diskVars>>

UpdateRename(t) ==
  /\ pc[t] = "rename"
  /\ backup # NoInode
  /\ state' = backup
  /\ backup' = NoInode
  /\ pc' = [pc EXCEPT ![t] = Returned(t)]
  /\ UNCHANGED <<main, memVars, todo, buf, stream, content, faultVars>>

\* rename fails, or finds no backup file as another saver has renamed it.
UpdateRenameFails(t) ==
  /\ pc[t] = "rename"
  /\ IF backup = NoInode THEN UNCHANGED faults ELSE Fault("rename")
  /\ failed' = TRUE
  /\ pc' = [pc EXCEPT ![t] = Returned(t)]
  /\ UNCHANGED <<main, memVars, todo, buf, stream, diskVars>>

Update(t) ==
  \/ UpdateTest(t)
  \/ UpdateOpen(t)
  \/ UpdateOpenFails(t)
  \/ \E v \in Vars : UpdateLine(t, v)
  \/ UpdateFlush(t)
  \/ UpdateClose(t)
  \/ UpdateCloseFails(t)
  \/ UpdateRename(t)
  \/ UpdateRenameFails(t)

-------------------------------------------------------------------------------
Next ==
  \/ LoadPersistentState
  \/ TerminatePersistentState
  \/ JoinPersistThread
  \/ Exit
  \/ Crash
  \/ \E w \in Writers, v \in Vars, x \in Versions : WriteBegin(w, v, x)
  \/ \E w \in Writers : WriteEnd(w)
  \/ ThreadStart
  \/ ThreadWake
  \/ ThreadLoop
  \/ \E t \in Savers : Update(t)

Spec == Init /\ [][Next]_vars

\* The kernel runs every thread, a stalled mutex is handed on in the end and
\* the timed wait times out.  Nothing makes an application load, write or
\* terminate, and nothing makes a device fail.
FairSpec ==
  /\ Spec
  /\ SF_vars(ThreadStart)
  /\ SF_vars(ThreadWake)
  /\ WF_vars(ThreadLoop)
  /\ WF_vars(Update(PersistThread))
  /\ WF_vars(JoinPersistThread)
  /\ \A w \in Writers : WF_vars(WriteEnd(w))

-------------------------------------------------------------------------------
(* Properties.                                                             *)

\* The mutex is held by a writer from WriteBegin to WriteEnd and by the thread
\* from ThreadWake to ThreadLoop, and by nobody in a process that is not there.
LockInv ==
  /\ \A w \in Writers :
       IF mutex = w
         THEN writing[w] \in [var : Vars, value : Versions]
         ELSE writing[w] = NoWrite
  /\ mutex = PersistThread <=>
       pc[PersistThread] \in {"test", "open", "writing", "rename", "clear"}
  /\ main = "down" <=> pc[PersistThread] = "idle"
  /\ main = "down" => mutex = NoOne

\* A save in progress: the file of the name state_filename is not the one being
\* written; the backup file and the stream's buffer hold the table as far as the
\* walk has come, and after fclose the backup file holds all of it.
FileInv ==
  /\ mem \in [Vars -> Versions]
  /\ content \in [Inodes -> [Vars -> Versions]]
  /\ buf \in [Savers -> [Vars -> Versions]]
  /\ \A w \in Writers :
       mutex = w => writing[w].value \in {mem[writing[w].var], mem[writing[w].var] + 1}
  /\ state # NoInode => state # backup
  /\ pc[PersistThread] = "writing" =>
       /\ backup \in Inodes
       /\ stream[PersistThread] = backup
       /\ \A v \in Vars : Flushed(PersistThread)[v]
                            = IF v \in todo[PersistThread] THEN 0 ELSE mem[v]
  /\ pc[PersistThread] = "rename" => backup \in Inodes /\ content[backup] = mem

\* As long as no save fails, a clear persistence_dirty means that the state file
\* holds exactly what is in the table: no interleaving of a
\* write_persistent_waveform with the thread loses the flag.
CleanMeansSaved == main # "down" /\ ~dirty /\ ~failed => Saved = mem

\* The file of the name state_filename changes only by the rename in
\* update_persistent_state, never under that name ("safe atomic update").
OnlyReplacedByRename ==
  [][state' = state /\ state # NoInode => content'[state] = content[state]]_vars

\* A value that has reached the state file is never lost from it or replaced by
\* an older one, whatever fails and whenever the process stops.
SavedNeverRegresses == [][\A v \in Vars : Saved'[v] >= Saved[v]]_vars

\* The table and the state file implement the store: each save is the whole
\* table at one moment and a restart finds the last save.  The process that is
\* not there stands for the one that will read the file.
Store == INSTANCE StateStore WITH
           mem <- IF main = "down" THEN Saved ELSE mem,
           saved <- Saved
ImplementsStore == Store!StoreSpec

\* Once the thread has been through its mutex, what a running process has in its
\* table gets to the file unless something fails, also when
\* terminate_persistent_state() comes before the interval is over.
WrittenIsSaved ==
  \A v \in Vars, n \in 1 .. MaxVersion :
    main = "up" /\ mem[v] = n /\ pc[PersistThread] # "start"
      ~> Saved[v] >= n \/ faults > 0

\* pthread_join in terminate_persistent_state returns, whatever the disk does.
TerminateReturns == main = "joining" ~> main \in {"joined", "down"}
===============================================================================
