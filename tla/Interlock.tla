------------------------------ MODULE Interlock ------------------------------
(***************************************************************************)
(* The interlock of epics_extra.c: driver threads update groups of PVs     *)
(* between interlock_wait() and interlock_signal() while EPICS reads them  *)
(* in the chain of records from :TRIG to :DONE, and nobody may start       *)
(* before EPICS has finished its initialisation.                           *)
(*                                                                         *)
(* Each thread drives one interlock, and may first call                    *)
(* wait_for_epics_start(), which puts an interlock in its own stack frame  *)
(* on the list that init_hook() walks.  The content of a PV is the number  *)
(* of the update that wrote it.                                            *)
(***************************************************************************)
EXTENDS Naturals

CONSTANTS
  Threads,      \* The driver threads
  PVs,          \* The PVs between :TRIG and :DONE of each interlock
  Null,         \* End of the list
  Junk,         \* What a pointer into a stack frame that is gone may hold
  MaxUpdates    \* Bound: updates by each thread

Static(t) == <<"interlock", t>>      \* The object create_interlock() allocates
Frame(t)  == <<"frame", t>>          \* The local of wait_for_epics_start()
Statics   == {Static(t) : t \in Threads}
Frames    == {Frame(t) : t \in Threads}
Objects   == Statics \union Frames

ASSUME InterlockAssumption ==
  /\ MaxUpdates \in Nat
  /\ Null \notin Objects
  /\ Junk \notin Objects \union {Null}

VARIABLES
  epics_ready,  \* Set once by the hook
  notify_list,  \* Head of the list of interlocks to release then
  next,         \* The next field of each object
  busy,         \* The busy field of each object
  release,      \* How far a release_interlock() of the object is: not "no"
                \* means that the mutex of the object is held
  hook,         \* Where init_hook() is; between "loop" and "advance" it holds
                \* epics_ready_mutex
  hookNext,     \* Its local variable next
  created,      \* create_interlock() has been called
  start,        \* wait_for_epics_start(): not called, waiting, or returned
  pc,           \* Where each thread is
  taking,       \* The object a thread takes in take_interlock()
  todo,         \* PVs the thread has still to update
  data,         \* Content of each PV in the memory of the driver
  sent,         \* Number of interlock_signal() calls
  request,      \* scanIoRequest() for :TRIG not processed yet
  chain,        \* Where EPICS is in processing the chain
  toread,       \* PVs EPICS has still to process in it
  published     \* Content of each PV as EPICS read it last

readyVars  == <<epics_ready, notify_list, next>>
hookVars   == <<hook, hookNext>>
lockVars   == <<busy, release>>
callVars   == <<created, start>>
updateVars == <<todo, data, sent>>
driverVars == <<callVars, pc, taking, updateVars>>
epicsVars  == <<request, chain, toread, published>>
vars       == <<readyVars, hookVars, lockVars, driverVars, epicsVars>>

\* The links of the notify list and the state of all threads have their types: no thread
\* follows Null or Junk.
TypeOK ==
  /\ epics_ready \in BOOLEAN
  /\ notify_list \in Objects \union {Null}
  /\ next \in [Objects -> Objects \union {Null, Junk}]
  /\ hook \in {"before", "loop", "release", "advance", "done"}
  /\ hookNext \in Objects \union {Null}
  /\ busy \in [Objects -> BOOLEAN]
  /\ release \in [Objects -> {"no", "locked", "signalled"}]
  /\ created \in [Threads -> BOOLEAN]
  /\ start \in [Threads -> {"no", "waiting", "returned"}]
  /\ pc \in [Threads -> {"idle", "take", "sleep", "update"}]
  /\ taking \in [Threads -> Objects]
  /\ todo \in [Threads -> SUBSET PVs]
  /\ data \in [Threads -> [PVs -> 0 .. MaxUpdates]]
  /\ sent \in [Threads -> 0 .. MaxUpdates]
  /\ request \in [Threads -> BOOLEAN]
  /\ chain \in [Threads -> {"none", "reading", "done"}]
  /\ toread \in [Threads -> SUBSET PVs]
  /\ published \in [Threads -> [PVs -> 0 .. MaxUpdates]]

Init ==
  /\ epics_ready = FALSE
  /\ notify_list = Null
  /\ next = [x \in Objects |-> Null]
  /\ hook = "before"
  /\ hookNext = Null
  /\ busy = [x \in Objects |-> FALSE]
  /\ release = [x \in Objects |-> "no"]
  /\ created = [t \in Threads |-> FALSE]
  /\ start = [t \in Threads |-> "no"]
  /\ pc = [t \in Threads |-> "idle"]
  /\ taking = [t \in Threads |-> Static(t)]
  /\ todo = [t \in Threads |-> {}]
  /\ data = [t \in Threads |-> [p \in PVs |-> 0]]
  /\ sent = [t \in Threads |-> 0]
  /\ request = [t \in Threads |-> FALSE]
  /\ chain = [t \in Threads |-> "none"]
  /\ toread = [t \in Threads |-> {}]
  /\ published = [t \in Threads |-> [p \in PVs |-> 0]]

ReadyMutexFree == hook \in {"before", "done"}

\* Seeded fault: the link is left as the stack memory was.
ReceiveUnlinked(x) ==
  /\ busy' = [busy EXCEPT ![x] = TRUE]
  /\ next' = [next EXCEPT ![x] = IF x \in Frames THEN Junk ELSE notify_list]
  /\ notify_list' = x

\* receive_epics_ready, under epics_ready_mutex.
ReceiveEpicsReady(x) ==
  /\ busy' = [busy EXCEPT ![x] = TRUE]
  /\ next' = [next EXCEPT ![x] = notify_list]
  /\ notify_list' = x

-------------------------------------------------------------------------------
(* Threads.                                                                *)

\* Seeded fault: the interlock does not wait for the start of EPICS.
AnnounceNot(x) == UNCHANGED <<busy, next, notify_list>>

\* What create_interlock does last, under epics_ready_mutex.
Announce(x) ==
  IF epics_ready THEN UNCHANGED <<busy, next, notify_list>> ELSE ReceiveEpicsReady(x)

CreateInterlock(t) ==
  /\ pc[t] = "idle" /\ ~created[t] /\ ReadyMutexFree
  /\ created' = [created EXCEPT ![t] = TRUE]
  /\ Announce(Static(t))
  /\ UNCHANGED <<epics_ready, hookVars, release, start, pc, taking, updateVars, epicsVars>>

WaitForEpicsStart(t) ==
  /\ pc[t] = "idle" /\ start[t] = "no" /\ ReadyMutexFree
  /\ IF epics_ready
       THEN /\ start' = [start EXCEPT ![t] = "returned"]
            /\ UNCHANGED <<busy, next, notify_list, pc, taking>>
       ELSE /\ ReceiveEpicsReady(Frame(t))
            /\ start' = [start EXCEPT ![t] = "waiting"]
            /\ pc' = [pc EXCEPT ![t] = "take"]
            /\ taking' = [taking EXCEPT ![t] = Frame(t)]
  /\ UNCHANGED <<epics_ready, hookVars, release, created, updateVars, epicsVars>>

\* A thread goes on in the library.
Step(t, from, to) ==
  /\ pc[t] = from
  /\ pc' = [pc EXCEPT ![t] = to]
  /\ UNCHANGED <<hookVars, release, created, data>>

InterlockWait(t) ==
  /\ Step(t, "idle", "take")
  /\ created[t] /\ sent[t] < MaxUpdates
  /\ taking' = [taking EXCEPT ![t] = Static(t)]
  /\ UNCHANGED <<readyVars, busy, start, todo, sent, epicsVars>>

\* take_interlock with the mutex of the object: it is busy, and the thread waits on
\* its condition variable.
TakeBlocks(t) ==
  /\ Step(t, "take", "sleep")
  /\ release[taking[t]] = "no" /\ busy[taking[t]]
  /\ UNCHANGED <<readyVars, busy, start, taking, todo, sent, epicsVars>>

\* Seeded fault: interlock_wait() does not test busy again after the wait.
TakeAnyway(t) ==
  /\ release[taking[t]] = "no"
  /\ busy[taking[t]] => taking[t] = Static(t)
  /\ busy' = [busy EXCEPT ![taking[t]] = TRUE]

\* Seeded fault: busy is not set.
TakeWithoutBusy(t) ==
  /\ release[taking[t]] = "no" /\ ~busy[taking[t]]
  /\ UNCHANGED busy

\* It is not busy.
TakeInterlock(t) ==
  /\ release[taking[t]] = "no" /\ ~busy[taking[t]]
  /\ busy' = [busy EXCEPT ![taking[t]] = TRUE]

\* interlock_wait returns, and the update begins.
TakeForUpdate(t) ==
  /\ taking[t] = Static(t)
  /\ Step(t, "take", "update")
  /\ TakeInterlock(t)
  /\ todo' = [todo EXCEPT ![t] = PVs]
  /\ UNCHANGED <<readyVars, start, taking, sent, epicsVars>>

\* wait_for_epics_start returns: its frame, and the interlock in it, may hold anything
\* from now on.
TakeForStart(t) ==
  /\ taking[t] = Frame(t)
  /\ Step(t, "take", "idle")
  /\ TakeInterlock(t)
  /\ next' = [next EXCEPT ![taking[t]] = Junk]
  /\ start' = [start EXCEPT ![t] = "returned"]
  /\ UNCHANGED <<epics_ready, notify_list, taking, todo, sent, epicsVars>>

\* pthread_cond_wait may return without a signal.
SpuriousWake(t) ==
  /\ Step(t, "sleep", "take")
  /\ UNCHANGED <<readyVars, busy, start, taking, todo, sent, epicsVars>>

UpdatePV(t, p) ==
  /\ pc[t] = "update" /\ p \in todo[t]
  /\ data' = [data EXCEPT ![t][p] = sent[t] + 1]
  /\ todo' = [todo EXCEPT ![t] = @ \ {p}]
  /\ UNCHANGED <<readyVars, hookVars, lockVars, callVars, pc, taking, sent, epicsVars>>

InterlockSignal(t) ==
  /\ Step(t, "update", "idle")
  /\ todo[t] = {}
  /\ sent' = [sent EXCEPT ![t] = @ + 1]
  /\ request' = [request EXCEPT ![t] = TRUE]
  /\ UNCHANGED <<readyVars, busy, start, taking, todo, chain, toread, published>>

-------------------------------------------------------------------------------
(* EPICS: the I/O Intr scan of :TRIG processes its fanout down to :DONE.   *)

Chain(t, from, to) ==
  /\ chain[t] = from
  /\ chain' = [chain EXCEPT ![t] = to]
  /\ UNCHANGED <<readyVars, hookVars, lockVars, driverVars, published>>

ProcessTrig(t) ==
  /\ Chain(t, "none", "reading")
  /\ request[t]
  /\ request' = [request EXCEPT ![t] = FALSE]
  /\ toread' = [toread EXCEPT ![t] = PVs]

ProcessPV(t, p) ==
  /\ chain[t] = "reading" /\ p \in toread[t]
  /\ published' = [published EXCEPT ![t][p] = data[t][p]]
  /\ toread' = [toread EXCEPT ![t] = @ \ {p}]
  /\ UNCHANGED <<readyVars, hookVars, lockVars, driverVars, request, chain>>

\* :DONE calls interlock_done, which calls release_interlock.
ProcessDone(t) ==
  /\ Chain(t, "reading", "done")
  /\ toread[t] = {}
  /\ UNCHANGED <<request, toread>>

-------------------------------------------------------------------------------
(* init_hook at initHookAtEnd.                                             *)

HookGoes(from, to) ==
  /\ hook = from
  /\ hook' = to
  /\ UNCHANGED <<next, lockVars, driverVars, epicsVars>>

HookStart ==
  /\ HookGoes("before", "loop")
  /\ epics_ready' = TRUE
  /\ UNCHANGED <<notify_list, hookNext>>

\* The next pointer is read before the head of the list is released.
HookNext ==
  /\ HookGoes("loop", "release")
  /\ notify_list # Null
  /\ hookNext' = next[notify_list]
  /\ UNCHANGED <<epics_ready, notify_list>>

\* Seeded fault: the link is read after the release.
HookAdvanceLate ==
  /\ HookGoes("advance", "loop")
  /\ notify_list' = next[notify_list]
  /\ UNCHANGED <<epics_ready, hookNext>>

\* Seeded fault: only the head of the list is released.
HookReleasesOne ==
  /\ HookGoes("advance", "loop")
  /\ notify_list' = Null
  /\ UNCHANGED <<epics_ready, hookNext>>

HookAdvance ==
  /\ HookGoes("advance", "loop")
  /\ notify_list' = hookNext
  /\ UNCHANGED <<epics_ready, hookNext>>

HookDone ==
  /\ HookGoes("loop", "done")
  /\ notify_list = Null
  /\ UNCHANGED <<epics_ready, notify_list, hookNext>>

-------------------------------------------------------------------------------
(* release_interlock, called by the hook and by :DONE.                     *)

HookReleases(x) == hook = "release" /\ notify_list = x

ReleaseLock(x) ==
  /\ HookReleases(x) \/ \E t \in Threads : x = Static(t) /\ chain[t] = "done"
  /\ release[x] = "no"
  /\ release' = [release EXCEPT ![x] = "locked"]
  /\ busy' = [busy EXCEPT ![x] = FALSE]
  /\ UNCHANGED <<readyVars, hookVars, driverVars, epicsVars>>

ReleaseSignal(x) ==
  /\ release[x] = "locked"
  /\ release' = [release EXCEPT ![x] = "signalled"]
  /\ pc' = [t \in Threads |-> IF pc[t] = "sleep" /\ taking[t] = x THEN "take" ELSE pc[t]]
  /\ UNCHANGED <<readyVars, hookVars, busy, callVars, taking, updateVars, epicsVars>>

ReleaseUnlock(x) ==
  /\ release[x] = "signalled"
  /\ release' = [release EXCEPT ![x] = "no"]
  /\ IF HookReleases(x)
       THEN hook' = "advance" /\ UNCHANGED chain
       ELSE /\ chain' = [t \in Threads |-> IF x = Static(t) THEN "none" ELSE chain[t]]
            /\ UNCHANGED hook
  /\ UNCHANGED <<readyVars, hookNext, busy, driverVars, request, toread, published>>

Release(x) == ReleaseLock(x) \/ ReleaseSignal(x) \/ ReleaseUnlock(x)
Hook == HookStart \/ HookNext \/ HookAdvance \/ HookDone
Take(t) == TakeBlocks(t) \/ TakeForUpdate(t) \/ TakeForStart(t)
Process(t) == ProcessTrig(t) \/ (\E p \in PVs : ProcessPV(t, p)) \/ ProcessDone(t)
Drive(t) == Take(t) \/ (\E p \in PVs : UpdatePV(t, p)) \/ InterlockSignal(t)

Next ==
  \/ Hook
  \/ \E x \in Objects : Release(x)
  \/ \E t \in Threads : CreateInterlock(t) \/ WaitForEpicsStart(t) \/ InterlockWait(t)
  \/ \E t \in Threads : Drive(t) \/ SpuriousWake(t) \/ Process(t)

Spec == Init /\ [][Next]_vars

\* iocInit comes to its end, the callback task runs the scans it was asked for,
\* and a driver that has begun an update finishes it.  A spurious wakeup need
\* not happen, but the taking of a free mutex must not be starved by them.
FairSpec ==
  /\ Spec
  /\ WF_vars(Hook)
  /\ \A x \in Objects : WF_vars(Release(x))
  /\ \A t \in Threads : SF_vars(Drive(t)) /\ WF_vars(Process(t))

-------------------------------------------------------------------------------
(* Properties.                                                             *)

\* What EPICS publishes at :DONE is one update, all of it and the last one: the
\* "data seen over Channel Access is coherent".
Coherent ==
  \A t \in Threads, p \in PVs : chain[t] = "done" => published[t][p] = sent[t]

\* No update is begun before EPICS has published the one before it, so every
\* interlock_signal() is seen, and none is merged with a later one.
NoOverrun ==
  \A t \in Threads, p \in PVs : pc[t] = "update" => published[t][p] = sent[t]

\* The interlock in the frame of wait_for_epics_start() "will evaporate as soon as
\* we touch it": the hook never follows a pointer out of a frame that is gone.
Alive(x) == x \in Objects /\ \A t \in Threads : x = Frame(t) => start[t] = "waiting"
NotifyListAlive ==
  /\ hook \in {"loop", "release"} =>
       notify_list = Null \/ Alive(notify_list)
  /\ hook \in {"release", "advance"} => hookNext = Null \/ Alive(hookNext)

\* Everyone who waits, for the start of EPICS or for :DONE, is released, whatever
\* the order of the calls and of the hook.
WaitReturns == \A t \in Threads : pc[t] = "take" ~> pc[t] \in {"idle", "update"}

\* Nobody writes a PV before EPICS has finished its initialisation, "block until
\* EPICS had finished startup".
NothingBeforeReady ==
  \A t \in Threads : pc[t] = "update" \/ start[t] = "returned" => epics_ready
===============================================================================
