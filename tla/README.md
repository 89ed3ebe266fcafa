# Formal models of epics_device

`epics_device` is a C library that lets a driver publish EPICS records: it sits between
the threads of a driver, the record processing and start-up of an EPICS IOC, and a state
file in which the values of persistent records survive a restart. This directory holds
TLA+ models of its concurrent and its stateful parts, TLC configurations that check them
on small instances, and TLAPS proofs.

## Inventory

### Components

| component | source | state | operations |
|---|---|---|---|
| persistence: table, thread, files | `src/persistence.c` | table of variables, `persistence_dirty`, `thread_running`, mutex, state file, backup file | `create_persistent_waveform`, `read_`/`write_persistent_*`, `load_persistent_state`, `update_persistent_state`, `terminate_persistent_state`, the thread |
| persistence: file format | `src/persistence.c` 300-507 | line buffer | write of lines with continuation, line reader, parser |
| interlock, start of EPICS | `src/epics_extra.c` | `epics_ready`, `notify_list`, `busy` and mutex of each interlock | `create_interlock`, `interlock_wait`, `interlock_signal`, `:DONE`, `wait_for_epics_start`, init hook |
| IN records | `src/epics_device.c`, `src/epics_extra.c` | value, severity, timestamp, `ioscan_pending` | `trigger_record`, `set_record_*`, `_write_in_record`, init hook, `process_in_record` |
| OUT records | `src/epics_device.c` | VAL, `save_value`, `disable_write`, record mutex | binding, `init_out_record`, `process_out_record`, `_write_out_record` |
| waveform records | `src/epics_device.c` | length, array | `init_record_waveform`, `process_waveform`, adapters |
| publishing, binding, access by name | `src/epics_device.c`, `src/epics_device.h` | name prefix stack, table of records, `record_name` | `push_`/`pop_record_name_prefix`, `publish_epics_record`, `lookup_epics_record`, `init_record_common`, `check_unused_record_bindings`, `WRITE_`/`READ_NAMED_RECORD` |
| hash table | `src/hashtable.c` | slots, `entries`, `deleted` | insert, delete, lookup, resize, walk |
| database macros | `src/epics_extra.c` 270-336 | one text buffer | `database_add_macro`, `database_load_file` |
| errors | `src/error.c`, `src/error.h` | chains of messages | `error_extend`, `error_report`, the `TEST_` macros |
| put logging, shell commands | `src/pvlogging.c`, `src/shell_commands.c` | none worth a model | formatting, wrappers |
| builder | `epics_device/*.py` | none | writes the database, among others the chain from `:TRIG` to `:DONE` |

### How they interact

- EPICS calls the device support functions with the scan lock of the record held; these
  take the record mutex of the driver, call the driver, and for an OUT record store the
  accepted value in `save_value` and, under the persistence mutex, in the table.
- Threads of the driver call into the library at any time: `_write_out_record` takes the
  scan lock, `_write_in_record` takes nothing, `interlock_wait` waits for `:DONE`.
- The persistence thread sleeps on a timed condition and saves under the persistence
  mutex; `update_persistent_state()` is also public and takes no mutex.
- Two init hooks run in the thread that starts the IOC: one repeats the triggers that
  came too early, the other one releases whoever waits for the start.
- Both the records and the persistent variables live in hash tables, which are walked by
  the hook and by the save.

### What is hard here

Interleavings of driver threads, record processing, the persistence thread and the hooks;
errors of the file system and a process that stops at any point; values that are rejected
after they were put; a pointer into a stack frame on a shared list; triggers around the
moment at which EPICS begins to take them. `PROJECT.json` lists the hazards line by line
with the properties that cover them, or why none does yet.

What makes each component correct:

- **persistence**: the state file always holds one complete snapshot of the table, never
  an older one than before; the dirty flag is never lost; what is written is saved in the
  end and at shutdown; shutdown returns.
- **interlock**: EPICS publishes whole updates, each of them; nobody starts before EPICS
  is ready; everybody is released; the hook never reads a frame that is gone.
- **IN records**: after the last scan EPICS shows what was written last; a value is not
  shown with an older severity; with the mutex it is not torn.
- **OUT records**: a rejected write leaves the accepted value; the persistent value is
  the accepted one, also after a restart; `process = false` silences its own put only.
- **hash table**: it is a dictionary; every lookup ends; a walk meets each key once.
- **file format**: what is written is what is read back, up to the digits that are printed;
  a line that cannot be parsed does no harm to the others; the library does not refuse its
  own file.
- **publishing**: the prefix is that of the pushes left; one EPICS record is bound to each
  published one; a persistent variable is as long as the values of its record.
- **waveforms**: record and driver have one array and one length, and the persistent value
  is the one that is shown.

## Modules

| module | what it is |
|---|---|
| `StateStore` | what persistence promises: a table and a snapshot, replaced as a whole |
| `Persistence` | `src/persistence.c` without the text of the files; implements `StateStore` |
| `PersistenceProofs` | theorems about `Persistence` |
| `Interlock` | interlocks, `wait_for_epics_start()`, the init hook, the chain of records |
| `InterlockProofs` | theorems about `Interlock` |
| `InRecord` | writing, triggering, starting and processing of IN records |
| `InRecordProofs` | theorems about `InRecord` |
| `OutRecord` | one OUT record with its persistent variable |
| `OutRecordProofs` | theorems about `OutRecord` |
| `StateText` | `persistent_actions` of `src/persistence.c`: values as text and back |
| `StateFile` | the writer and the parser of the state file, and an editor of it |
| `StateFileProofs` | theorems about `StateFile` |
| `Publish` | names, publishing, binding and access by name of `src/epics_device.c` |
| `PublishProofs` | theorems about `Publish` |
| `Waveform` | one waveform record, its adapter, the variable of the driver, persistence |
| `WaveformProofs` | theorems about `Waveform` |
| `Dict` | what a hash table promises |
| `HashTable` | `src/hashtable.c`; implements `Dict` |
| `HashTableProofs` | theorems about `HashTable` |
| `MC*` | instances for TLC; the `.cfg` files give the constants |

Definitions marked "Seeded fault" are variants of the action that follows with a plausible
mistake in it; no specification uses them. Put in the place of the action, each makes a
run fail, which shows that the property depends on what the code does there.

### Persistence

A value is the number of the write that stored it, so that "older" can be said; 0 is a
variable of length 0. A file is an inode with the lines it holds, and `state` and `backup`
are the inodes of the two names; this is what makes `fopen("w")` on a file that another
thread has just renamed visible. Every saver has a stream with a buffer of lines that
reach the inode when stdio flushes it, at any time, or at `fclose`.

`WriteBegin`/`WriteEnd` are the critical section of `write_persistent_waveform` with the
test for a change apart from the copy, so that a saver without the mutex can read a value
half copied (`Torn`). `ThreadStart`, `ThreadWake` and `ThreadLoop` are the loop of the
thread; the signal of `terminate_persistent_state` is not recorded, because the timed wait
may return without it. The `Update...` actions are `update_persistent_state` and
`write_persistent_state`, one for each call on a file, for the thread and for any thread
in `Updaters`. `Crash` and `Exit` leave only the files.

Not modelled here: the text of the file, which is in `StateFile` (lines are kept or lost as
a whole), a load that cannot open the file (also there), a write of length 0 (in `Waveform`), a
loss of power (the code does not call `fsync`; only the process stops), a second
call of `load_persistent_state` while the thread runs, and what `pthread_join` does with the
thread id 0 if `terminate_persistent_state` follows a load that was refused.

### StateText and StateFile

A text is a sequence of tokens: a character of a string, a number, or the name of a
variable. `Printed` and `Scanned` are `fprintf` and `strtol`, `strtof` or `strtod`; `Printed`
need not be one to one, since `%.8g` is one digit short for a float, and the text of a
denormal number is not in `Scanned`, since `strtod` sets `errno` for it. `Octal` has the digits
of the characters that are escaped; `Decoded` is what `parse_octal()` makes of any three digits,
also of those that the library never writes. One character they may give is `Nul`: the string
ends there, whatever comes after it.

The file is a sequence of paragraphs, each with the variable that owns it, so that what an
editor has broken can be told from what it has not (`touched`). That is not only the paragraph
that was edited: a line that lost its newline takes the next one with it, and so does one with
a backslash where a value should be. `Spills` says which texts can do so, and the paragraphs
behind such a text count as touched. `rest` is what `fgets()` has not read yet (`Contents` of the
file at first). Numbers and names count as one character for the length of a line
(`LineLength`); the assumption on `BufferSize` is what the code has with 72, 1024 and the
longest string that is escaped throughout.

Each step of the parser is a
call of `fgets()` or a round of a loop: a line (`ParseLine`), the part before the `=`
(`ParseAssignment`), a value with the continuation before it (`ParseElement`), the end of
the values, a line that is flushed. The variables of the later process (`declared`) may
differ from those that wrote the file. `write_lines` and the readers are functions; the
order of the lines is any. The parser holds the persistence mutex and nothing runs beside
it, which is why this is not part of `Persistence`. If `fopen()` fails on a file that is there, the
code takes it for a missing one: the process runs with its variables unset (`unopened`) and its
next save replaces the file. `Restored` is about the processes that have opened the file. An
error of `fgets()` other than the end of the file is left out.

### Publish

`name_prefix` is the static structure with its buffer; a text is a sequence of characters,
so that lengths are those of the code, with smaller limits. `pushed` and `published` are
history: what the application meant. `fail_on_error()` ends the process (`Die`).
`PersistentType`, `PersistentSize` and `ValueSize` are the three tables of types that have to
agree. `InitRecord` is device support for one EPICS record; what fails after the binding is
not undone, except that a waveform loses its `dpvt` but keeps `record_name`. A record is bound
if it has a `dpvt`: the refused waveform is not, and no EPICS record processes it. The types
are those of the header, with `waveform_TYPE_void`, for which there is no type of persistent
variables and no `FTVL` except `NOACCESS`, which the databases do not have. The default
mutex, `ioscan_pending` (in `InRecord`) and the check of `set_time` are left out.

### Waveform

The elements of an array are numbers of puts or updates, so that an array that is half of one
and half of another can be told. `published` chooses the adapter of the `PUBLISH_WF_` macros,
with a length (`current_length`) or without, persistent or not. The steps of
`process_waveform()` are actions of the thread that holds the scan lock; the driver updates
the array of a reader under the record mutex, and its length may be anything. An action is
taken to leave the array alone. Severities and timestamps are as in `InRecord` and left out.

### Interlock

One interlock for each thread, and one in the stack frame of `wait_for_epics_start()`.
`next` of a frame that is gone is `Junk`. `release_interlock` is split into lock, signal
and unlock, since the waiter can run between them. EPICS is the chain that the builder's
`Trigger` makes: `:TRIG`, the PVs, `:DONE`. The content of a PV is the number of the
update.

### InRecord

A write puts its number into severity, the two halves of the value, and the timestamp, one
after the other as in `_write_in_record`; processing reads them in the order of
`process_in_record`. `interruptAccept`, the hook and `ioscan_pending` decide whether a
trigger is a scan. Each write is a whole one: `WRITE_IN_RECORD_SEV`, which has no value, and a
write without a timestamp are left out, so that one number tells all four fields of a write.
The drivers of some records of `MayLock`, chosen at the start, hold
the record mutex around their writes. For those in `Relaxed` the store to
`ioscan_pending`, a plain `bool` that another thread reads, may be seen late.

### OutRecord

One record, put by Channel Access clients and by driver threads, processed under the scan
lock, with the record mutex inside. The put is modelled with the lock taken, so that the
steps of `process_out_record` are steps of the holder; the persistence thread and the
restart come between them. The PINI processing at the start is done by the scan task.
A record with a SCAN field that does not fit is bound but not `initialised`. `told`,
`accepted` and `initial` are history.

### HashTable

The slots, the counts and the probe sequence of `lookup()`, for every order of calls.
Hash values have the width given by `HashMax`, with 0 and the greatest value reserved.
The lifetime of copied keys is left out. A walk is given up by an insertion or a resize,
as the header demands, but not by a deletion.

## Runs

Each module has one passing run, `Persistence` has two. Where properties of several
kinds are checked in one run, the specification is the one with fairness.

| run | instance | what it shows |
|---|---|---|
| `persistence_safe` | 2 variables, 2 writers, 2 changes of each variable, 3 faults of open, rename or crash | a clear flag means a saved table (`CleanMeansSaved`), a save is whole (`FileInv`), the state file is replaced by rename only, table and file implement `StateStore` |
| `persistence_live` | 1 variable, 1 writer, 2 changes, 2 faults of any kind | the mutex is respected, what is written is saved, also at shutdown, and shutdown returns |
| `interlock` | 2 threads, 2 PVs, 2 updates | EPICS reads whole updates and each of them, the hook reads no dead frame, nothing starts early, every wait returns |
| `in_record` | a record written twice, with the mutex and without; one written once with a delayed store | no trigger is lost, severity not older than the value, no torn value under the mutex, every write is shown |
| `out_record` | 1 client, 2 driver threads, 3 puts, 1 restart, binding errors | rejected writes restore the accepted value, the persistent value is the accepted one, a put reaches the driver if and only if it asks for it, every put ends |
| `hash_table` | 5 colliding keys, tables of 8 and 16 | counts, end of lookups, one slot for a key, walks, every call agrees with `Dict` |
| `state_file` | 3 variables of 3 types, lines wrapped after 3 characters, 1 edit, 1 restart with 5 sets of variables | a variable that is not named in broken text is restored, also next to what cannot be parsed; a file of the library raises no error; every load ends |
| `publish` | buffers of 6, 2 and 3, two prefixes, three separators, 2 of 7 publications, 3 databases | no buffer overruns, names are those meant, one EPICS record to each published one, sizes of persistent variables |
| `waveform` | length 2, 1 client, 2 driver threads, 3 changes, 1 restart | record and driver have one array and length, the persistent value is the one shown |

Three more runs end in a violation. Each property is what a comment or a page of the
documentation says (`findings` in `PROJECT.json` quotes them):

- `persistence_race`: two callers of `update_persistent_state()` share a backup file and
  one of them writes the state file in place; the example IOC calls it from a record.
- `persistence_disk_full`: a short backup file replaces the good state file.
- `out_record_binding`: after a binding error a rejected write restores garbage.

Where a flaw would hide everything else, the passing runs say what holds apart from it, and
the clause that does so is the flaw:

- `CleanMeansSaved`, while no save of the process has failed: `persistence_dirty` is cleared
  after a save that failed, and the change is not tried again.
- `WrittenIsSaved`, once the thread has had the mutex: if `terminate_persistent_state()` is
  faster, the thread leaves without a save.
- `UpToDate`, for the records that are not in `Relaxed`: nothing orders the store to
  `ioscan_pending` before `scanIoRequest()`, and a trigger may be lost if it is seen late.
- `RejectedIsRestored`, for a record that `init_out_record` has initialised.
- `BoundByName`: `check_unused_record_bindings()` counts the published records that are not
  bound if no waveform is refused (`AllFit`). One that `check_waveform_type()` refuses has no
  `dpvt` but keeps `record_name`, and `record_name` is what is looked at: the record is not
  among those reported, against `docs/epics_device.rst:62-63` and `epics_device.h:255-257`,
  and a right EPICS record that follows is refused too. TLC shows the miscount in the
  instance of `publish` if `UnboundAreCounted` is checked instead.
- `NoFalseAlarm`, for values that can be read: a denormal number that the library has
  written makes it refuse its own file with `check_parse`, and is lost without.

Other things that the models do as the code does, and that differ from what one might
expect: a blank line is an error, as the newline that is compared with has been removed;
`LOOKUP_RECORD` ends the process for a name that does not exist, where
`docs/epics_device.rst` promises `NULL`; after a load that could not open the state file the
next save replaces it; `READ_RECORD_VALUE_WF` ends the process if the waveform is shorter than asked
for, which a short put with `process` false makes possible for any waveform.

### Bounds

`MaxVersion`, `MaxFaults`, `MaxUpdates`, `MaxWrites`, `MaxPuts`, `MaxChanges`,
`MaxRestarts`, `MaxEdits`, `MaxRecords`, `Sizes`, `TableSizes` and `MaxPerturb` are the
bounds. Two variables are needed for a file that is half new and half old, two writers for a
write during a write that waits, three inodes for state, backup and a new file, three faults
for a failure after a crash after a failure.
Two updates, writes or puts are needed to see one overtake another, and a third put to see
what the second left behind. Five keys with tombstones fill the initial table of eight
slots over two thirds, so that insertion resizes, and could fill it altogether if
tombstones were not counted. There is one value, with which a key is in the table or not; that
a value is overwritten and the old one returned is shown by `TableIsDictionary`, for any values.
A walk ends before or after each key.
One edit breaks a line in every way that the parser tells apart, and three elements make
two continuation lines of one variable, a second one behind the one that fails. The buffer
of 19 is the least that the assumption allows for lines of 3 and strings of 2, and little more
than the longest line. Two prefixes fill the stack of two, and prefix and separator of two characters end at, before and behind
the end of the buffer of six; two records are the least that can share a name in EPICS.
Arrays of two elements have a part that is put and a part that is not, and three changes let
a put, an update and another put meet. Numbers of updates stop at their bounds, and
`fail_on_error()` ends the process, which is why the runs of `Interlock`, `InRecord`,
`StateFile`, `Publish` and `Waveform` do not check deadlock: they stop when all is done.

### Fairness

Threads that can run do so (weak fairness of each step of the persistence thread, of the
hook, of scans, of a write that has begun), and a mutex that is free again and again is
given in the end to a thread that waits for it (strong fairness where the guard is a
mutex). The parser of the state file goes on. Nothing makes an application write,
terminate, save or load, and nothing makes a fault or a spurious wakeup happen. The timed wait of the persistence thread always ends, by its
timeout.

## Proofs

`PersistenceProofs` proves for all values of the constants:

- `TypeCorrect`, `LockCorrect`: the types and the discipline of the mutex, with any number
  of threads in `update_persistent_state()` and any faults. The two are one inductive
  invariant: the type of the table needs that a writer which stores holds the mutex and so
  has a write.
- `SaveCorrect`, `RenameOnly`, `Refinement`, for a process where only the persistence
  thread saves and writes of a stream do not fail (`SoleSaver`; the two violations
  `persistence_race` and `persistence_disk_full` show why both are needed). The inductive
  invariant is `TypeOK /\ LockInv /\ FileInv`. `FileInv` says what the save in progress has
  reached: flushed lines and buffered lines together are the table as far as the walk has
  come. That the table does not change meanwhile is `LockInv`. So the file is the table
  when it is renamed, and the step of `rename` is the step `StoreSave` of `StateStore`;
  all other steps of the save leave the snapshot alone, as the state file and the backup
  file are never one inode.
- `CleanCorrect`, under the same assumption, for as long as no save of the process has
  failed (`failed`): `CleanInv` adds that a writer which found nothing new has nothing new
  to store, and that the save has been done when the thread comes to clear the flag.

`WaveformProofs` proves for any number of clients and driver threads, any length of the
array and any number of steps, with `WaveformAssumption` only (the clients, the threads of
the driver and the scan task are different, and `Nobody` is none of them):

- `WaveformTypes`: the types, and that no length of the driver leaves the array.
- `WaveformAgrees`, `WaveformPersists`: the two properties of the run `waveform`. They speak
  of a record at rest; the inductive invariant `IInv` says what holds while it is processed.
  `LockInv` gives each lock one holder, so that the array and the length of a step are those
  of the step before. `OfferedInv` and `CopyInv` say how far the adapter has come, `QuietInv`
  that a put without processing is under way while `disable_write` is set, and `DownInv` that
  nothing is set before `iocInit()`. `TableInv` is the persistent value at the points where
  it has caught up; a restart needs the lemma `Reload`: what is saved is what is shown after
  it was loaded.

`OutRecordProofs` proves for any number of clients and driver threads, puts and restarts
`OutRecordTypes`, `OutRecordRestores`, `OutRecordMirrors` and `OutRecordTells`, the four
invariants of the run `out_record`. In its `IInv`, `LockInv` gives the scan lock one holder
and `QuietInv` ties `disable_write` to the quiet put of this holder, so that it silences no
other. `PutInv` says that a value is never that of a put to come, and whether the put in
progress has been told to the driver yet. `ValueInv` and `TableInv` follow a value on its
way: what was not accepted is in VAL only, and the table is one step behind `save_value`.

`InRecordProofs` proves for any set of records and any number of writes `InRecordTypes`,
`NoTriggerLost`, `SeverityFollows` and `NeverTorn`. There is one part of the invariant for
each. `ScanOK`: either a scan is still to begin (`Owed`: the driver will ask for it, it is
queued, or the hook will find the record pending), or what is shown is what is there, and so
is all that the scan in progress has read. `StartInv` has the order of `interruptAccept` and
the walk, without which a trigger could fall between the two. `SeverityOK` orders the numbers
of the writes: value behind severity in the record, in what the scan has read, and in what is
shown. `TornOK` is about the records whose driver takes the mutex. A step touches one record
only: the lemmas about the effects say what it does to that one, and the rest is one case.

`InterlockProofs` proves for any set of threads and PVs and any number of updates
`InterlockTypes`, `HookFollowsLiving`, `NobodyBeforeReady`, `EachUpdateIsRead` and
`UpdatesAreCoherent`. The difficult one is the list. `IsList` says without recursion, for the
objects that are still on it, that no link leaves them, none leads back to the beginning and
no two lead to the same object. An object is on the list as long as it is busy only because
EPICS has not started (`Unused`), and what is busy for that reason cannot return, so its frame
lives. `HookOK` keeps the object that is being released apart, and `ListOK` is about those
behind it: the hook has read the link before it lets the owner of the frame go. `OwnerOK` and
`ReleaseOK` say who has an interlock at each moment, and `DataOK` what is in the PVs then.

`PublishProofs` proves for any texts, publications and EPICS databases, any lengths of the
buffers and any sequence of calls, from `PublishAssumption` only (texts are of the given
characters, types are those of the header, no EPICS waveform has the `FTVL` of a void one, a
buffer for the separator has room for `:`):

- `PublishTypes`, `PrefixOfStack`: the stack of prefixes. `StackOK` says that the k-th offset
  is the length of the first k - 1 texts joined. To pop is then to take the first part of a
  text that was joined from the first part and the last text, which needs what `FlattenSeq`
  does with one text more (`FlattenAppend`).
- `BoundByTheirNames`: `TableOK` says that the table leads from each key to its record, `BindOK`
  that among the EPICS records that `iocInit()` has been through each one with a `dpvt` has that
  of a record it refers to and fits, no two have the same, and a published record that one refers
  to is bound unless it was claimed by one that does not fit. `ClaimedIsBound` closes the gap
  between `record_name` and `dpvt` where all fit, which is what the count needs. The lemma `KeyTells` (a key tells the name and the type,
  as EPICS calls it) makes the search by key a search by type and name; this uses that EPICS
  has no unsigned types.
- `PersistentHasRoom`: the three tables of types agree for every type, and no record gets a
  variable of another one.

`HashTableProofs` proves for any keys and values, any hash function of any width and any
sequence of calls, from `HashTableAssumption` only. This says that there are finitely many
keys, that the sizes are the powers of two from `INITIAL_SIZE` on, as many as the keys and the
calls of `hash_table_resize()` need (a table that needs a greater one is beyond the memory of
the machine), and that `MaxPerturb` shifts leave nothing of a hash value:

- `LookupsEnd`: `EverySlotProbed` is the lemma below all the others. When `perturb` is used up
  (`PerturbEnds`) the probes go on with `i -> 5 i + 1`, modulo a power of two. That this has one
  cycle is shown by doubling: p steps, p a power of two, add p times an odd number (`Jump`),
  so that fewer than 2 p steps never add a multiple of 2 p (`Apart`) and the slots of the last
  steps are all different, as many as there are. An empty slot is left, as `Counted` has
  `3 * entries < 2 * (size - 1)` for the table that each call leaves.
- `EachIsFound`: in a `Good` table every key in use is on its own probes with no match and no
  empty slot before it. To insert into a tombstone on the way or to turn a key into a tombstone
  keeps this for all other keys; to make the slot empty would not. `RehashedIs` follows the
  copying of `resize_table()` slot by slot: the new table is `Good` and has the same keys with
  the same values.
- `HashTableTypes`: the counts are the cardinalities of the slots that are not empty and of the
  tombstones.
- `WalksVisitOnce`: `Walked` says that no key behind the index is still to come and each key
  still to return is in a slot that is to come. The step of `hash_table_delete()` keeps it
  because a deletion moves no key.
- `TableIsDictionary`: the values that lookups show change as those of a dictionary do; a
  resize or a step of a walk is a stutter.

`StateFileProofs` proves for any variables, values, strings, edits and restarts, any set of
escaped characters, any lengths of strings and lines and any order of the hash table, from
`StateTextAssumption` and `StateFileAssumption` only. These say that the escapes are three octal
digits, from which the character is decoded, that quote, backslash and newline are among the characters that are escaped,
that numbers and names hold no special character, and that the line with the longest string fits
in the buffer.

- `TypeCorrect`: `TypeInv` adds what the texts and the values are made of. The readers leave a
  part of the text they are given (`ReadValueWithin`), so that all stays within the buffer.
- `RestoredAlways`, `NoFalseAlarmAlways`: the inductive invariant is `TypeInv`, `FileOK` and
  `Phases`. `FileOK` is the file as save and editor leave it: a paragraph that is not in
  `touched` is what `WriteLines` makes of the saved values, each variable has at most one, and
  the text in front of such a paragraph does not spill into it. `Phases` says where a process
  is; while it parses it is at one of five places of a paragraph: before one (`AtParagraph`), at
  the line of a variable (`Start`), after some of its values (`Value`), in what is left of one
  that was given up (`Garbage`), or in text that the editor has broken (`Loose`). `Done` says of
  the paragraphs in front of that place that their variables have come back, and of all others
  that they have no value yet. Neither property is inductive: both speak of the end of a load,
  and only the place says that the text to come is still that of the save, or that what is
  parsed out of a broken text can name no other variable.
- The lemmas go from characters to files. `ReadWritten`: whatever type reads the text of a
  value, it takes exactly this text or fails, and it gets the value back if the type is that of
  the writer; for strings that is a loop of reading against a loop of writing
  (`ReadWrittenString`). `LineOf`: what is left to write of a variable is one line and the lines
  that continue it, each short enough for the buffer. `FillWritten`: `fill_line_buffer()`
  passes from one to the next and never into another variable. `ReadLoose` and `FillLoose`:
  reading in a broken text leaves it only at its last newline. `EditFile`: an edit touches all
  that it can spill into.

The recursive functions in these modules (`FlattenSeq`, the loops of `read_string()` and
`write_lines()`, the probes) are not out of reach of the proofs: each module begins with
induction for a set of numbers, where the library has a predicate (`SetInduction`), and derives
from it that the functions exist and which equations they satisfy.

Checked by TLC only are the liveness properties (`WrittenIsSaved`, `TerminateReturns`,
`WaitReturns`, `WriteIsShown`, `PutEnds`, `LoadEnds`), which need fairness. Every invariant and
every action property of the passing runs is a theorem.

## Plan

1. Done: `Persistence`, `Interlock`, `InRecord`, `OutRecord`, `HashTable`,
   `StateText` and `StateFile`, `Publish`, `Waveform`.
2. Proofs. Done: all invariants, action properties and refinements of the passing runs.
3. Compositions: `Interlock` with the record mutex of `InRecord`; `OutRecord` with
   `Persistence`; `StateFile` as the file of `Persistence`.

## Not modelled

- Error chains (`src/error.c`), put logging and database macros: text and its memory.
- Shell commands: a check of the interval in front of `load_persistent_state()`.
- The Python builder apart from `Trigger`, the examples, the build files.
- Merging of equal writes (`merge_update`): such a write returns without a change of state.
- `get_current_epics_record()`: a variable of the thread, set around the calls of the driver.
- `set_record_timestamp()` of a waveform, which reads a byte that is not part of the union
  member of a waveform; the effect depends on the heap.
- A full callback ring of EPICS: `scanIoRequest()` is taken to reach a scan.
