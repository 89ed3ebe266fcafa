------------------------------- MODULE Publish -------------------------------
(***************************************************************************)
(* Publishing and binding in epics_device.c: the driver publishes records  *)
(* under names that a stack of prefixes completes; in iocInit() each       *)
(* record of the EPICS database looks for the published record of its type *)
(* and address; later the driver reaches EPICS records by these names.     *)
(*                                                                         *)
(* A text is a sequence of characters, and a name of a type is one of      *)
(* them.  All of this runs in one thread; the hazards are in the sequence  *)
(* of the calls.  A failure that the code answers with fail_on_error() or  *)
(* ASSERT_OK() ends the process.                                           *)
(***************************************************************************)
EXTENDS Integers, Sequences, SequencesExt, FiniteSets

CONSTANTS
  PrefixLength,     \* MAX_NAME_PREFIX_LENGTH, 80 in the code
  PrefixCount,      \* MAX_NAME_PREFIX_COUNT, 8 in the code
  SeparatorLength,  \* MAX_NAME_SEPARATOR_LENGTH, 8 in the code
  Chars,            \* The characters of names
  NamePrefixes,     \* Arguments of push_record_name_prefix()
  Separators,       \* Arguments of set_record_name_separator()
  Publications,     \* What the driver may publish: [record_type, name, args]
  Databases,        \* EPICS databases: functions, PV to its fields
  Requests,         \* Accesses by name: [record_type, name, length]
  NoPV,             \* No EPICS record
  MaxRecords        \* Bound: records that are published

InTypes == {"longin", "ulongin", "ai", "bi", "stringin", "mbbi"}
OutTypes == {"longout", "ulongout", "ao", "bo", "stringout", "mbbo"}
RecordTypes == InTypes \union OutTypes \union {"waveform"}
FieldTypes == {"void", "char", "short", "int", "float", "double", "EPICS_STRING"}

Text == Seq(Chars)
ArgTypes == [persist : BOOLEAN, io_intr : BOOLEAN, max_length : Nat, field_type : FieldTypes]

\* The separator there is at the start has room; the unsigned types are not of EPICS, and
\* DBF_NOACCESS, which a waveform of void asks for, is no FTVL.
ASSUME PublishAssumption ==
  /\ PrefixLength \in Nat \ {0} /\ SeparatorLength \in Nat \ {0, 1}
  /\ PrefixCount \in Nat /\ MaxRecords \in Nat
  /\ ":" \in Chars /\ NamePrefixes \union Separators \subseteq Text
  /\ Publications \subseteq [record_type : RecordTypes, name : Text, args : ArgTypes]
  /\ \A db \in Databases :
       /\ NoPV \notin DOMAIN db
       /\ \A pv \in DOMAIN db : /\ db[pv].record_type \in RecordTypes \ {"ulongin", "ulongout"}
                                /\ db[pv].address \in Text
                                /\ db[pv].ftvl # "void"
  /\ \A request \in Requests : request.record_type \in RecordTypes /\ request.name \in Text

VARIABLES
  name_prefix,    \* The static struct: length, prefix, separator and the offsets in use
  records,        \* The struct epics_record of each publication
  hash_table,     \* Key to record
  variables,      \* variable_table of persistence.c: key to type and length
  database,       \* The EPICS database
  dpvt,           \* DPVT of each of its records: a published record, or 0
  phase,          \* "publish", "init" in iocInit(), "run", or "dead"
  visited,        \* EPICS records that iocInit() has been through
  reported,       \* Results of check_unused_record_bindings()
  reached,        \* The last access by name: a request and the EPICS record
  pushed,         \* History: the prefixes pushed and not popped, with their separators
  published       \* History: the names that were meant

naming  == <<name_prefix, pushed>>
store   == <<records, hash_table, variables, published>>
ioc     == <<database, dpvt, visited>>
vars    == <<naming, store, ioc, phase, reported, reached>>

Init ==
  /\ name_prefix = [length |-> 0, prefix |-> <<>>, separator |-> <<":">>, offsets |-> <<>>]
  /\ records = <<>>
  /\ hash_table = << >>
  /\ variables = << >>
  /\ database \in Databases
  /\ dpvt = [pv \in DOMAIN database |-> 0]
  /\ phase = "publish"
  /\ visited = {}
  /\ reported = <<>>
  /\ reached = [request |-> "none", pv |-> NoPV]
  /\ pushed = <<>>
  /\ published = <<>>

-------------------------------------------------------------------------------
(* Names.                                                                  *)

\* The unsigned types are those of EPICS under another name.
TypeName(record_type) ==
  CASE record_type = "ulongin"  -> "longin"
    [] record_type = "ulongout" -> "longout"
    [] OTHER -> record_type

Key(record_type, name) == <<TypeName(record_type), ":">> \o name

\* fail_on_error() and ASSERT_OK(): the process ends.
Die == phase' = "dead" /\ UNCHANGED <<naming, store, ioc, reported, reached>>

SetRecordNameSeparator(separator) ==
  /\ phase = "publish"
  /\ IF Len(separator) < SeparatorLength
     THEN /\ name_prefix' = [name_prefix EXCEPT !.separator = separator]
          /\ UNCHANGED <<pushed, store, ioc, phase, reported, reached>>
     ELSE Die

\* Seeded fault: the separator is not counted.
PushUnmeasured(prefix) ==
  /\ phase = "publish"
  /\ IF /\ Len(name_prefix.offsets) < PrefixCount
        /\ name_prefix.length + Len(prefix) < PrefixLength
     THEN /\ name_prefix' = [name_prefix EXCEPT
               !.prefix = @ \o prefix \o name_prefix.separator,
               !.length = @ + Len(prefix) + Len(name_prefix.separator),
               !.offsets = Append(@, name_prefix.length)]
          /\ pushed' = Append(pushed, prefix \o name_prefix.separator)
          /\ UNCHANGED <<store, ioc, phase, reported, reached>>
     ELSE Die

\* Seeded fault: the offset is taken between the prefix and its separator.
PushOffsetLate(prefix) ==
  /\ phase = "publish"
  /\ LET text == prefix \o name_prefix.separator
         length == name_prefix.length + Len(text)
     IN IF Len(name_prefix.offsets) < PrefixCount /\ length < PrefixLength
        THEN /\ name_prefix' = [name_prefix EXCEPT
                  !.length = length,
                  !.prefix = SubSeq(@, 1, name_prefix.length) \o text,
                  !.offsets = Append(@, length - Len(name_prefix.separator))]
             /\ pushed' = Append(pushed, text)
             /\ UNCHANGED <<store, ioc, phase, reported, reached>>
        ELSE Die

PushRecordNamePrefix(prefix) ==
  /\ phase = "publish"
  /\ LET text == prefix \o name_prefix.separator
         length == name_prefix.length + Len(text)
     IN IF Len(name_prefix.offsets) < PrefixCount /\ length < PrefixLength
        THEN /\ name_prefix' = [name_prefix EXCEPT
                  !.length = length,
                  !.prefix = SubSeq(@, 1, name_prefix.length) \o text,
                  !.offsets = Append(@, name_prefix.length)]
             /\ pushed' = Append(pushed, text)
             /\ UNCHANGED <<store, ioc, phase, reported, reached>>
        ELSE Die

PopRecordNamePrefix ==
  /\ phase = "publish"
  /\ IF name_prefix.offsets # <<>>
     THEN /\ name_prefix' = [name_prefix EXCEPT
               !.length = Last(name_prefix.offsets),
               !.prefix = SubSeq(@, 1, Last(name_prefix.offsets)),
               !.offsets = Front(@)]
          /\ pushed' = Front(pushed)
          /\ UNCHANGED <<store, ioc, phase, reported, reached>>
     ELSE Die

-------------------------------------------------------------------------------
(* Publishing.                                                             *)

\* Bytes of the types of PERSISTENCE_TYPES, and of the values that the records hold.
PersistentSize == [bool |-> 1, char |-> 1, short |-> 2, int |-> 4, float |-> 4,
                   double |-> 8, string |-> 40]
ValueSize == [bi |-> 1, bo |-> 1, longin |-> 4, ulongin |-> 4, longout |-> 4, ulongout |-> 4,
              ai |-> 8, ao |-> 8, stringin |-> 40, stringout |-> 40, mbbi |-> 2, mbbo |-> 2,
              char |-> 1, short |-> 2, int |-> 4, float |-> 4, double |-> 8,
              EPICS_STRING |-> 40]

\* Seeded fault: mbbo is taken for an int.
PersistentTypeInt(type) ==
  CASE type \in {"longout", "ulongout", "mbbo", "int"} -> "int"
    [] type \in {"ao", "double"} -> "double"
    [] type = "bo" -> "bool"
    [] type \in {"stringout", "EPICS_STRING"} -> "string"
    [] type = "short" -> "short"
    [] type \in {"char", "float"} -> type

PersistentType(type) ==
  CASE type \in {"longout", "ulongout", "int"} -> "int"
    [] type \in {"ao", "double"} -> "double"
    [] type = "bo" -> "bool"
    [] type \in {"stringout", "EPICS_STRING"} -> "string"
    [] type \in {"mbbo", "short"} -> "short"
    [] type \in {"char", "float"} -> type

\* What is persistent and what is scanned depends on the class of the record.
Persists(record_type, args) == record_type \notin InTypes /\ args.persist
ScansOnInterrupt(record_type, args) == record_type \notin OutTypes /\ args.io_intr

NewRecord(record_type, key, args) ==
  [ key         |-> key,
    record_type |-> record_type,
    record_name |-> NoPV,
    max_length  |-> IF record_type = "waveform" THEN args.max_length ELSE 1,
    ioscanpvt   |-> ScansOnInterrupt(record_type, args),
    persist     |-> Persists(record_type, args),
    field_type  |-> IF record_type = "waveform" THEN args.field_type ELSE record_type ]

CreatePersistentWaveform(key, type, max_length) ==
  [k \in DOMAIN variables \union {key} |->
     IF k = key THEN [type |-> type, max_length |-> max_length] ELSE variables[k]]

\* ASSERT_FAIL() of waveform_type_to_persistence().
HasPersistentType(base) == base.persist => base.field_type # "void"

PublishEpicsRecord(p) ==
  /\ phase = "publish"
  /\ Len(records) < MaxRecords
  /\ LET key  == Key(p.record_type, name_prefix.prefix \o p.name)
         base == NewRecord(p.record_type, key, p.args)
     IN IF key \notin DOMAIN hash_table /\ HasPersistentType(base)
        THEN /\ records' = Append(records, base)
             /\ hash_table' = [k \in DOMAIN hash_table \union {key} |->
                                 IF k = key THEN Len(records') ELSE hash_table[k]]
             /\ variables' = IF base.persist
                             THEN CreatePersistentWaveform(key, PersistentType(base.field_type),
                                                           base.max_length)
                             ELSE variables
             /\ published' = Append(published, FlattenSeq(pushed) \o p.name)
             /\ UNCHANGED <<naming, ioc, phase, reported, reached>>
        ELSE Die

-------------------------------------------------------------------------------
(* Binding.                                                                *)

IocInit ==
  /\ phase = "publish"
  /\ phase' = "init"
  /\ UNCHANGED <<naming, store, ioc, reported, reached>>

\* The record that the EPICS record pv names, or 0.
Handler(pv) ==
  LET key == Key(database[pv].record_type, database[pv].address)
  IN IF key \in DOMAIN hash_table THEN hash_table[key] ELSE 0

\* Tests that follow the binding: what fails here leaves record_name as it is.
ScanFits(pv, base) == database[pv].io_intr = base.ioscanpvt
TypeFits(pv, base) ==
  database[pv].ftvl = base.field_type /\ database[pv].nelm = base.max_length

\* What init_record_waveform() answers with DPVT = NULL; the other records keep DPVT.
Refused(pv, base) ==
  database[pv].record_type = "waveform" /\ ~(ScanFits(pv, base) /\ TypeFits(pv, base))

Bind(pv, found) ==
  /\ phase = "init"
  /\ visited' = visited \union {pv}
  /\ IF found = 0
     THEN UNCHANGED <<records, dpvt>>
     ELSE /\ records' = [records EXCEPT ![found].record_name = pv]
          /\ dpvt' = [dpvt EXCEPT ![pv] = IF Refused(pv, records[found]) THEN 0 ELSE found]
  /\ UNCHANGED <<naming, hash_table, variables, published, database, phase,
                 reported, reached>>

\* Seeded fault: a record that is bound is bound again.
InitRecordAgain(pv) == Bind(pv, Handler(pv))

\* init_record_common() and, for a waveform, what init_record_waveform() does when it or
\* check_waveform_type() fails: nothing processes the record, which goes on claiming the
\* published one from any that follows.
InitRecord(pv) ==
  Bind(pv, IF Handler(pv) # 0 /\ records[Handler(pv)].record_name = NoPV
           THEN Handler(pv) ELSE 0)

IocRuns ==
  /\ phase = "init"
  /\ visited = DOMAIN database
  /\ phase' = "run"
  /\ UNCHANGED <<naming, store, ioc, reported, reached>>

-------------------------------------------------------------------------------
(* Using the bindings.                                                     *)

CheckUnusedRecordBindings ==
  /\ phase = "run"
  /\ reported' = <<Cardinality({i \in DOMAIN records : records[i].record_name = NoPV})>>
  /\ UNCHANGED <<naming, store, ioc, phase, reached>>

\* lookup_epics_record(), which knows no prefix.
LookupSucceeds(request) == Key(request.record_type, request.name) \in DOMAIN hash_table
LookedUp(request) == records[hash_table[Key(request.record_type, request.name)]]

\* record_to_dbaddr(): the names of two types may be one key.
HasAddress(base, request) ==
  /\ base.record_type = request.record_type
  /\ request.length <= base.max_length
  /\ base.record_name # NoPV

\* WRITE_NAMED_RECORD, READ_NAMED_RECORD and those for waveforms.
AccessByName(request) ==
  /\ phase = "run"
  /\ IF LookupSucceeds(request) /\ HasAddress(LookedUp(request), request)
     THEN /\ reached' = [request |-> request, pv |-> LookedUp(request).record_name]
          /\ UNCHANGED <<naming, store, ioc, phase, reported>>
     ELSE Die

Next ==
  \/ \E separator \in Separators : SetRecordNameSeparator(separator)
  \/ \E prefix \in NamePrefixes : PushRecordNamePrefix(prefix)
  \/ PopRecordNamePrefix
  \/ \E p \in Publications : PublishEpicsRecord(p)
  \/ IocInit
  \/ \E pv \in DOMAIN database \ visited : InitRecord(pv)
  \/ IocRuns
  \/ CheckUnusedRecordBindings
  \/ \E request \in Requests : AccessByName(request)

Spec == Init /\ [][Next]_vars

-------------------------------------------------------------------------------
(* Properties.                                                             *)

\* Every variable has its type: in particular the prefix with its '\0' and the offsets
\* stay within their arrays, whatever is pushed, with whatever separator.
TypeOK ==
  /\ name_prefix.length \in 0 .. PrefixLength - 1
  /\ Len(name_prefix.prefix) = name_prefix.length
  /\ Len(name_prefix.separator) < SeparatorLength
  /\ name_prefix.offsets \in Seq(0 .. name_prefix.length)
  /\ Len(name_prefix.offsets) <= PrefixCount
  /\ phase \in {"publish", "init", "run", "dead"}
  /\ Len(records) = Len(published)
  /\ \A i \in DOMAIN records :
       /\ records[i].record_type \in RecordTypes
       /\ records[i].record_name \in DOMAIN database \union {NoPV}
       /\ records[i].persist \in BOOLEAN /\ records[i].ioscanpvt \in BOOLEAN
  /\ \A key \in DOMAIN hash_table : hash_table[key] \in DOMAIN records
  /\ dpvt \in [DOMAIN database -> 0 .. Len(records)]
  /\ visited \subseteq DOMAIN database

\* The name prefix is that of the prefixes left on the stack, each with the separator it
\* was pushed with, after any sequence of pushes, pops and changes of the separator; a
\* record is found under the name it was published with and no other is.
PrefixIsStack ==
  /\ name_prefix.prefix = FlattenSeq(pushed)
  /\ \A i \in DOMAIN records : records[i].key = Key(records[i].record_type, published[i])

Refers(pv, i) == database[pv].record_type = TypeName(records[i].record_type)
                   /\ database[pv].address = published[i]

\* A published record is bound when an EPICS record that processes has it for its DPVT.
Bound(i) == \E pv \in DOMAIN database : dpvt[pv] = i

\* check_unused_record_bindings() "will return the number of published bindings with no
\* corresponding bound EPICS record" (docs/epics_device.rst:62-63).
UnboundAreCounted ==
  reported # <<>> => reported = <<Cardinality({i \in DOMAIN records : ~Bound(i)})>>

\* No EPICS waveform refers to a published record that it does not fit.
AllFit == \A pv \in DOMAIN database, i \in DOMAIN records :
            Refers(pv, i) => ~Refused(pv, records[i])

\* "Ensure that only one EPICS record binds to any one instance": after iocInit() the
\* EPICS records that process do so with the record published under their type and
\* address, which their SCAN, FTVL and NELM fit if they are waveforms, and no two with
\* the same; a published record is bound if an EPICS record refers to it and all that do
\* fit.  One that does not fit, and comes first, leaves it unbound.  An access by name
\* reaches an EPICS record of this type and address, the bound one if there is one, and
\* check_unused_record_bindings() counts those that are not bound if all waveforms fit.
BoundByName ==
  phase = "run" =>
    /\ \A pv \in DOMAIN database : dpvt[pv] # 0 =>
         /\ Refers(pv, dpvt[pv]) /\ ~Refused(pv, records[dpvt[pv]])
         /\ \A other \in DOMAIN database \ {pv} : dpvt[other] # dpvt[pv]
    /\ \A i \in DOMAIN records :
         (/\ \E pv \in DOMAIN database : Refers(pv, i)
          /\ \A pv \in DOMAIN database : Refers(pv, i) => ~Refused(pv, records[i]))
         => Bound(i)
    /\ reached.pv # NoPV =>
         /\ database[reached.pv].record_type = TypeName(reached.request.record_type)
         /\ database[reached.pv].address = reached.request.name
         /\ \A i \in DOMAIN records :
              Refers(reached.pv, i) /\ Bound(i) => dpvt[reached.pv] = i
    /\ AllFit => UnboundAreCounted

\* What is persistent of a record has room for its values, and no more: the values that
\* are copied between the record and the table, at process and at initialisation, are
\* as long here as there.  No two records share a variable.
PersistentFits ==
  \A i \in DOMAIN records : records[i].persist =>
    /\ records[i].key \in DOMAIN variables
    /\ \A j \in DOMAIN records \ {i} : records[j].key # records[i].key
    /\ LET variable == variables[records[i].key]
       IN PersistentSize[variable.type] * variable.max_length =
          ValueSize[records[i].field_type] * records[i].max_length
===============================================================================
