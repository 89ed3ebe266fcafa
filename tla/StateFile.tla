------------------------------- MODULE StateFile -------------------------------
(***************************************************************************)
(* The state file as text: write_persistent_state() writes the table of    *)
(* variables, somebody may edit the file, and load_persistent_state()      *)
(* parses it in a later process, whose variables may be other ones.        *)
(*                                                                         *)
(* The parser runs under the persistence mutex before the thread is        *)
(* started, so its steps meet nobody; Persistence has the interleavings.   *)
(***************************************************************************)
EXTENDS StateText, FiniteSets

CONSTANTS
  Tables,       \* Contents of the table in the first process: functions, key to values
  Declarations, \* What later processes create: functions, key to [type, max]
  First,        \* What the first process has created
  WrapLength,   \* A line that is longer is continued, 72 in the code
  BufferSize,   \* READ_BUFFER_SIZE, 1024 in the code
  Inserts,      \* Tokens that an editor of the file may insert
  MaxEdits,     \* Bound: changes made by the editor
  MaxRestarts   \* Bound: later processes

\* The name of a variable is that of an EPICS record, where none of the special characters
\* occurs.  A line with the longest string after its last space fits in the buffer.
ASSUME StateFileAssumption ==
  /\ \A d \in Declarations \union {First} :
       /\ IsFiniteSet(DOMAIN d) /\ DOMAIN d \subseteq Tokens \ Special
       /\ \A k \in DOMAIN d : d[k].type \in Types /\ d[k].max \in Nat
  /\ \A t \in Tables :
       /\ DOMAIN t = DOMAIN First
       /\ \A k \in DOMAIN t : t[k] \in Seq(ValuesOf(First[k].type)) /\ Len(t[k]) <= First[k].max
  /\ Inserts \subseteq Tokens \ {Nul}
  /\ WrapLength \in Nat /\ BufferSize \in Nat /\ BufferSize >= WrapLength + 4 * StringLength + 8
  /\ MaxEdits \in Nat /\ MaxRestarts \in Nat

VARIABLES
  declared,     \* The variables of the process: type and max_length of each
  table,        \* Their values, length of them each
  file,         \* The state file: paragraphs with their owners; no paragraph, no file
  pc,           \* "published", then the parser, then "running" or "failed"; "unopened" for a
                \* process that runs without having been able to open the file
  check,        \* check_parse
  rest,         \* What fgets() has not yet read
  line,         \* line->line up to its '\0'
  cursor,       \* What is left of the line at the cursor of parse_value()
  key,          \* The variable that is being assigned
  values,       \* Its values so far
  saved,        \* History: what the file was written from, by whose declarations and when
  touched,      \* History: paragraphs that the editor has changed, or made part of such lines
  edits,        \* History: number of edits
  alarmed,      \* History: an error has been reported in the load of this file
  restarts      \* History: number of restarts

parser == <<rest, line, cursor, key, values>>
disk   == <<file, saved, touched, edits>>
vars   == <<declared, table, disk, pc, check, parser, alarmed, restarts>>

Unset(d) == [k \in DOMAIN d |-> <<>>]

Init ==
  /\ declared = First
  /\ table \in Tables
  /\ file = <<>>
  /\ pc = "running"
  /\ check = FALSE
  /\ rest = <<>> /\ line = <<>> /\ cursor = <<>> /\ key = "none" /\ values = <<>>
  /\ saved = [table |-> Unset(First), declared |-> First, restarts |-> 0]
  /\ touched = {} /\ edits = 0 /\ alarmed = FALSE /\ restarts = 0

-------------------------------------------------------------------------------
(* Writing.                                                                *)

\* line_length after so many values.
LineLength(type, vals) ==
  LET length[n \in 0 .. Len(vals)] ==
        IF n = 0 THEN 2
        ELSE (IF length[n - 1] > WrapLength THEN 0
              ELSE length[n - 1] + (IF n = 1 THEN 0 ELSE 1)) + Len(WriteValue(type, vals[n]))
  IN length

\* A value and what comes before it.
Piece(type, vals, i) ==
  (IF LineLength(type, vals)[i - 1] > WrapLength THEN <<Space, "\\", "\n", Space>>
   ELSE IF i = 1 THEN <<>> ELSE <<Space>>) \o WriteValue(type, vals[i])

\* The lines of a variable.
WriteLines(k, type, vals) ==
  <<k, "=">> \o FlattenSeq([i \in DOMAIN vals |-> Piece(type, vals, i)]) \o <<"\n">>

\* The line with the time comes first, then the variables that have a length, in the
\* order of the hash table, which is any.
WritePersistentState ==
  /\ pc \in {"running", "unopened"}
  /\ \E order \in SetToSeqs({k \in DOMAIN declared : table[k] # <<>>}) :
       file' = <<[owner |-> "none", text |-> <<"#", "\n">>]>> \o
               [i \in DOMAIN order |->
                  [owner |-> order[i],
                   text  |-> WriteLines(order[i], declared[order[i]].type, table[order[i]])]]
  /\ saved' = [table |-> table, declared |-> declared, restarts |-> restarts]
  /\ touched' = {} /\ edits' = 0 /\ alarmed' = FALSE
  /\ UNCHANGED <<declared, table, pc, check, parser, restarts>>

Contents(paragraphs) == FlattenSeq([g \in DOMAIN paragraphs |-> paragraphs[g].text])

\* What follows may be read as part of the last line, since that is not ended, or has a
\* backslash, which is taken as a continuation wherever a value should be.
Spills(text) ==
  \/ text # <<>> /\ Last(text) # "\n"
  \/ \E i \in DOMAIN text : text[i] = "\\" /\ \A j \in i + 1 .. Len(text) - 1 : text[j] # "\n"

\* Somebody edits the file: a token is inserted, or two lines are joined.
Edit ==
  /\ pc = "published"
  /\ edits < MaxEdits
  /\ \E g \in DOMAIN file : \E i \in 1 .. Len(file[g].text) + 1 :
     \E text \in {InsertAt(file[g].text, i, c) : c \in Inserts} \union
                 (IF i <= Len(file[g].text) /\ file[g].text[i] = "\n"
                  THEN {RemoveAt(file[g].text, i)} ELSE {}) :
       /\ file' = [file EXCEPT ![g].text = text]
       /\ touched' = touched \union
            {h \in g .. Len(file) : \A m \in g .. h - 1 : Spills(Contents(SubSeq(file', 1, m)))}
  /\ edits' = edits + 1
  /\ UNCHANGED <<declared, table, saved, pc, check, parser, alarmed, restarts>>

Restart ==
  /\ restarts < MaxRestarts
  /\ pc \in {"running", "unopened", "failed"}
  /\ declared' \in Declarations
  /\ table' = Unset(declared')
  /\ pc' = "published"
  /\ alarmed' = FALSE
  /\ restarts' = restarts + 1
  /\ UNCHANGED <<disk, check, parser>>

-------------------------------------------------------------------------------
(* Reading.  Each operator for a call gives what it leaves behind.         *)

\* How many tokens a call of fgets() takes: to the end of the line, or what the buffer holds.
Fgets(text) ==
  LET newline == SelectInSeq(text, LAMBDA c : c = "\n")
      most    == IF Len(text) < BufferSize THEN Len(text) ELSE BufferSize - 1
  IN IF newline \in 1 .. most THEN newline ELSE most

\* At the end of the file the buffer is left as it is; a line that does not end with a
\* newline is an error.
ReadLine ==
  LET n     == Fgets(rest)
      whole == rest[n] = "\n"
  IN IF rest = <<>>
     THEN [ok |-> FALSE, eof |-> TRUE, line |-> line, cursor |-> cursor, rest |-> rest]
     ELSE [ok |-> whole, eof |-> FALSE, cursor |-> cursor, rest |-> SubSeq(rest, n + 1, Len(rest)),
           line |-> SubSeq(rest, 1, IF whole THEN n - 1 ELSE n)]

SkipSpaces(text) ==
  LET first == SelectInSeq(text, LAMBDA c : c # Space)
  IN IF first = 0 THEN <<>> ELSE SubSeq(text, first, Len(text))

FillLineBuffer ==
  LET here == SkipSpaces(cursor)
      next == ReadLine
  IN IF here # <<>> /\ Head(here) = "\\"
     THEN [next EXCEPT !.cursor = SkipSpaces(next.line)]
     ELSE [ok |-> TRUE, eof |-> FALSE, line |-> line, cursor |-> here, rest |-> rest]

\* If there is no file, or fopen() fails on the one there is, that is reported and is no
\* error: the process runs with the variables unset.
LoadPersistentState ==
  /\ pc \in {"published", "failed"}
  /\ check' \in BOOLEAN
  /\ rest' = Contents(file)
  /\ pc' \in IF file = <<>> THEN {"running"} ELSE {"read", "unopened"}
  /\ UNCHANGED <<declared, table, disk, line, cursor, key, values, alarmed, restarts>>

\* An error here ends the load, with check_parse or without.  The newline that the code
\* compares with has been removed by read_line().
ParseLine ==
  /\ pc = "read"
  /\ \E next \in {ReadLine} :
        /\ rest' = next.rest
        /\ line' = next.line
        /\ pc' = CASE next.eof -> "running"
                   [] ~next.ok /\ ~next.eof -> "failed"
                   [] OTHER -> IF next.line # <<>> /\ Head(next.line) \in {"#", "\n"}
                               THEN "read" ELSE "assign"
  /\ alarmed' = (alarmed \/ pc' = "failed")
  /\ UNCHANGED <<declared, table, disk, check, cursor, key, values, restarts>>

\* The line is cut at the '='.
ParseAssignment ==
  /\ pc = "assign"
  /\ LET equal == SelectInSeq(line, LAMBDA c : c = "=")
         name == SubSeq(line, 1, equal - 1)
         known == {k \in DOMAIN declared : equal > 0 /\ name = <<k>>}
     IN /\ line' = IF equal = 0 THEN line ELSE name
        /\ IF known = {}
           THEN pc' = "flush" /\ alarmed' = TRUE /\ UNCHANGED <<cursor, key, values>>
           ELSE /\ key' \in known
                /\ cursor' = SubSeq(line, equal + 1, Len(line))
                /\ values' = <<>>
                /\ pc' = "value"
                /\ UNCHANGED alarmed
  /\ UNCHANGED <<declared, table, disk, check, rest, restarts>>

\* Seeded fault: the loop goes on while there is text.
MoreUnbounded == cursor # <<>>

More == cursor # <<>> /\ Len(values) < declared[key].max

ParseElement ==
  /\ pc = "value"
  /\ More
  /\ \E filled \in {FillLineBuffer} :
       /\ line' = filled.line
       /\ rest' = filled.rest
       /\ \E v \in {IF filled.ok THEN ReadValue(declared[key].type, filled.cursor)
                   ELSE Rejected} :
            IF v.ok
            THEN /\ values' = Append(values, v.value)
                 /\ cursor' = v.rest
                 /\ UNCHANGED <<table, pc, alarmed>>
            ELSE /\ table' = [table EXCEPT ![key] = <<>>]
                 /\ pc' = "flush"
                 /\ alarmed' = TRUE
                 /\ UNCHANGED <<values, cursor>>
  /\ UNCHANGED <<declared, disk, check, key, restarts>>

\* What is left on the line is an error, but the values are kept.
ParseValueEnd ==
  /\ pc = "value"
  /\ ~More
  /\ table' = [table EXCEPT ![key] = values]
  /\ pc' = IF cursor = <<>> THEN "read" ELSE "flush"
  /\ alarmed' = (alarmed \/ cursor # <<>>)
  /\ UNCHANGED <<declared, disk, check, parser, restarts>>

Continued == line # <<>> /\ Last(line) = "\\"
Reported == IF check THEN "failed" ELSE "read"

\* Seeded fault: the line after the error is flushed, continued or not.
FlushAlways ==
  /\ pc = "flush"
  /\ line' = ReadLine.line
  /\ rest' = ReadLine.rest
  /\ pc' = Reported
  /\ UNCHANGED <<declared, table, disk, check, cursor, key, values, alarmed, restarts>>

\* Seeded fault: the end of the file is not told from an empty line.
FlushForever ==
  /\ pc = "flush"
  /\ line' = IF Continued THEN ReadLine.line ELSE line
  /\ rest' = IF Continued THEN ReadLine.rest ELSE rest
  /\ pc' = IF Continued THEN "flush" ELSE Reported
  /\ UNCHANGED <<declared, table, disk, check, cursor, key, values, alarmed, restarts>>

\* One round of flush_continuation(), or its end; then the error is returned, or reported
\* and forgotten.
FlushContinuation ==
  /\ pc = "flush"
  /\ \E next \in {ReadLine} :
        IF Continued
        THEN line' = next.line /\ rest' = next.rest /\ pc' = IF next.ok THEN "flush" ELSE Reported
        ELSE pc' = Reported /\ UNCHANGED <<line, rest>>
  /\ UNCHANGED <<declared, table, disk, check, cursor, key, values, alarmed, restarts>>

Parse == ParseLine \/ ParseAssignment \/ ParseElement \/ ParseValueEnd \/ FlushContinuation

Next == WritePersistentState \/ Edit \/ Restart \/ LoadPersistentState \/ Parse

\* The parser goes on; nothing makes anybody save, edit, restart or load.
Spec == Init /\ [][Next]_vars /\ WF_vars(Parse)

-------------------------------------------------------------------------------
(* Properties.                                                             *)

\* Every variable has the type of what it stands for: the lengths of the values are at
\* most those of the declarations, and the parser is at a line only while it parses.
TypeOK ==
  /\ DOMAIN table = DOMAIN declared
  /\ \A k \in DOMAIN declared : Len(table[k]) <= declared[k].max
  /\ pc \in {"published", "read", "assign", "value", "flush", "running", "unopened", "failed"}
  /\ check \in BOOLEAN /\ alarmed \in BOOLEAN
  /\ Len(line) < BufferSize /\ Len(cursor) < BufferSize
  /\ pc = "value" => key \in DOMAIN declared /\ Len(values) <= declared[key].max
  /\ edits \in 0 .. MaxEdits /\ restarts \in 0 .. MaxRestarts

\* What the variable was saved with can be read back by the one of this process.
Fits(k) ==
  /\ k \in DOMAIN saved.declared
  /\ declared[k].type = saved.declared[k].type
  /\ \A i \in DOMAIN saved.table[k] : Readable(declared[k].type, saved.table[k][i])

Cut(vals, max) == IF Len(vals) <= max THEN vals ELSE SubSeq(vals, 1, max)

Expected(k) ==
  Cut([i \in DOMAIN saved.table[k] |-> ReadBack(declared[k].type, saved.table[k][i])],
      declared[k].max)

\* What the paragraphs hold that an editor has broken.
Broken == UNION {Range(file[g].text) : g \in touched}

\* A load that opens the file brings back each variable as it was saved, up to the digits
\* that are printed and cut to its new length, whatever order the lines have, however they
\* are continued, and whatever is wrong with others: text that an editor broke, unless it
\* has the name of the variable, variables that are no longer known, have another type, or
\* hold a number that cannot be read.
Restored ==
  pc = "running" /\ saved.restarts < restarts =>
    \A k \in DOMAIN declared \ Broken : Fits(k) => table[k] = Expected(k)

\* A file as the library writes it, for variables that are still there, of the same type
\* and long enough, is loaded without an error, so that check_parse does not refuse it;
\* save for a number whose text sets errno, which is how a denormal one comes back.
NoFalseAlarm ==
  (alarmed \/ pc = "failed") =>
    \/ edits > 0
    \/ \E k \in DOMAIN saved.declared : saved.table[k] # <<>> /\
         (k \notin DOMAIN declared \/ ~Fits(k) \/ Len(saved.table[k]) > declared[k].max)

\* Every load ends, whatever the file holds.
LoadEnds == pc = "read" ~> pc \in {"running", "failed"}
===============================================================================
