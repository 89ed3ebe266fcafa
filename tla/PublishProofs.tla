----------------------------- MODULE PublishProofs -----------------------------
(***************************************************************************)
(* Proofs about Publish, for any texts, any publications and databases and *)
(* any limits on the prefix, its separator and their number.               *)
(***************************************************************************)
EXTENDS Publish, SequenceTheorems, WellFoundedInduction, TLAPS

-------------------------------------------------------------------------------
(* Induction over the natural numbers, for a set instead of a predicate.   *)

\* Every set of natural numbers that is not empty has a least element.
LEMMA LeastNat ==
  ASSUME NEW T \in SUBSET Nat, T # {}
  PROVE  \E n \in T : \A m \in T : n <= m
<1> DEFINE R == OpToRel(<, Nat)
<1>1. IsWellFoundedOn(R, Nat)
  BY NatLessThanWellFounded
<1>2. \A m, n \in Nat : m < n => <<m, n>> \in R
  BY DEF OpToRel
<1> HIDE DEF R
<1>3. PICK n \in T : \A m \in T : <<m, n>> \notin R
  BY <1>1, WFMin
<1>4. \A m \in T : n <= m
  <2> SUFFICES ASSUME NEW m \in T PROVE n <= m
    OBVIOUS
  <2>1. ~ (m < n)
    BY <1>2, <1>3
  <2> QED
    BY <2>1
<1> QED
  BY <1>4

\* A set with 0, and with the successor of each of its elements, has all natural numbers.
LEMMA SetInduction ==
  ASSUME NEW S \in SUBSET Nat, 0 \in S, \A n \in S : n + 1 \in S
  PROVE  \A n \in Nat : n \in S
<1> SUFFICES ASSUME Nat \ S # {} PROVE FALSE
  OBVIOUS
<1>1. PICK n \in Nat \ S : \A m \in Nat \ S : n <= m
  BY LeastNat
<1>2. n # 0 /\ n - 1 \in Nat /\ n - 1 \notin Nat \ S
  BY <1>1
<1> QED
  BY <1>2

-------------------------------------------------------------------------------
(* FlattenSeq, which joins the prefixes.                                   *)

\* The function by which FlattenSeq joins the first n of seqs.
Joins(g, seqs, n) ==
  g = [i \in 1 .. n |-> IF i = 1 THEN seqs[i] ELSE g[i - 1] \o seqs[i]]

\* The equation at one place.
LEMMA JoinsStep ==
  ASSUME NEW g, NEW seqs, NEW n, Joins(g, seqs, n), NEW i \in 1 .. n
  PROVE  g[i] = IF i = 1 THEN seqs[i] ELSE g[i - 1] \o seqs[i]
<1> DEFINE f == [j \in 1 .. n |-> IF j = 1 THEN seqs[j] ELSE g[j - 1] \o seqs[j]]
<1>1. g = f
  BY DEF Joins
<1>2. f[i] = IF i = 1 THEN seqs[i] ELSE g[i - 1] \o seqs[i]
  OBVIOUS
<1> HIDE DEF f
<1> QED
  BY <1>1, <1>2

\* There is one,
LEMMA JoinsExists ==
  ASSUME NEW seqs, NEW n \in Nat
  PROVE  \E g : Joins(g, seqs, n)
<1> DEFINE S == {k \in Nat : \E g : Joins(g, seqs, k)}
<1>1. 0 \in S
  <2> DEFINE g == [i \in 1 .. 0 |-> 0]
  <2>1. Joins(g, seqs, 0)
    BY DEF Joins
  <2> QED
    BY <2>1
<1>2. ASSUME NEW k \in S PROVE k + 1 \in S
  <2>1. PICK g : Joins(g, seqs, k)
    OBVIOUS
  <2> DEFINE h == [i \in 1 .. k + 1 |->
                     IF i <= k THEN g[i] ELSE IF i = 1 THEN seqs[i] ELSE g[i - 1] \o seqs[i]]
  <2>2. \A i \in 1 .. k : g[i] = IF i = 1 THEN seqs[i] ELSE g[i - 1] \o seqs[i]
    BY <2>1, JoinsStep
  <2>3. \A i \in 1 .. k + 1 : h[i] = IF i = 1 THEN seqs[i] ELSE h[i - 1] \o seqs[i]
    BY <2>2
  <2>4. h = [i \in 1 .. k + 1 |-> IF i = 1 THEN seqs[i] ELSE h[i - 1] \o seqs[i]]
    BY <2>3
  <2> HIDE DEF h
  <2>5. Joins(h, seqs, k + 1)
    BY <2>4 DEF Joins
  <2> QED
    BY <2>5
<1> HIDE DEF S
<1>3. n \in S
  BY <1>1, <1>2, SetInduction DEF S
<1> QED
  BY <1>3 DEF S

\* and it depends on the first n only.
LEMMA JoinsAgree ==
  ASSUME NEW s, NEW t, NEW g, NEW h, NEW k \in Nat,
         Joins(g, s, k), Joins(h, t, k + 1), \A i \in 1 .. k : s[i] = t[i]
  PROVE  \A i \in 1 .. k : g[i] = h[i]
<1> DEFINE S == {j \in Nat : j \in 1 .. k => g[j] = h[j]}
<1>1. \A i \in 1 .. k : /\ g[i] = IF i = 1 THEN s[i] ELSE g[i - 1] \o s[i]
                        /\ h[i] = IF i = 1 THEN t[i] ELSE h[i - 1] \o t[i]
  BY JoinsStep
<1>2. 0 \in S
  OBVIOUS
<1>3. ASSUME NEW j \in S PROVE j + 1 \in S
  <2> SUFFICES ASSUME j + 1 \in 1 .. k PROVE g[j + 1] = h[j + 1]
    OBVIOUS
  <2>1. CASE j = 0
    BY <1>1, <2>1
  <2>2. CASE j # 0
    <3>1. g[j] = h[j]
      BY <2>2
    <3> QED
      BY <1>1, <2>2, <3>1
  <2> QED
    BY <2>1, <2>2
<1>4. \A j \in Nat : j \in S
  <2> HIDE DEF S
  <2> QED
    BY <1>2, <1>3, SetInduction DEF S
<1> QED
  BY <1>4

\* What FlattenSeq is.
LEMMA FlattenJoins ==
  ASSUME NEW s, Len(s) \in Nat \ {0}
  PROVE  \E g : Joins(g, s, Len(s)) /\ FlattenSeq(s) = g[Len(s)]
<1> DEFINE f == CHOOSE g : g = [i \in 1 .. Len(s) |-> IF i = 1 THEN s[i] ELSE g[i - 1] \o s[i]]
<1>1. Joins(f, s, Len(s))
  BY JoinsExists DEF Joins
<1>2. FlattenSeq(s) = f[Len(s)]
  BY DEF FlattenSeq
<1> QED
  BY <1>1, <1>2

\* No text, one text, and one text more.
LEMMA FlattenNone == FlattenSeq(<<>>) = <<>>
BY DEF FlattenSeq

\* Joining one text more adds it at the end.
LEMMA FlattenAppend ==
  ASSUME NEW T, NEW s \in Seq(Seq(T)), NEW e \in Seq(T), FlattenSeq(s) \in Seq(T)
  PROVE  FlattenSeq(Append(s, e)) = FlattenSeq(s) \o e
<1> DEFINE a == Append(s, e)  n == Len(s)
<1>1. n \in Nat /\ Len(a) = n + 1 /\ a[n + 1] = e /\ \A i \in 1 .. n : s[i] = a[i]
  OBVIOUS
<1> HIDE DEF a, n
<1>2. PICK h : Joins(h, a, n + 1) /\ FlattenSeq(a) = h[n + 1]
  BY <1>1, FlattenJoins
<1>3. h[n + 1] = IF n = 0 THEN e ELSE h[n] \o e
  BY <1>1, <1>2, JoinsStep
<1>4. CASE n = 0
  <2>1. s = <<>>
    BY <1>4 DEF n
  <2>2. <<>> \o e = e
    OBVIOUS
  <2> QED
    BY <1>2, <1>3, <1>4, <2>1, <2>2, FlattenNone DEF a
<1>5. CASE n # 0
  <2>1. PICK g : Joins(g, s, n) /\ FlattenSeq(s) = g[n]
    BY <1>1, <1>5, FlattenJoins DEF n
  <2>2. \A i \in 1 .. n : g[i] = h[i]
    BY <1>1, <1>2, <2>1, JoinsAgree
  <2> QED
    <3>1. h[n] = g[n]
      BY <1>1, <1>5, <2>2, SMTT(30)
    <3> QED
      BY <1>2, <1>3, <1>5, <2>1, <3>1 DEF a
<1> QED
  BY <1>4, <1>5 DEF a

-------------------------------------------------------------------------------
(* What the invariant is made of.                                          *)

Keys == {Key(type, name) : type \in RecordTypes, name \in Text}
RecordType(pvs) ==
  [ key : Keys, record_type : RecordTypes, record_name : pvs \union {NoPV},
    max_length : Nat, ioscanpvt : BOOLEAN, persist : BOOLEAN,
    field_type : RecordTypes \union FieldTypes ]

Types ==
  /\ name_prefix \in [length : Nat, prefix : Text, separator : Text, offsets : Seq(Nat)]
  /\ pushed \in Seq(Text)
  /\ published \in Seq(Text)
  /\ records \in Seq(RecordType(DOMAIN database))
  /\ Len(records) = Len(published)
  /\ database \in Databases
  /\ dpvt \in [DOMAIN database -> Nat]
  /\ visited \subseteq DOMAIN database
  /\ phase \in {"publish", "init", "run", "dead"}

\* The texts that are pushed, joined up to the k-th.
Joined(k) == FlattenSeq(SubSeq(pushed, 1, k))

\* The offsets are the lengths of what was there before each push, and never decrease.
StackOK ==
  /\ name_prefix.prefix = FlattenSeq(pushed)
  /\ name_prefix.length = Len(name_prefix.prefix) /\ name_prefix.length < PrefixLength
  /\ Len(name_prefix.separator) < SeparatorLength
  /\ Len(name_prefix.offsets) = Len(pushed) /\ Len(pushed) <= PrefixCount
  /\ \A k \in 1 .. Len(pushed) :
       /\ Joined(k - 1) \in Text
       /\ name_prefix.offsets[k] = Len(Joined(k - 1))
       /\ name_prefix.offsets[k] <= name_prefix.length
       /\ \A j \in 1 .. k : name_prefix.offsets[j] <= name_prefix.offsets[k]

\* The hash table has the keys of the records and leads from each to its record.
TableOK ==
  /\ DOMAIN hash_table = {records[i].key : i \in DOMAIN records}
  /\ \A i \in DOMAIN records :
       /\ hash_table[records[i].key] = i
       /\ records[i].key = Key(records[i].record_type, published[i])

\* What a record and its persistent variable have in common.
FitsOK ==
  \A i \in DOMAIN records : records[i].persist =>
    /\ records[i].key \in DOMAIN variables
    /\ PersistentSize[variables[records[i].key].type] = ValueSize[records[i].field_type]
    /\ variables[records[i].key].max_length = records[i].max_length

\* A record is claimed by the first EPICS record that refers to it among those iocInit()
\* has been through, and by no other; DPVT says so too if this one has not been refused.
BindOK ==
  /\ phase = "publish" => visited = {}
  /\ \A i \in DOMAIN records :
       /\ records[i].record_name # NoPV =>
            records[i].record_name \in visited /\ Refers(records[i].record_name, i)
       /\ \A pv \in visited : Refers(pv, i) => records[i].record_name # NoPV
  /\ \A pv \in DOMAIN database :
       dpvt[pv] # 0 => /\ dpvt[pv] \in DOMAIN records /\ records[dpvt[pv]].record_name = pv
                       /\ ~Refused(pv, records[dpvt[pv]])
  /\ \A i \in DOMAIN records, pv \in DOMAIN database :
       records[i].record_name = pv /\ ~Refused(pv, records[i]) => dpvt[pv] = i

\* What was found by name or counted was so when iocInit() was over, and is so still.
UseOK ==
  /\ phase = "run" => visited = DOMAIN database
  /\ phase \notin {"run", "dead"} => reached.pv = NoPV /\ reported = <<>>
  /\ reached.pv # NoPV =>
       /\ database[reached.pv].record_type = TypeName(reached.request.record_type)
       /\ database[reached.pv].address = reached.request.name
       /\ \E i \in DOMAIN records : records[i].record_name = reached.pv
  /\ reported \in {<<>>, <<Cardinality({i \in DOMAIN records : records[i].record_name = NoPV})>>}

IInv == Types /\ StackOK /\ TableOK /\ FitsOK /\ BindOK /\ UseOK

-------------------------------------------------------------------------------
(* Texts and keys.                                                         *)

\* What is left when the last element of a sequence is taken away.
LEMMA FrontLast ==
  ASSUME NEW T, NEW s \in Seq(T), s # <<>>
  PROVE  /\ Len(s) \in Nat \ {0}
         /\ Front(s) \in Seq(T) /\ Len(Front(s)) = Len(s) - 1
         /\ Last(s) \in T /\ Last(s) = s[Len(s)]
         /\ s = Append(Front(s), Last(s))
         /\ \A i \in 1 .. Len(s) - 1 : Front(s)[i] = s[i]
<1>1. Len(s) \in Nat \ {0}
  BY EmptySeq
<1>2. /\ Front(s) \in Seq(T) /\ Len(Front(s)) = Len(s) - 1
      /\ \A i \in 1 .. Len(s) - 1 : Front(s)[i] = s[i]
  <2> DEFINE n == Len(s) - 1
  <2>1. n \in Nat /\ n <= Len(s) /\ 1 \in Int /\ n \in Int /\ \A i \in 1 .. n : s[i] \in T
    BY <1>1
  <2>2. Front(s) = SubSeq(s, 1, n)
    BY DEF Front
  <2>3. \A i \in 1 .. n : 1 + i - 1 = i /\ i \in 1 .. n - 1 + 1
    BY <2>1
  <2> HIDE DEF n
  <2>4. /\ SubSeq(s, 1, n) \in Seq(T)
        /\ Len(SubSeq(s, 1, n)) = n
        /\ \A i \in 1 .. n : SubSeq(s, 1, n)[i] = s[i]
    BY <2>1, <2>3
  <2> QED
    BY <2>2, <2>4 DEF n
<1>3. Last(s) \in T /\ Last(s) = s[Len(s)]
  BY <1>1 DEF Last
<1>4. s = Append(Front(s), Last(s))
  <2>1. /\ Append(Front(s), Last(s)) \in Seq(T)
        /\ Len(Append(Front(s), Last(s))) = Len(s)
        /\ \A i \in 1 .. Len(s) : Append(Front(s), Last(s))[i] = s[i]
    BY <1>1, <1>2, <1>3, AppendProperties
  <2> QED
    BY <2>1, SeqEqual
<1> QED
  BY <1>1, <1>2, <1>3, <1>4

\* The first part of two texts.
LEMMA FirstPart ==
  ASSUME NEW T, NEW s \in Seq(T), NEW t \in Seq(T)
  PROVE  SubSeq(s \o t, 1, Len(s)) = s
<1>1. /\ s \o t \in Seq(T) /\ Len(s \o t) = Len(s) + Len(t) /\ Len(s) \in Nat /\ Len(t) \in Nat
      /\ \A i \in 1 .. Len(s) : (s \o t)[i] = s[i]
  BY ConcatProperties
<1>2. \A i \in 1 .. Len(s) : (s \o t)[i] \in T
  BY <1>1
<1>3. /\ SubSeq(s \o t, 1, Len(s)) \in Seq(T)
      /\ Len(SubSeq(s \o t, 1, Len(s))) = Len(s)
      /\ \A i \in 1 .. Len(s) : SubSeq(s \o t, 1, Len(s))[i] = s[i]
  BY <1>1, <1>2, SubSeqProperties
<1> QED
  BY <1>3, SeqEqual

\* The first part of a sequence that is all of it.
LEMMA WholeSeq ==
  ASSUME NEW T, NEW s \in Seq(T)
  PROVE  SubSeq(s, 1, Len(s)) = s
<1>1. <<>> \in Seq(T) /\ s \o <<>> = s
  OBVIOUS
<1> QED
  BY <1>1, FirstPart

\* An element that is added changes none of the parts before it.
LEMMA FirstOfAppend ==
  ASSUME NEW T, NEW s \in Seq(T), NEW e \in T, NEW k \in 0 .. Len(s)
  PROVE  SubSeq(Append(s, e), 1, k) = SubSeq(s, 1, k)
<1>1. /\ Append(s, e) \in Seq(T) /\ Len(Append(s, e)) = Len(s) + 1 /\ Len(s) \in Nat
      /\ \A i \in 1 .. Len(s) : Append(s, e)[i] = s[i]
  BY AppendProperties
<1>2. /\ k \in Nat /\ k <= Len(s) /\ 1 \in Int /\ k \in Int
      /\ \A i \in 1 .. k : s[i] \in T /\ Append(s, e)[i] = s[i]
  BY <1>1
<1>3. \A i \in 1 .. k : 1 + i - 1 = i /\ i \in 1 .. k - 1 + 1
  BY <1>2
<1>4. /\ SubSeq(s, 1, k) \in Seq(T) /\ Len(SubSeq(s, 1, k)) = k
      /\ \A i \in 1 .. k : SubSeq(s, 1, k)[i] = s[i]
  BY <1>2, <1>3, SubSeqProperties
<1>5. /\ SubSeq(Append(s, e), 1, k) \in Seq(T) /\ Len(SubSeq(Append(s, e), 1, k)) = k
      /\ \A i \in 1 .. k : SubSeq(Append(s, e), 1, k)[i] = Append(s, e)[i]
  BY <1>1, <1>2, <1>3, SubSeqProperties
<1>6. \A i \in 1 .. k : SubSeq(Append(s, e), 1, k)[i] = SubSeq(s, 1, k)[i]
  BY <1>2, <1>4, <1>5
<1> QED
  BY <1>2, <1>4, <1>5, <1>6, SeqEqual

\* A key tells the type, as EPICS calls it, and the name.
LEMMA KeyTells ==
  ASSUME NEW s, NEW t, NEW x \in Text, NEW y \in Text, Key(s, x) = Key(t, y)
  PROVE  TypeName(s) = TypeName(t) /\ x = y
<1> DEFINE a == <<TypeName(s), ":">>  b == <<TypeName(t), ":">>
           T == Chars \union {TypeName(s), TypeName(t), ":"}
<1>1. /\ a \in Seq(T) /\ b \in Seq(T) /\ Len(a) = 2 /\ Len(b) = 2
      /\ a[1] = TypeName(s) /\ b[1] = TypeName(t)
  OBVIOUS
<1>2. x \in Seq(T) /\ y \in Seq(T)
  BY SeqMonotonic DEF Text
<1>3. a \o x = b \o y
  BY DEF Key
<1> HIDE DEF a, b, T
<1>4. /\ Len(a \o x) = 2 + Len(x)
      /\ \A i \in 1 .. 2 + Len(x) : (a \o x)[i] = IF i <= 2 THEN a[i] ELSE x[i - 2]
  <2>1. Len(a \o x) = Len(a) + Len(x)
    BY <1>1, <1>2, ConcatProperties
  <2>2. \A i \in 1 .. Len(a) + Len(x) :
          (a \o x)[i] = IF i <= Len(a) THEN a[i] ELSE x[i - Len(a)]
    BY <1>1, <1>2, ConcatProperties
  <2> QED
    BY <1>1, <2>1, <2>2
<1>8. /\ Len(b \o y) = 2 + Len(y)
      /\ \A i \in 1 .. 2 + Len(y) : (b \o y)[i] = IF i <= 2 THEN b[i] ELSE y[i - 2]
  <2>1. Len(b \o y) = Len(b) + Len(y)
    BY <1>1, <1>2, ConcatProperties
  <2>2. \A i \in 1 .. Len(b) + Len(y) :
          (b \o y)[i] = IF i <= Len(b) THEN b[i] ELSE y[i - Len(b)]
    BY <1>1, <1>2, ConcatProperties
  <2> QED
    BY <1>1, <2>1, <2>2
<1>5. Len(x) = Len(y) /\ Len(x) \in Nat
  BY <1>2, <1>3, <1>4, <1>8
<1>6. a[1] = b[1]
  BY <1>3, <1>4, <1>5, <1>8
<1>7. \A i \in 1 .. Len(x) : x[i] = y[i]
  <2> SUFFICES ASSUME NEW i \in 1 .. Len(x) PROVE x[i] = y[i]
    OBVIOUS
  <2>1. i + 2 \in 1 .. 2 + Len(x) /\ ~ (i + 2 <= 2) /\ (i + 2) - 2 = i
    BY <1>5
  <2> QED
    BY <1>3, <1>4, <1>5, <1>8, <2>1
<1> QED
  BY <1>1, <1>2, <1>5, <1>6, <1>7, SeqEqual

-------------------------------------------------------------------------------
(* The steps.                                                              *)

\* A new record is one.
LEMMA NewRecordType ==
  ASSUME NEW p \in Publications, NEW prefix \in Text, NEW pvs
  PROVE  LET key == Key(p.record_type, prefix \o p.name)
         IN /\ prefix \o p.name \in Text
            /\ NewRecord(p.record_type, key, p.args) \in RecordType(pvs)
<1> DEFINE key == Key(p.record_type, prefix \o p.name)
<1>1. p.record_type \in RecordTypes /\ p.name \in Text /\ p.args \in ArgTypes
  BY PublishAssumption
<1>2. prefix \o p.name \in Text
  BY <1>1 DEF Text
<1>3. key \in Keys
  BY <1>1, <1>2 DEF Keys
<1> HIDE DEF key
<1>4. NewRecord(p.record_type, key, p.args) \in RecordType(pvs)
  BY <1>1, <1>3 DEF NewRecord, RecordType, ArgTypes, Persists, ScansOnInterrupt
<1> QED
  BY <1>2, <1>4 DEF key

\* The variables keep their types.
LEMMA TypesStep == ASSUME IInv, [Next]_vars PROVE Types'
<1> USE DEF IInv, Types, StackOK, naming, store, ioc
<1>1. ASSUME NEW separator \in Separators, SetRecordNameSeparator(separator) PROVE Types'
  <2>1. separator \in Text
    BY PublishAssumption
  <2>2. UNCHANGED <<pushed, store, ioc>> /\ phase' \in {"publish", "dead"}
    BY <1>1 DEF SetRecordNameSeparator, Die
  <2>3. name_prefix' \in {name_prefix, [name_prefix EXCEPT !.separator = separator]}
    BY <1>1 DEF SetRecordNameSeparator, Die
  <2> QED
    BY <2>1, <2>2, <2>3
<1>2. ASSUME NEW prefix \in NamePrefixes, PushRecordNamePrefix(prefix) PROVE Types'
  <2> DEFINE text == prefix \o name_prefix.separator
             length == name_prefix.length + Len(text)
             first == SubSeq(name_prefix.prefix, 1, name_prefix.length)
  <2>1. CASE Len(name_prefix.offsets) < PrefixCount /\ length < PrefixLength
    <3>1. /\ name_prefix' = [name_prefix EXCEPT !.length = length,
               !.prefix = first \o text, !.offsets = Append(@, name_prefix.length)]
          /\ pushed' = Append(pushed, text)
          /\ UNCHANGED <<store, ioc, phase>>
      BY <1>2, <2>1 DEF PushRecordNamePrefix
    <3>2. prefix \in Text /\ text \in Text /\ length \in Nat
      BY PublishAssumption DEF Text
    <3>3. first = name_prefix.prefix
      BY DEF Text
    <3>4. first \o text \in Text
      BY <3>2, <3>3 DEF Text
    <3> HIDE DEF text, length, first
    <3>5. name_prefix' \in [length : Nat, prefix : Text, separator : Text, offsets : Seq(Nat)]
      <4>1. Append(name_prefix.offsets, name_prefix.length) \in Seq(Nat)
        OBVIOUS
      <4> QED
        BY <3>1, <3>2, <3>4, <4>1
    <3>6. pushed' \in Seq(Text)
      BY <3>1, <3>2
    <3> QED
      BY <3>1, <3>5, <3>6
  <2>2. CASE ~ (Len(name_prefix.offsets) < PrefixCount /\ length < PrefixLength)
    BY <1>2, <2>2 DEF PushRecordNamePrefix, Die
  <2> QED
    BY <2>1, <2>2
<1>3. CASE PopRecordNamePrefix
  <2>1. CASE name_prefix.offsets # <<>>
    <3> DEFINE last == Last(name_prefix.offsets)
    <3>1. /\ name_prefix' = [name_prefix EXCEPT !.length = last,
               !.prefix = SubSeq(@, 1, last), !.offsets = Front(@)]
          /\ pushed' = Front(pushed)
          /\ UNCHANGED <<store, ioc, phase>>
      BY <1>3, <2>1 DEF PopRecordNamePrefix
    <3>2. pushed # <<>>
      BY <2>1
    <3>3. last \in Nat /\ Front(name_prefix.offsets) \in Seq(Nat) /\ Front(pushed) \in Seq(Text)
      BY <2>1, <3>2, FrontLast
    <3>4. last = name_prefix.offsets[Len(pushed)] /\ Len(pushed) \in 1 .. Len(pushed)
      <4>1. Last(name_prefix.offsets) = name_prefix.offsets[Len(name_prefix.offsets)]
        BY <2>1, FrontLast
      <4>2. Len(pushed) \in Nat \ {0}
        BY <3>2, FrontLast
      <4> QED
        BY <4>1, <4>2
    <3>5. last <= Len(name_prefix.prefix)
      BY <3>4
    <3> HIDE DEF last
    <3>6. SubSeq(name_prefix.prefix, 1, last) \in Text
      BY <3>3, <3>5 DEF Text
    <3>7. name_prefix' \in [length : Nat, prefix : Text, separator : Text, offsets : Seq(Nat)]
      BY <3>1, <3>3, <3>6
    <3> QED
      BY <3>1, <3>3, <3>7
  <2>2. CASE name_prefix.offsets = <<>>
    BY <1>3, <2>2 DEF PopRecordNamePrefix, Die
  <2> QED
    BY <2>1, <2>2
<1>4. ASSUME NEW p \in Publications, PublishEpicsRecord(p) PROVE Types'
  <2> DEFINE key == Key(p.record_type, name_prefix.prefix \o p.name)
             base == NewRecord(p.record_type, key, p.args)
  <2>1. CASE ~ (key \notin DOMAIN hash_table /\ HasPersistentType(base))
    BY <1>4, <2>1 DEF PublishEpicsRecord, Die
  <2>2. CASE key \notin DOMAIN hash_table /\ HasPersistentType(base)
    <3>1. /\ records' = Append(records, base)
          /\ published' = Append(published, FlattenSeq(pushed) \o p.name)
          /\ UNCHANGED <<naming, ioc, phase, reported, reached>>
      BY <1>4, <2>2 DEF PublishEpicsRecord
    <3>2. name_prefix.prefix \in Text /\ name_prefix.prefix \o p.name \in Text
      BY PublishAssumption DEF Text
    <3>3. base \in RecordType(DOMAIN database)
      BY <3>2, NewRecordType
    <3> HIDE DEF base
    <3> QED
      BY <3>1, <3>2, <3>3
  <2> QED
    BY <2>1, <2>2
<1>5. CASE IocInit
  BY <1>5 DEF IocInit
<1>6. ASSUME NEW pv \in DOMAIN database \ visited, InitRecord(pv) PROVE Types'
  <2> DEFINE found == IF Handler(pv) # 0 /\ records[Handler(pv)].record_name = NoPV
                      THEN Handler(pv) ELSE 0
  <2>1. CASE found = 0
    BY <1>6, <2>1 DEF InitRecord, Bind
  <2>2. CASE found # 0
    <3>1. found \in DOMAIN records
      BY <2>2 DEF Handler, TableOK
    <3>2. /\ records' = [records EXCEPT ![found].record_name = pv]
          /\ visited' = visited \union {pv}
          /\ \E n \in {0, found} : dpvt' = [dpvt EXCEPT ![pv] = n]
          /\ UNCHANGED <<name_prefix, pushed, published, database, phase>>
      BY <1>6, <2>2 DEF InitRecord, Bind
    <3> HIDE DEF found
    <3>3. [records[found] EXCEPT !.record_name = pv] \in RecordType(DOMAIN database)
      <4> DEFINE r == records[found]
      <4>1. r \in RecordType(DOMAIN database)
        BY <3>1
      <4> HIDE DEF r
      <4>2. [r EXCEPT !.record_name = pv] \in RecordType(DOMAIN database)
        BY <4>1 DEF RecordType
      <4> QED
        BY <4>2 DEF r
    <3>4. records' \in Seq(RecordType(DOMAIN database)) /\ Len(records') = Len(records)
      BY <3>1, <3>2, <3>3
    <3>5. dpvt' \in [DOMAIN database -> Nat]
      BY <3>1, <3>2
    <3> QED
      BY <3>2, <3>4, <3>5
  <2> QED
    BY <2>1, <2>2
<1>7. CASE IocRuns
  BY <1>7 DEF IocRuns
<1>8. CASE CheckUnusedRecordBindings
  BY <1>8 DEF CheckUnusedRecordBindings
<1>9. ASSUME NEW request \in Requests, AccessByName(request) PROVE Types'
  BY <1>9 DEF AccessByName, Die
<1>10. CASE UNCHANGED vars
  BY <1>10 DEF vars
<1> QED
  BY <1>1, <1>2, <1>3, <1>4, <1>5, <1>6, <1>7, <1>8, <1>9, <1>10
     DEF Next

\* Pushing adds to the stack and popping goes back to what was there.
LEMMA StackStep == ASSUME IInv, [Next]_vars PROVE StackOK'
<1> USE DEF IInv, Types, StackOK, Joined, naming, store, ioc
<1>1. ASSUME NEW separator \in Separators, SetRecordNameSeparator(separator)
      PROVE  StackOK'
  <2>1. UNCHANGED pushed
    BY <1>1 DEF SetRecordNameSeparator, Die
  <2>2. \/ UNCHANGED name_prefix
        \/ Len(separator) < SeparatorLength
             /\ name_prefix' = [name_prefix EXCEPT !.separator = separator]
    BY <1>1 DEF SetRecordNameSeparator, Die
  <2> QED
    BY <2>1, <2>2
<1>2. ASSUME NEW prefix \in NamePrefixes, PushRecordNamePrefix(prefix) PROVE StackOK'
  <2> DEFINE text == prefix \o name_prefix.separator
             length == name_prefix.length + Len(text)
             first == SubSeq(name_prefix.prefix, 1, name_prefix.length)
             n == Len(pushed)
  <2>1. CASE Len(name_prefix.offsets) < PrefixCount /\ length < PrefixLength
    <3>1. /\ name_prefix' = [name_prefix EXCEPT !.length = length,
               !.prefix = first \o text, !.offsets = Append(@, name_prefix.length)]
          /\ pushed' = Append(pushed, text)
      BY <1>2, <2>1 DEF PushRecordNamePrefix
    <3>2. prefix \in Text /\ text \in Text /\ length \in Nat /\ Len(text) \in Nat
      BY PublishAssumption DEF Text
    <3>3. first = name_prefix.prefix
      BY DEF Text
    <3>4. first \o text \in Text /\ Len(first \o text) = length
      <4>1. first \in Seq(Chars) /\ text \in Seq(Chars)
        BY <3>2, <3>3 DEF Text
      <4>2. Len(first) = name_prefix.length
        BY <3>3
      <4>3. first \o text \in Seq(Chars) /\ Len(first \o text) = Len(first) + Len(text)
        BY <4>1, ConcatProperties
      <4> QED
        BY <4>2, <4>3 DEF Text
    <3>5. n < PrefixCount /\ length < PrefixLength /\ n \in Nat
      BY <2>1
    <3>6. FlattenSeq(pushed') = first \o text
      <4>1. pushed \in Seq(Seq(Chars)) /\ text \in Seq(Chars) /\ FlattenSeq(pushed) \in Seq(Chars)
        BY <3>2 DEF Text
      <4>2. FlattenSeq(Append(pushed, text)) = FlattenSeq(pushed) \o text
        BY <4>1, FlattenAppend, ZenonT(60)
      <4> QED
        BY <3>1, <3>3, <4>2
    <3>7. name_prefix.length <= length
      BY <3>2
    <3> HIDE DEF text, length, first
    <3>8. /\ name_prefix'.prefix = first \o text
          /\ name_prefix'.length = length
          /\ name_prefix'.separator = name_prefix.separator
          /\ name_prefix'.offsets = Append(name_prefix.offsets, name_prefix.length)
      BY <3>1
    <3>9. Len(pushed') = n + 1 /\ Len(name_prefix'.offsets) = n + 1
      BY <3>1, <3>2, <3>8
    <3>10. \A k \in 0 .. n : SubSeq(pushed', 1, k) = SubSeq(pushed, 1, k)
      BY <3>1, <3>2, <3>5, FirstOfAppend
    <3>11. \A k \in 1 .. n : name_prefix'.offsets[k] = name_prefix.offsets[k]
      BY <3>5, <3>8
    <3>12. /\ name_prefix'.offsets[n + 1] = name_prefix.length
           /\ SubSeq(pushed', 1, n) = pushed
      <4>1. SubSeq(pushed, 1, n) = pushed
        BY WholeSeq
      <4>2. SubSeq(pushed', 1, n) = SubSeq(pushed, 1, n)
        BY <3>5, <3>10
      <4>3. Len(name_prefix.offsets) = n /\ name_prefix.offsets \in Seq(Nat)
        OBVIOUS
      <4>4. Append(name_prefix.offsets, name_prefix.length)[Len(name_prefix.offsets) + 1]
              = name_prefix.length
        BY <4>3, AppendProperties
      <4> QED
        BY <3>8, <4>1, <4>2, <4>3, <4>4
    <3> HIDE DEF n
    <3>13. ASSUME NEW k \in 1 .. n + 1
           PROVE  /\ FlattenSeq(SubSeq(pushed', 1, k - 1)) \in Text
                  /\ name_prefix'.offsets[k] = Len(FlattenSeq(SubSeq(pushed', 1, k - 1)))
                  /\ name_prefix'.offsets[k] <= length
                  /\ \A j \in 1 .. k : name_prefix'.offsets[j] <= name_prefix'.offsets[k]
      <4>1. CASE k = n + 1
        <5>1. k - 1 = n /\ name_prefix'.offsets[k] = name_prefix.length
          BY <3>5, <3>12, <4>1
        <5>2. SubSeq(pushed', 1, k - 1) = pushed
          BY <3>12, <5>1
        <5>3. ASSUME NEW j \in 1 .. k PROVE name_prefix'.offsets[j] <= name_prefix.length
          <6>1. CASE j = k
            BY <5>1, <6>1
          <6>2. CASE j # k
            <7>1. j \in 1 .. n /\ j \in 1 .. Len(pushed)
              BY <3>5, <4>1, <6>2 DEF n
            <7> QED
              BY <3>11, <7>1
          <6> QED
            BY <6>1, <6>2
        <5> QED
          BY <3>7, <5>1, <5>2, <5>3
      <4>2. CASE k # n + 1
        <5>1. k \in 1 .. n /\ k - 1 \in 0 .. n
          BY <3>5, <4>2
        <5>2. /\ FlattenSeq(SubSeq(pushed, 1, k - 1)) \in Text
              /\ name_prefix.offsets[k] = Len(FlattenSeq(SubSeq(pushed, 1, k - 1)))
              /\ name_prefix.offsets[k] <= name_prefix.length
              /\ name_prefix.offsets[k] \in Nat
              /\ \A j \in 1 .. k : name_prefix.offsets[j] <= name_prefix.offsets[k]
          BY <5>1 DEF n
        <5>3. name_prefix.offsets[k] <= length
          BY <3>2, <3>7, <5>2
        <5>4. \A j \in 1 .. k : name_prefix'.offsets[j] = name_prefix.offsets[j]
          BY <3>5, <3>11, <5>1
        <5>5. SubSeq(pushed', 1, k - 1) = SubSeq(pushed, 1, k - 1)
          BY <3>10, <5>1
        <5>6. name_prefix'.offsets[k] = name_prefix.offsets[k]
          BY <3>11, <5>1
        <5> QED
          BY <5>2, <5>3, <5>4, <5>5, <5>6
      <4> QED
        BY <4>1, <4>2
    <3>14. n + 1 <= PrefixCount
      BY <3>5, PublishAssumption
    <3> QED
      BY <3>4, <3>5, <3>6, <3>8, <3>9, <3>13, <3>14
  <2>2. CASE ~ (Len(name_prefix.offsets) < PrefixCount /\ length < PrefixLength)
    BY <1>2, <2>2 DEF PushRecordNamePrefix, Die
  <2> QED
    BY <2>1, <2>2
<1>3. CASE PopRecordNamePrefix
  <2>1. CASE name_prefix.offsets # <<>>
    <3> DEFINE last == Last(name_prefix.offsets)
               n == Len(pushed) - 1
    <3>1. /\ name_prefix' = [name_prefix EXCEPT !.length = last,
               !.prefix = SubSeq(@, 1, last), !.offsets = Front(@)]
          /\ pushed' = Front(pushed)
      BY <1>3, <2>1 DEF PopRecordNamePrefix
    <3>2. pushed # <<>>
      BY <2>1
    <3>3. /\ n \in Nat /\ Len(pushed) = n + 1
          /\ Front(pushed) \in Seq(Text) /\ Len(Front(pushed)) = n
          /\ Last(pushed) \in Text /\ pushed = Append(Front(pushed), Last(pushed))
          /\ \A k \in 1 .. n : Front(pushed)[k] = pushed[k]
      <4>1. /\ Len(pushed) \in Nat \ {0}
            /\ Front(pushed) \in Seq(Text) /\ Len(Front(pushed)) = Len(pushed) - 1
            /\ Last(pushed) \in Text /\ pushed = Append(Front(pushed), Last(pushed))
            /\ \A k \in 1 .. Len(pushed) - 1 : Front(pushed)[k] = pushed[k]
        BY <3>2, FrontLast
      <4>2. n \in Nat /\ Len(pushed) = n + 1
        BY <4>1
      <4> QED
        BY <4>1, <4>2
    <3>4. /\ Len(Front(name_prefix.offsets)) = n
          /\ last = name_prefix.offsets[n + 1]
          /\ \A k \in 1 .. n : Front(name_prefix.offsets)[k] = name_prefix.offsets[k]
      <4>1. Len(name_prefix.offsets) = n + 1
        BY <3>3
      <4>2. /\ Len(Front(name_prefix.offsets)) = Len(name_prefix.offsets) - 1
            /\ last = name_prefix.offsets[Len(name_prefix.offsets)]
            /\ \A k \in 1 .. Len(name_prefix.offsets) - 1 :
                 Front(name_prefix.offsets)[k] = name_prefix.offsets[k]
        BY <2>1, FrontLast, ZenonT(60)
      <4> HIDE DEF last, n
      <4> QED
        BY <3>3, <4>1, <4>2
    <3>5. \A k \in 0 .. n : SubSeq(Front(pushed), 1, k) = SubSeq(pushed, 1, k)
      <4>1. SubSeq(Append(Front(pushed), Last(pushed)), 1, n) = Front(pushed)
        BY <3>3, FirstOfAppend, WholeSeq
      <4> QED
        BY <3>3, FirstOfAppend
    <3>6. SubSeq(pushed, 1, n) = Front(pushed)
      BY <3>3, <3>5, WholeSeq
    <3> HIDE DEF n
    <3>7. /\ FlattenSeq(Front(pushed)) \in Text
          /\ last = Len(FlattenSeq(Front(pushed)))
          /\ last <= name_prefix.length
      <4>1. n + 1 \in 1 .. Len(pushed) /\ (n + 1) - 1 = n
        BY <3>3
      <4> QED
        BY <3>4, <3>6, <4>1
    <3>8. name_prefix.prefix = FlattenSeq(Front(pushed)) \o Last(pushed)
      BY <3>3, <3>7, FlattenAppend, ZenonT(60) DEF Text
    <3>9. SubSeq(name_prefix.prefix, 1, last) = FlattenSeq(Front(pushed))
      BY <3>3, <3>7, <3>8, FirstPart DEF Text
    <3> HIDE DEF last
    <3>10. /\ name_prefix'.prefix = FlattenSeq(Front(pushed))
           /\ name_prefix'.length = last
           /\ name_prefix'.separator = name_prefix.separator
           /\ name_prefix'.offsets = Front(name_prefix.offsets)
      BY <3>1, <3>9
    <3>11. last \in Nat /\ last < PrefixLength
      BY <3>7, PublishAssumption DEF Text
    <3>12. ASSUME NEW k \in 1 .. n
           PROVE  /\ FlattenSeq(SubSeq(pushed', 1, k - 1)) \in Text
                  /\ name_prefix'.offsets[k] = Len(FlattenSeq(SubSeq(pushed', 1, k - 1)))
                  /\ name_prefix'.offsets[k] <= last
                  /\ \A j \in 1 .. k : name_prefix'.offsets[j] <= name_prefix'.offsets[k]
      <4>1. /\ k \in 1 .. Len(pushed) /\ k - 1 \in 0 .. n /\ k \in 1 .. n + 1
            /\ n + 1 \in 1 .. Len(pushed)
        BY <3>3
      <4>2. ASSUME NEW j \in 1 .. k PROVE name_prefix'.offsets[j] = name_prefix.offsets[j]
        <5>1. j \in 1 .. n
          BY <3>3
        <5> QED
          BY <3>4, <3>10, <5>1
      <4>3. name_prefix'.offsets[k] = name_prefix.offsets[k]
        BY <3>4, <3>10
      <4>4. SubSeq(pushed', 1, k - 1) = SubSeq(pushed, 1, k - 1)
        BY <3>1, <3>5, <4>1
      <4>5. /\ FlattenSeq(SubSeq(pushed, 1, k - 1)) \in Text
            /\ name_prefix.offsets[k] = Len(FlattenSeq(SubSeq(pushed, 1, k - 1)))
            /\ \A j \in 1 .. k : name_prefix.offsets[j] <= name_prefix.offsets[k]
        BY <4>1
      <4>6. name_prefix.offsets[k] <= last
        BY <3>4, <4>1
      <4> QED
        BY <4>2, <4>3, <4>4, <4>5, <4>6
    <3>13. n <= PrefixCount
      BY <3>3, PublishAssumption
    <3> QED
      BY <3>1, <3>3, <3>4, <3>7, <3>10, <3>11, <3>12, <3>13
  <2>2. CASE name_prefix.offsets = <<>>
    BY <1>3, <2>2 DEF PopRecordNamePrefix, Die
  <2> QED
    BY <2>1, <2>2
<1>4. ASSUME NEW p \in Publications, PublishEpicsRecord(p) PROVE StackOK'
  BY <1>4 DEF PublishEpicsRecord, Die
<1>5. CASE IocInit
  BY <1>5 DEF IocInit
<1>6. ASSUME NEW pv \in DOMAIN database \ visited, InitRecord(pv) PROVE StackOK'
  BY <1>6 DEF InitRecord, Bind
<1>7. CASE IocRuns
  BY <1>7 DEF IocRuns
<1>8. CASE CheckUnusedRecordBindings
  BY <1>8 DEF CheckUnusedRecordBindings
<1>9. ASSUME NEW request \in Requests, AccessByName(request) PROVE StackOK'
  BY <1>9 DEF AccessByName, Die
<1>10. CASE UNCHANGED vars
  BY <1>10 DEF vars
<1> QED
  BY <1>1, <1>2, <1>3, <1>4, <1>5, <1>6, <1>7, <1>8, <1>9, <1>10
     DEF Next

-------------------------------------------------------------------------------
(* Effects on the records.                                                 *)

\* What publishing does.
Publishes(p) ==
  LET key  == Key(p.record_type, name_prefix.prefix \o p.name)
      base == NewRecord(p.record_type, key, p.args)
  IN /\ phase = "publish" /\ key \notin DOMAIN hash_table /\ HasPersistentType(base)
     /\ records' = Append(records, base)
     /\ hash_table' = [k \in DOMAIN hash_table \union {key} |->
                         IF k = key THEN Len(records') ELSE hash_table[k]]
     /\ variables' = IF base.persist
                     THEN CreatePersistentWaveform(key, PersistentType(base.field_type),
                                                   base.max_length)
                     ELSE variables
     /\ published' = Append(published, FlattenSeq(pushed) \o p.name)
     /\ UNCHANGED <<naming, ioc, phase, reported, reached>>

\* What the initialisation of pv does: found is the record that it binds to, or 0.
Initialises(pv, found) ==
  /\ phase = "init" /\ visited' = visited \union {pv}
  /\ UNCHANGED <<naming, hash_table, variables, published, database, phase, reported, reached>>
  /\ Len(records') = Len(records)
  /\ \A i \in DOMAIN records :
       /\ records'[i].key = records[i].key
       /\ records'[i].record_type = records[i].record_type
       /\ records'[i].persist = records[i].persist
       /\ records'[i].field_type = records[i].field_type
       /\ records'[i].max_length = records[i].max_length
       /\ records'[i].ioscanpvt = records[i].ioscanpvt
       /\ records'[i].record_name = IF i = found THEN pv ELSE records[i].record_name
  /\ DOMAIN dpvt' = DOMAIN dpvt
  /\ \A q \in DOMAIN dpvt \ {pv} : dpvt'[q] = dpvt[q]
  /\ \/ /\ found = 0 /\ dpvt' = dpvt
        /\ Handler(pv) = 0 \/ records[Handler(pv)].record_name # NoPV
     \/ /\ found \in DOMAIN records /\ found = Handler(pv)
        /\ records[found].record_name = NoPV
        /\ dpvt'[pv] = IF Refused(pv, records[found]) THEN 0 ELSE found

\* An EPICS record refers to the record that its initialisation finds, and to no other.
LEMMA Finds ==
  ASSUME IInv, NEW pv \in DOMAIN database, NEW i \in DOMAIN records
  PROVE  Refers(pv, i) <=> Handler(pv) = i
<1> DEFINE type == database[pv].record_type  key == Key(type, database[pv].address)
<1>1. /\ type \in RecordTypes \ {"ulongin", "ulongout"} /\ database[pv].address \in Text
  BY PublishAssumption DEF IInv, Types
<1>2. TypeName(type) = type
  BY <1>1 DEF TypeName
<1>3. /\ published[i] \in Text
      /\ records[i].key = Key(records[i].record_type, published[i])
      /\ hash_table[records[i].key] = i /\ records[i].key \in DOMAIN hash_table
      /\ i # 0
  BY DEF IInv, Types, TableOK
<1>4. ASSUME Refers(pv, i) PROVE key = records[i].key
  BY <1>2, <1>3, <1>4 DEF Refers, Key
<1>5. ASSUME key = records[i].key PROVE Refers(pv, i)
  <2>1. Key(type, database[pv].address) = Key(records[i].record_type, published[i])
    BY <1>3, <1>5
  <2>2. TypeName(type) = TypeName(records[i].record_type) /\ database[pv].address = published[i]
    BY <1>1, <1>3, <2>1, KeyTells
  <2> QED
    BY <1>2, <2>2 DEF Refers
<1>6. Handler(pv) = IF key \in DOMAIN hash_table THEN hash_table[key] ELSE 0
  BY DEF Handler
<1>7. key \in DOMAIN hash_table => \E j \in DOMAIN records : key = records[j].key /\ hash_table[key] = j
  BY DEF IInv, TableOK
<1> HIDE DEF key, type
<1> QED
  BY <1>3, <1>4, <1>5, <1>6, <1>7

\* It is what the definition says, of each record and of DPVT.
LEMMA InitEffects ==
  ASSUME IInv, NEW pv \in DOMAIN database \ visited, InitRecord(pv)
  PROVE  \E found : Initialises(pv, found)
<1> DEFINE found == IF Handler(pv) # 0 /\ records[Handler(pv)].record_name = NoPV
                    THEN Handler(pv) ELSE 0
<1>1. Bind(pv, found)
  BY DEF InitRecord
<1>2. Handler(pv) # 0 => Handler(pv) \in DOMAIN records
  BY DEF Handler, IInv, TableOK
<1>3. records \in Seq(RecordType(DOMAIN database)) /\ dpvt \in [DOMAIN database -> Nat]
  BY DEF IInv, Types
<1>4. /\ phase = "init" /\ visited' = visited \union {pv}
      /\ UNCHANGED <<naming, hash_table, variables, published, database, phase, reported, reached>>
  BY <1>1 DEF Bind
<1>5. CASE found = 0
  <2>1. UNCHANGED <<records, dpvt>> /\ (Handler(pv) = 0 \/ records[Handler(pv)].record_name # NoPV)
    BY <1>1, <1>5 DEF Bind
  <2>2. \A i \in DOMAIN records : i # 0
    BY <1>3
  <2> HIDE DEF found
  <2> QED
    BY <1>4, <1>5, <2>1, <2>2 DEF Initialises
<1>6. CASE found # 0
  <2>1. found = Handler(pv) /\ found \in DOMAIN records /\ records[found].record_name = NoPV
    BY <1>2, <1>6
  <2> HIDE DEF found
  <2>2. /\ records' = [records EXCEPT ![found].record_name = pv]
        /\ dpvt' = [dpvt EXCEPT ![pv] = IF Refused(pv, records[found]) THEN 0 ELSE found]
    BY <1>1, <1>6 DEF Bind
  <2>3. /\ DOMAIN dpvt' = DOMAIN dpvt
        /\ \A q \in DOMAIN dpvt \ {pv} : dpvt'[q] = dpvt[q]
        /\ dpvt'[pv] = IF Refused(pv, records[found]) THEN 0 ELSE found
    BY <1>3, <2>2
  <2>4. Len(records') = Len(records)
    BY <1>3, <2>1, <2>2
  <2>5. ASSUME NEW i \in DOMAIN records
        PROVE  /\ records'[i].key = records[i].key
               /\ records'[i].record_type = records[i].record_type
               /\ records'[i].persist = records[i].persist
               /\ records'[i].field_type = records[i].field_type
               /\ records'[i].max_length = records[i].max_length
               /\ records'[i].ioscanpvt = records[i].ioscanpvt
               /\ records'[i].record_name = IF i = found THEN pv ELSE records[i].record_name
    <3>1. records[i] \in RecordType(DOMAIN database)
      BY <1>3
    <3>2. CASE i = found
      <4>1. records'[i] = [records[i] EXCEPT !.record_name = pv]
        BY <1>3, <2>1, <2>2, <3>2
      <4> QED
        BY <3>1, <3>2, <4>1 DEF RecordType
    <3>3. CASE i # found
      <4>1. records'[i] = records[i]
        BY <1>3, <2>1, <2>2, <3>3
      <4> QED
        BY <3>3, <4>1
    <3> QED
      BY <3>2, <3>3
  <2> QED
    BY <1>4, <2>1, <2>3, <2>4, <2>5 DEF Initialises
<1> QED
  BY <1>5, <1>6

\* Nothing else touches the records.
LEMMA Effects ==
  ASSUME IInv, [Next]_vars
  PROVE  \/ UNCHANGED <<store, ioc>> /\ (phase' = "publish" => phase = "publish")
         \/ \E p \in Publications : Publishes(p)
         \/ \E pv \in DOMAIN database \ visited, found \in Nat : Initialises(pv, found)
<1>1. ASSUME NEW separator \in Separators, SetRecordNameSeparator(separator)
      PROVE  UNCHANGED <<store, ioc>> /\ (phase' = "publish" => phase = "publish")
  BY <1>1 DEF SetRecordNameSeparator, Die
<1>2. ASSUME NEW prefix \in NamePrefixes, PushRecordNamePrefix(prefix)
      PROVE  UNCHANGED <<store, ioc>> /\ (phase' = "publish" => phase = "publish")
  BY <1>2 DEF PushRecordNamePrefix, Die
<1>3. ASSUME PopRecordNamePrefix PROVE UNCHANGED <<store, ioc>> /\ (phase' = "publish" => phase = "publish")
  BY <1>3 DEF PopRecordNamePrefix, Die
<1>4. ASSUME NEW p \in Publications, PublishEpicsRecord(p)
      PROVE  \/ UNCHANGED <<store, ioc>> /\ (phase' = "publish" => phase = "publish")
             \/ Publishes(p)
  BY <1>4 DEF PublishEpicsRecord, Die, Publishes
<1>5. ASSUME IocInit PROVE UNCHANGED <<store, ioc>> /\ (phase' = "publish" => phase = "publish")
  BY <1>5 DEF IocInit
<1>6. ASSUME NEW pv \in DOMAIN database \ visited, InitRecord(pv) PROVE \E found \in Nat : Initialises(pv, found)
  <2>1. PICK found : Initialises(pv, found)
    BY <1>6, InitEffects
  <2>2. found \in Nat
    BY <2>1 DEF Initialises, IInv, Types
  <2> QED
    BY <2>1, <2>2
<1>7. ASSUME IocRuns PROVE UNCHANGED <<store, ioc>> /\ (phase' = "publish" => phase = "publish")
  BY <1>7 DEF IocRuns
<1>8. ASSUME CheckUnusedRecordBindings PROVE UNCHANGED <<store, ioc>> /\ (phase' = "publish" => phase = "publish")
  BY <1>8 DEF CheckUnusedRecordBindings
<1>9. ASSUME NEW request \in Requests, AccessByName(request)
      PROVE  UNCHANGED <<store, ioc>> /\ (phase' = "publish" => phase = "publish")
  BY <1>9 DEF AccessByName, Die
<1>10. ASSUME UNCHANGED vars PROVE UNCHANGED <<store, ioc>> /\ (phase' = "publish" => phase = "publish")
  BY <1>10 DEF vars
<1> QED
  BY <1>1, <1>2, <1>3, <1>4, <1>5, <1>6, <1>7, <1>8, <1>9, <1>10 DEF Next

-------------------------------------------------------------------------------
(* The parts of the inductive invariant.                                   *)

\* What a publication adds to the records.
LEMMA PublishEffects ==
  ASSUME IInv, NEW p \in Publications, Publishes(p),
         NEW key, key = Key(p.record_type, name_prefix.prefix \o p.name),
         NEW n, n = Len(records)
  PROVE  /\ n \in Nat /\ DOMAIN records = 1 .. n /\ DOMAIN records' = 1 .. n + 1
         /\ DOMAIN published = 1 .. n /\ DOMAIN published' = 1 .. n + 1
         /\ \A i \in 1 .. n : records'[i] = records[i] /\ published'[i] = published[i]
         /\ records'[n + 1] = NewRecord(p.record_type, key, p.args)
         /\ published'[n + 1] = name_prefix.prefix \o p.name
         /\ DOMAIN hash_table' = DOMAIN hash_table \union {key} /\ key \notin DOMAIN hash_table
         /\ \A k \in DOMAIN hash_table : hash_table'[k] = hash_table[k]
         /\ hash_table'[key] = n + 1
<1> DEFINE base == NewRecord(p.record_type, key, p.args)
<1>1. /\ records \in Seq(RecordType(DOMAIN database)) /\ published \in Seq(Text)
      /\ Len(records) = Len(published) /\ name_prefix.prefix \in Text
      /\ name_prefix.prefix = FlattenSeq(pushed)
  BY DEF IInv, Types, StackOK
<1>2. name_prefix.prefix \o p.name \in Text /\ base \in RecordType(DOMAIN database)
  BY <1>1, NewRecordType
<1>3. /\ records' = Append(records, base) /\ key \notin DOMAIN hash_table
      /\ published' = Append(published, name_prefix.prefix \o p.name)
      /\ hash_table' = [k \in DOMAIN hash_table \union {key} |->
                          IF k = key THEN Len(records') ELSE hash_table[k]]
  BY <1>1 DEF Publishes
<1> HIDE DEF base
<1>4. /\ n \in Nat /\ DOMAIN records = 1 .. n /\ DOMAIN records' = 1 .. n + 1
      /\ Len(records') = n + 1
      /\ \A i \in 1 .. n : records'[i] = records[i]
      /\ records'[n + 1] = base
  BY <1>1, <1>2, <1>3
<1>5. /\ DOMAIN published = 1 .. n /\ DOMAIN published' = 1 .. n + 1
      /\ \A i \in 1 .. n : published'[i] = published[i]
      /\ published'[n + 1] = name_prefix.prefix \o p.name
  BY <1>1, <1>2, <1>3
<1> QED
  BY <1>3, <1>4, <1>5 DEF base

\* What a new record holds.
LEMMA NewFields ==
  ASSUME NEW type, NEW key, NEW args, NEW base, base = NewRecord(type, key, args)
  PROVE  /\ base.key = key /\ base.record_type = type /\ base.record_name = NoPV
         /\ base.persist = Persists(type, args)
         /\ base.max_length = (IF type = "waveform" THEN args.max_length ELSE 1)
         /\ base.field_type = (IF type = "waveform" THEN args.field_type ELSE type)
BY DEF NewRecord

\* A persistent record has a variable of the size of its values.
LEMMA SameSize ==
  ASSUME NEW p \in Publications, Persists(p.record_type, p.args), NEW type, type # "void",
         type = (IF p.record_type = "waveform" THEN p.args.field_type ELSE p.record_type)
  PROVE  PersistentSize[PersistentType(type)] = ValueSize[type]
<1>1. type \in OutTypes \union FieldTypes
  BY PublishAssumption DEF Persists, RecordTypes, ArgTypes
<1>2. CASE type \in {"longout", "ulongout", "int"}
  <2>1. PersistentType(type) = "int"
    BY <1>2 DEF PersistentType
  <2> QED
    BY <1>2, <2>1 DEF PersistentSize, ValueSize
<1>3. CASE type \in {"ao", "double"}
  <2>1. PersistentType(type) = "double"
    BY <1>3 DEF PersistentType
  <2> QED
    BY <1>3, <2>1 DEF PersistentSize, ValueSize
<1>4. CASE type = "bo"
  <2>1. PersistentType(type) = "bool"
    BY <1>4 DEF PersistentType
  <2> QED
    BY <1>4, <2>1 DEF PersistentSize, ValueSize
<1>5. CASE type \in {"stringout", "EPICS_STRING"}
  <2>1. PersistentType(type) = "string"
    BY <1>5 DEF PersistentType
  <2> QED
    BY <1>5, <2>1 DEF PersistentSize, ValueSize
<1>6. CASE type \in {"mbbo", "short"}
  <2>1. PersistentType(type) = "short"
    BY <1>6 DEF PersistentType
  <2> QED
    BY <1>6, <2>1 DEF PersistentSize, ValueSize
<1>7. CASE type \in {"char", "float"}
  <2>1. PersistentType(type) = type
    BY <1>7 DEF PersistentType
  <2> QED
    BY <1>7, <2>1 DEF PersistentSize, ValueSize
<1> QED
  BY <1>1, <1>2, <1>3, <1>4, <1>5, <1>6, <1>7 DEF OutTypes, FieldTypes

\* The table has what is published, under its key.
LEMMA TableStep == ASSUME IInv, [Next]_vars PROVE TableOK'
<1>1. CASE UNCHANGED <<store, ioc>>
  BY <1>1 DEF IInv, TableOK, store
<1>2. ASSUME NEW p \in Publications, Publishes(p) PROVE TableOK'
  <2>a. PICK key, n : key = Key(p.record_type, name_prefix.prefix \o p.name) /\ n = Len(records)
    OBVIOUS
  <2>1. /\ n \in Nat /\ DOMAIN records = 1 .. n /\ DOMAIN records' = 1 .. n + 1
        /\ \A i \in 1 .. n : records'[i] = records[i] /\ published'[i] = published[i]
        /\ records'[n + 1] = NewRecord(p.record_type, key, p.args)
        /\ published'[n + 1] = name_prefix.prefix \o p.name
    BY <1>2, <2>a, PublishEffects, ZenonT(60)
  <2>7. /\ DOMAIN hash_table' = DOMAIN hash_table \union {key} /\ key \notin DOMAIN hash_table
        /\ \A k \in DOMAIN hash_table : hash_table'[k] = hash_table[k]
        /\ hash_table'[key] = n + 1
    BY <1>2, <2>a, PublishEffects, ZenonT(60)
  <2>2. records'[n + 1].key = key /\ records'[n + 1].record_type = p.record_type
    BY <2>1, NewFields
  <2>3. key = Key(records'[n + 1].record_type, published'[n + 1])
    BY <2>1, <2>2, <2>a
  <2>4. /\ DOMAIN hash_table = {records[i].key : i \in 1 .. n}
        /\ \A i \in 1 .. n : /\ hash_table[records[i].key] = i
                             /\ records[i].key = Key(records[i].record_type, published[i])
    BY <2>1 DEF IInv, TableOK
  <2>5. ASSUME NEW i \in 1 .. n + 1
        PROVE  /\ records'[i].key \in DOMAIN hash_table'
               /\ hash_table'[records'[i].key] = i
               /\ records'[i].key = Key(records'[i].record_type, published'[i])
    <3>1. CASE i = n + 1
      BY <2>1, <2>2, <2>3, <2>7, <3>1
    <3>2. CASE i # n + 1
      <4>1. i \in 1 .. n
        BY <2>1, <3>2
      <4>2. records'[i] = records[i] /\ published'[i] = published[i]
        BY <2>1, <4>1
      <4>3. records[i].key \in DOMAIN hash_table
        BY <2>4, <4>1
      <4> QED
        BY <2>1, <2>4, <2>7, <4>1, <4>2, <4>3
    <3> QED
      BY <3>1, <3>2
  <2>6. ASSUME NEW k \in DOMAIN hash_table' PROVE \E i \in 1 .. n + 1 : k = records'[i].key
    <3>1. CASE k = key
      BY <2>1, <2>2, <3>1
    <3>2. CASE k # key
      <4>1. PICK i \in 1 .. n : k = records[i].key
        BY <2>1, <2>4, <2>7, <3>2
      <4>2. i \in 1 .. n + 1 /\ records'[i] = records[i]
        BY <2>1
      <4> QED
        BY <4>1, <4>2
    <3> QED
      BY <3>1, <3>2
  <2>8. DOMAIN records' = 1 .. n + 1
    BY <2>1
  <2>9. DOMAIN hash_table' = {records'[i].key : i \in DOMAIN records'}
    BY <2>5, <2>6, <2>8
  <2> QED
    BY <2>5, <2>8, <2>9 DEF TableOK
<1>3. ASSUME NEW pv \in DOMAIN database \ visited, NEW found, Initialises(pv, found)
      PROVE  TableOK'
  <2>1. /\ UNCHANGED <<hash_table, published>> /\ DOMAIN records' = DOMAIN records
        /\ \A i \in DOMAIN records : /\ records'[i].key = records[i].key
                                     /\ records'[i].record_type = records[i].record_type
    <3>1. records \in Seq(RecordType(DOMAIN database)) /\ Types'
      BY TypesStep DEF IInv, Types
    <3>2. DOMAIN records = 1 .. Len(records) /\ DOMAIN records' = 1 .. Len(records')
      BY <3>1 DEF Types
    <3> QED
      BY <1>3, <3>2 DEF Initialises
  <2> QED
    BY <2>1 DEF IInv, TableOK
<1> QED
  BY <1>1, <1>2, <1>3, Effects

\* Publishing makes a variable that fits, and keys of two records are not the same.
LEMMA FitsStep == ASSUME IInv, [Next]_vars PROVE FitsOK'
<1>1. CASE UNCHANGED <<store, ioc>>
  BY <1>1 DEF IInv, FitsOK, store
<1>2. ASSUME NEW p \in Publications, Publishes(p) PROVE FitsOK'
  <2>a. PICK key, n, base : /\ key = Key(p.record_type, name_prefix.prefix \o p.name)
                            /\ n = Len(records) /\ base = NewRecord(p.record_type, key, p.args)
    OBVIOUS
  <2>1. /\ n \in Nat /\ DOMAIN records = 1 .. n /\ DOMAIN records' = 1 .. n + 1
        /\ \A i \in 1 .. n : records'[i] = records[i]
        /\ records'[n + 1] = base
        /\ key \notin DOMAIN hash_table
    BY <1>2, <2>a, PublishEffects, ZenonT(60)
  <2>2. /\ base.key = key
        /\ base.persist = Persists(p.record_type, p.args)
        /\ base.max_length = (IF p.record_type = "waveform" THEN p.args.max_length ELSE 1)
        /\ base.field_type = (IF p.record_type = "waveform" THEN p.args.field_type
                              ELSE p.record_type)
    BY <2>a, NewFields
  <2>3. base.persist => PersistentSize[PersistentType(base.field_type)] = ValueSize[base.field_type]
    <3>1. base.persist => base.field_type # "void"
      BY <1>2, <2>a DEF Publishes, HasPersistentType
    <3> QED
      BY <2>2, <3>1, SameSize
  <2>4. variables' = IF base.persist
                     THEN CreatePersistentWaveform(key, PersistentType(base.field_type),
                                                   base.max_length)
                     ELSE variables
    BY <1>2, <2>a DEF Publishes
  <2>5. \A i \in 1 .. n : records[i].key # key
    BY <2>1 DEF IInv, TableOK
  <2>6. ASSUME NEW i \in 1 .. n + 1, records'[i].persist
        PROVE  /\ records'[i].key \in DOMAIN variables'
               /\ PersistentSize[variables'[records'[i].key].type] = ValueSize[records'[i].field_type]
               /\ variables'[records'[i].key].max_length = records'[i].max_length
    <3>1. CASE i = n + 1
      BY <2>1, <2>2, <2>3, <2>4, <2>6, <3>1 DEF CreatePersistentWaveform
    <3>2. CASE i # n + 1
      <4>1. i \in 1 .. n /\ i \in DOMAIN records
        BY <2>1, <3>2
      <4>2. records'[i] = records[i]
        BY <2>1, <4>1
      <4>3. /\ records[i].key \in DOMAIN variables
            /\ PersistentSize[variables[records[i].key].type] = ValueSize[records[i].field_type]
            /\ variables[records[i].key].max_length = records[i].max_length
        BY <2>6, <4>1, <4>2 DEF IInv, FitsOK
      <4>4. /\ records[i].key \in DOMAIN variables'
            /\ variables'[records[i].key] = variables[records[i].key]
        BY <2>4, <2>5, <4>1, <4>3 DEF CreatePersistentWaveform
      <4> QED
        BY <4>2, <4>3, <4>4
    <3> QED
      BY <3>1, <3>2
  <2> QED
    BY <2>1, <2>6 DEF FitsOK
<1>3. ASSUME NEW pv \in DOMAIN database \ visited, NEW found, Initialises(pv, found)
      PROVE  FitsOK'
  <2>1. /\ UNCHANGED variables /\ DOMAIN records' = DOMAIN records
        /\ \A i \in DOMAIN records : /\ records'[i].key = records[i].key
                                     /\ records'[i].persist = records[i].persist
                                     /\ records'[i].field_type = records[i].field_type
                                     /\ records'[i].max_length = records[i].max_length
    <3>1. records \in Seq(RecordType(DOMAIN database)) /\ Types'
      BY TypesStep DEF IInv, Types
    <3>2. DOMAIN records = 1 .. Len(records) /\ DOMAIN records' = 1 .. Len(records')
      BY <3>1 DEF Types
    <3> QED
      BY <1>3, <3>2 DEF Initialises
  <2> QED
    BY <2>1 DEF IInv, FitsOK
<1> QED
  BY <1>1, <1>2, <1>3, Effects

\* iocInit() binds a record to the first EPICS record that refers to it, and to that only.
LEMMA BindStep == ASSUME IInv, [Next]_vars PROVE BindOK'
<1>1. CASE UNCHANGED <<store, ioc>> /\ (phase' = "publish" => phase = "publish")
  BY <1>1 DEF IInv, BindOK, Refers, Refused, ScanFits, TypeFits, store, ioc
<1>2. ASSUME NEW p \in Publications, Publishes(p) PROVE BindOK'
  <2>a. PICK key, n : key = Key(p.record_type, name_prefix.prefix \o p.name) /\ n = Len(records)
    OBVIOUS
  <2>1. /\ n \in Nat /\ DOMAIN records = 1 .. n /\ DOMAIN records' = 1 .. n + 1
        /\ \A i \in 1 .. n : records'[i] = records[i] /\ published'[i] = published[i]
        /\ records'[n + 1] = NewRecord(p.record_type, key, p.args)
    BY <1>2, <2>a, PublishEffects, ZenonT(60)
  <2>2. records'[n + 1].record_name = NoPV
    BY <2>1, NewFields
  <2>3. visited = {} /\ UNCHANGED <<database, dpvt, visited, phase>>
    BY <1>2 DEF Publishes, ioc, IInv, BindOK
  <2>4. \A i \in 1 .. n : records[i].record_name = NoPV
    BY <2>1, <2>3 DEF IInv, BindOK
  <2>5. \A i \in 1 .. n + 1 : records'[i].record_name = NoPV
    <3> SUFFICES ASSUME NEW i \in 1 .. n + 1 PROVE records'[i].record_name = NoPV
      OBVIOUS
    <3>1. i = n + 1 \/ i \in 1 .. n
      BY <2>1
    <3> QED
      BY <2>1, <2>2, <2>4, <3>1
  <2>6. \A pv \in DOMAIN database : dpvt[pv] = 0
    <3> SUFFICES ASSUME NEW pv \in DOMAIN database, dpvt[pv] # 0 PROVE FALSE
      OBVIOUS
    <3>1. dpvt[pv] \in DOMAIN records /\ records[dpvt[pv]].record_name = pv
      BY DEF IInv, BindOK
    <3>2. pv = NoPV
      BY <2>1, <2>4, <3>1
    <3> QED
      BY <3>2, PublishAssumption DEF IInv, Types
  <2>7. NoPV \notin DOMAIN database
    BY PublishAssumption DEF IInv, Types
  <2> QED
    BY <2>1, <2>3, <2>5, <2>6, <2>7 DEF BindOK
<1>3. ASSUME NEW pv \in DOMAIN database \ visited, NEW found, Initialises(pv, found)
      PROVE  BindOK'
  <2>1. DOMAIN records' = DOMAIN records /\ 0 \notin DOMAIN records
    <3>1. records \in Seq(RecordType(DOMAIN database)) /\ Types'
      BY TypesStep DEF IInv, Types
    <3>2. DOMAIN records = 1 .. Len(records) /\ DOMAIN records' = 1 .. Len(records')
      BY <3>1 DEF Types
    <3> QED
      BY <1>3, <3>2 DEF Initialises
  <2>2. /\ phase' = "init" /\ visited' = visited \union {pv}
        /\ UNCHANGED <<published, database>>
    BY <1>3 DEF Initialises
  <2>3. \A i \in DOMAIN records :
          /\ records'[i].record_type = records[i].record_type
          /\ records'[i].record_name = IF i = found THEN pv ELSE records[i].record_name
    BY <1>3 DEF Initialises
  <2>4. /\ DOMAIN dpvt' = DOMAIN dpvt
        /\ \A q \in DOMAIN dpvt \ {pv} : dpvt'[q] = dpvt[q]
    BY <1>3 DEF Initialises
  <2>5. \/ /\ found = 0 /\ dpvt' = dpvt
           /\ Handler(pv) = 0 \/ records[Handler(pv)].record_name # NoPV
        \/ /\ found \in DOMAIN records /\ found = Handler(pv)
           /\ records[found].record_name = NoPV
           /\ dpvt'[pv] = IF Refused(pv, records[found]) THEN 0 ELSE found
    BY <1>3 DEF Initialises
  <2>0. \A i \in DOMAIN records : \A q : Refused(q, records[i])' <=> Refused(q, records[i])
    BY <1>3 DEF Initialises, Refused, ScanFits, TypeFits
  <2>6. \A i \in DOMAIN records, q \in DOMAIN database : Refers(q, i)' <=> Refers(q, i)
    BY <2>2, <2>3 DEF Refers
  <2>7. pv # NoPV /\ DOMAIN dpvt = DOMAIN database /\ NoPV \notin DOMAIN database
    BY PublishAssumption DEF IInv, Types
  <2>8. \A i \in DOMAIN records :
          /\ records[i].record_name # NoPV =>
               /\ records[i].record_name \in visited /\ records[i].record_name \in DOMAIN database
               /\ Refers(records[i].record_name, i)
          /\ \A q \in visited : Refers(q, i) => records[i].record_name # NoPV
    BY DEF IInv, BindOK, Types
  <2>9. ASSUME NEW i \in DOMAIN records, records'[i].record_name # NoPV
        PROVE  /\ records'[i].record_name \in visited'
               /\ Refers(records[i].record_name, i)'
    <3>1. CASE i = found
      <4>1. records'[i].record_name = pv /\ Handler(pv) = i
        BY <2>1, <2>3, <2>5, <3>1
      <4>2. Refers(pv, i)
        BY <4>1, Finds
      <4>3. Refers(pv, i)'
        BY <2>6, <4>2
      <4> QED
        BY <2>2, <4>1, <4>3 DEF Refers
    <3>2. CASE i # found
      <4>1. records'[i].record_name = records[i].record_name
        BY <2>3, <3>2
      <4>2. records[i].record_name \in visited /\ Refers(records[i].record_name, i)
        BY <2>8, <2>9, <4>1
      <4> QED
        BY <2>2, <2>3, <4>1, <4>2 DEF Refers
    <3> QED
      BY <3>1, <3>2
  <2>10. ASSUME NEW i \in DOMAIN records, NEW q \in visited', Refers(q, i)
         PROVE  records'[i].record_name # NoPV
    <3>1. CASE q = pv
      <4>1. Handler(pv) = i
        BY <2>10, <3>1, Finds
      <4> QED
        BY <2>1, <2>3, <2>5, <2>7, <4>1
    <3>2. CASE q # pv
      BY <2>2, <2>3, <2>7, <2>8, <2>10, <3>2
    <3> QED
      BY <3>1, <3>2
  <2>11. ASSUME NEW q \in DOMAIN database, dpvt'[q] # 0
         PROVE  /\ dpvt'[q] \in DOMAIN records /\ records'[dpvt'[q]].record_name = q
                /\ ~Refused(q, records[dpvt'[q]])
    <3>1. CASE dpvt'[q] = dpvt[q]
      <4>1. /\ dpvt[q] \in DOMAIN records /\ records[dpvt[q]].record_name = q
            /\ ~Refused(q, records[dpvt[q]])
        BY <2>11, <3>1 DEF IInv, BindOK
      <4>2. dpvt[q] # found
        BY <2>1, <2>5, <2>7, <4>1
      <4> QED
        BY <2>3, <3>1, <4>1, <4>2
    <3>2. CASE dpvt'[q] # dpvt[q]
      <4>1. q = pv /\ found \in DOMAIN records /\ dpvt'[q] = found /\ ~Refused(q, records[found])
        BY <2>4, <2>5, <2>7, <2>11, <3>2
      <4> QED
        BY <2>3, <4>1
    <3> QED
      BY <3>1, <3>2
  <2>13. ASSUME NEW i \in DOMAIN records, NEW q \in DOMAIN database,
                records'[i].record_name = q, ~Refused(q, records[i])
         PROVE  dpvt'[q] = i
    <3>1. CASE i = found
      <4>1. q = pv
        BY <2>3, <2>13, <3>1
      <4> QED
        BY <2>1, <2>5, <2>13, <3>1, <4>1
    <3>2. CASE i # found
      <4>1. records[i].record_name = q
        BY <2>3, <2>13, <3>2
      <4>2. dpvt[q] = i /\ q # pv
        BY <2>7, <2>8, <2>13, <4>1 DEF IInv, BindOK
      <4> QED
        BY <2>4, <2>7, <4>2
    <3> QED
      BY <3>1, <3>2
  <2>12. \A q \in visited' : q \in DOMAIN database
    BY <2>2 DEF IInv, Types
  <2> QED
    BY <2>0, <2>1, <2>2, <2>6, <2>9, <2>10, <2>11, <2>12, <2>13 DEF BindOK
<1> QED
  BY <1>1, <1>2, <1>3, Effects

\* What is found by name, and what is counted, is what iocInit() bound.
LEMMA UseStep == ASSUME IInv, [Next]_vars PROVE UseOK'
<1> USE DEF IInv, Types, UseOK, naming, store, ioc
<1>1. ASSUME NEW separator \in Separators, SetRecordNameSeparator(separator) PROVE UseOK'
  BY <1>1 DEF SetRecordNameSeparator, Die
<1>2. ASSUME NEW prefix \in NamePrefixes, PushRecordNamePrefix(prefix) PROVE UseOK'
  BY <1>2 DEF PushRecordNamePrefix, Die
<1>3. CASE PopRecordNamePrefix
  BY <1>3 DEF PopRecordNamePrefix, Die
<1>4. ASSUME NEW p \in Publications, PublishEpicsRecord(p) PROVE UseOK'
  BY <1>4 DEF PublishEpicsRecord, Die
<1>5. CASE IocInit
  BY <1>5 DEF IocInit
<1>6. ASSUME NEW pv \in DOMAIN database \ visited, InitRecord(pv) PROVE UseOK'
  <2>1. phase = "init" /\ phase' = "init" /\ UNCHANGED <<reached, reported>>
    BY <1>6 DEF InitRecord, Bind
  <2> QED
    BY <2>1
<1>7. CASE IocRuns
  BY <1>7 DEF IocRuns
<1>8. CASE CheckUnusedRecordBindings
  BY <1>8 DEF CheckUnusedRecordBindings
<1>9. ASSUME NEW request \in Requests, AccessByName(request) PROVE UseOK'
  <2> DEFINE key == Key(request.record_type, request.name)
  <2>1. CASE LookupSucceeds(request) /\ HasAddress(LookedUp(request), request)
    <3>1. /\ reached' = [request |-> request, pv |-> LookedUp(request).record_name]
          /\ UNCHANGED <<naming, store, ioc, phase, reported>> /\ phase = "run"
      BY <1>9, <2>1 DEF AccessByName
    <3>2. PICK i \in DOMAIN records : records[i].key = key /\ hash_table[key] = i
      BY <2>1 DEF LookupSucceeds, TableOK
    <3>3. LookedUp(request) = records[i]
      BY <3>2 DEF LookedUp
    <3>4. records[i].record_name # NoPV
      BY <2>1, <3>3 DEF HasAddress
    <3>5. Refers(records[i].record_name, i)
      BY <3>4 DEF BindOK
    <3>6. records[i].key = Key(records[i].record_type, published[i]) /\ published[i] \in Text
      BY DEF TableOK
    <3>7. request.name \in Text
      BY PublishAssumption
    <3>8. published[i] = request.name
      <4>1. Key(records[i].record_type, published[i]) = Key(request.record_type, request.name)
        BY <3>2, <3>6
      <4>2. published[i] \in Text
        BY <3>6
      <4> HIDE DEF IInv, Types, UseOK, key
      <4> QED
        BY <3>7, <4>1, <4>2, KeyTells
    <3>9. reached'.pv = records[i].record_name /\ reached'.request = request
      BY <3>1, <3>3
    <3>10. /\ database'[reached'.pv].record_type = TypeName(reached'.request.record_type)
           /\ database'[reached'.pv].address = reached'.request.name
           /\ \E j \in DOMAIN records' : records'[j].record_name = reached'.pv
      <4>1. records[i].record_type = request.record_type
        BY <2>1, <3>3 DEF HasAddress
      <4>2. UNCHANGED <<records, database>>
        BY <3>1
      <4> HIDE DEF IInv, Types, UseOK
      <4> QED
        BY <3>5, <3>8, <3>9, <4>1, <4>2 DEF Refers
    <3> QED
      BY <3>1, <3>10
  <2>2. CASE ~ (LookupSucceeds(request) /\ HasAddress(LookedUp(request), request))
    <3>1. Die /\ phase = "run"
      BY <1>9, <2>2 DEF AccessByName
    <3> QED
      BY <3>1 DEF Die
  <2> QED
    BY <2>1, <2>2
<1>10. CASE UNCHANGED vars
  BY <1>10 DEF vars
<1> QED
  BY <1>1, <1>2, <1>3, <1>4, <1>5, <1>6, <1>7, <1>8, <1>9, <1>10
     DEF Next

-------------------------------------------------------------------------------
(* The inductive invariant.                                                *)

\* It holds at the start,
LEMMA InitIInv == Init => IInv
<1> SUFFICES ASSUME Init PROVE IInv
  OBVIOUS
<1> USE DEF Init
<1>1. Types
  <2>1. ":" \in Chars
    BY PublishAssumption
  <2>2. <<":">> \in Text /\ <<>> \in Text
    BY <2>1 DEF Text
  <2> QED
    BY <2>2 DEF Types
<1>2. StackOK
  BY FlattenNone, PublishAssumption DEF StackOK
<1>3. TableOK /\ FitsOK /\ BindOK
  BY DEF TableOK, FitsOK, BindOK
<1>4. UseOK
  BY DEF UseOK
<1> QED
  BY <1>1, <1>2, <1>3, <1>4 DEF IInv

\* and every step keeps it.
LEMMA Inductive == IInv /\ [Next]_vars => IInv'
BY TypesStep, StackStep, TableStep, FitsStep, BindStep, UseStep DEF IInv

\* The two together.
LEMMA Invariant == Spec => []IInv
<1>1. IInv /\ [Next]_vars => IInv'
  BY Inductive
<1> QED
  BY <1>1, InitIInv, PTL DEF Spec

-------------------------------------------------------------------------------
(* What follows.                                                           *)

\* The prefix and its offsets stay within their arrays whatever is pushed and popped with
\* whatever separator, for any lengths of the arrays; what the hash table and DPVT lead to
\* is a published record, and a record is bound to a record of the EPICS database.
THEOREM PublishTypes == Spec => []TypeOK
<1>1. ASSUME IInv PROVE TypeOK
  <2> USE <1>1 DEF IInv
  <2>1. /\ name_prefix.length \in 0 .. PrefixLength - 1
        /\ Len(name_prefix.prefix) = name_prefix.length
        /\ Len(name_prefix.separator) < SeparatorLength
        /\ Len(name_prefix.offsets) <= PrefixCount
    BY PublishAssumption DEF Types, StackOK
  <2>2. name_prefix.offsets \in Seq(0 .. name_prefix.length)
    <3>1. /\ name_prefix.offsets \in Seq(Nat) /\ Len(name_prefix.offsets) = Len(pushed)
          /\ name_prefix.length \in Nat
      BY DEF Types, StackOK
    <3>2. ASSUME NEW k \in 1 .. Len(name_prefix.offsets)
          PROVE  name_prefix.offsets[k] \in 0 .. name_prefix.length
      <4>1. name_prefix.offsets[k] \in Nat /\ k \in 1 .. Len(pushed)
        BY <3>1
      <4>2. name_prefix.offsets[k] <= name_prefix.length
        BY <4>1 DEF StackOK
      <4> QED
        BY <3>1, <4>1, <4>2
    <3> QED
      BY <3>1, <3>2
  <2>3. \A i \in DOMAIN records :
          /\ records[i].record_type \in RecordTypes
          /\ records[i].record_name \in DOMAIN database \union {NoPV}
          /\ records[i].persist \in BOOLEAN /\ records[i].ioscanpvt \in BOOLEAN
    <3> SUFFICES ASSUME NEW i \in DOMAIN records
                 PROVE  /\ records[i].record_type \in RecordTypes
                        /\ records[i].record_name \in DOMAIN database \union {NoPV}
                        /\ records[i].persist \in BOOLEAN /\ records[i].ioscanpvt \in BOOLEAN
      OBVIOUS
    <3>1. records[i] \in RecordType(DOMAIN database)
      BY DEF Types
    <3> HIDE <1>1
    <3> HIDE DEF IInv
    <3> QED
      BY <3>1 DEF RecordType
  <2>4. \A key \in DOMAIN hash_table : hash_table[key] \in DOMAIN records
    BY DEF TableOK
  <2>5. dpvt \in [DOMAIN database -> 0 .. Len(records)]
    <3>1. dpvt \in [DOMAIN database -> Nat] /\ DOMAIN records = 1 .. Len(records)
          /\ Len(records) \in Nat
      BY DEF Types
    <3>2. ASSUME NEW q \in DOMAIN database PROVE dpvt[q] \in 0 .. Len(records)
      <4>1. dpvt[q] = 0 \/ dpvt[q] \in 1 .. Len(records)
        BY <3>1 DEF BindOK
      <4> QED
        BY <3>1, <4>1
    <3> QED
      BY <3>1, <3>2
  <2>6. /\ phase \in {"publish", "init", "run", "dead"} /\ visited \subseteq DOMAIN database
        /\ Len(records) = Len(published)
    BY DEF Types
  <2> QED
    BY <2>1, <2>2, <2>3, <2>4, <2>5, <2>6 DEF TypeOK
<1> QED
  BY <1>1, Invariant, PTL

\* Popping undoes pushing, after any sequence of the two and of changes of the separator,
\* and the key of a record is that of the name it was published with.
THEOREM PrefixOfStack == Spec => []PrefixIsStack
<1>1. IInv => PrefixIsStack
  BY DEF IInv, StackOK, TableOK, PrefixIsStack
<1> QED
  BY <1>1, Invariant, PTL

\* What is persistent of a record is as long in the table of persistence.c as in the
\* record, and no two records share a variable.
THEOREM PersistentHasRoom == Spec => []PersistentFits
<1>1. ASSUME IInv PROVE PersistentFits
  <2>1. \A i, j \in DOMAIN records : records[j].key = records[i].key => j = i
    BY <1>1 DEF IInv, TableOK
  <2> QED
    BY <1>1, <2>1 DEF IInv, FitsOK, PersistentFits
<1> QED
  BY <1>1, Invariant, PTL

\* An EPICS record that has claimed a published one is bound to it unless it is refused.
LEMMA ClaimedIsBound ==
  ASSUME IInv, NEW i \in DOMAIN records, records[i].record_name # NoPV,
         ~Refused(records[i].record_name, records[i])
  PROVE  Bound(i)
<1>1. records[i].record_name \in DOMAIN database
  BY DEF IInv, BindOK, Types
<1>2. dpvt[records[i].record_name] = i
  BY <1>1 DEF IInv, BindOK
<1> QED
  BY <1>1, <1>2 DEF Bound

\* After iocInit() the EPICS records that process do so with the published record of their
\* type and address, which they fit, and no two with the same; a published record to which
\* only EPICS records refer that fit is bound if there is one.  An access by name reaches
\* the bound one if there is one, and check_unused_record_bindings() counts those that are
\* not bound where no waveform is refused.
THEOREM BoundByTheirNames == Spec => []BoundByName
<1>1. ASSUME IInv PROVE BoundByName
  <2> SUFFICES ASSUME phase = "run"
               PROVE  BoundByName
    BY DEF BoundByName
  <2>1. visited = DOMAIN database /\ NoPV \notin DOMAIN database
    BY <1>1, PublishAssumption DEF IInv, UseOK, Types
  <2>2. \A i \in DOMAIN records :
          /\ i # 0
          /\ records[i].record_name # NoPV =>
               records[i].record_name \in DOMAIN database /\ Refers(records[i].record_name, i)
          /\ \A pv \in DOMAIN database : Refers(pv, i) => records[i].record_name # NoPV
    BY <1>1, <2>1 DEF IInv, BindOK, Types
  <2>3. \A pv \in DOMAIN database : dpvt[pv] # 0 =>
          /\ dpvt[pv] \in DOMAIN records /\ records[dpvt[pv]].record_name = pv
          /\ Refers(pv, dpvt[pv]) /\ ~Refused(pv, records[dpvt[pv]])
    BY <1>1, <2>1, <2>2 DEF IInv, BindOK
  <2>4. \A pv \in DOMAIN database : dpvt[pv] # 0 =>
          \A other \in DOMAIN database \ {pv} : dpvt[other] # dpvt[pv]
    BY <2>3
  <2>5. ASSUME NEW i \in DOMAIN records, \E pv \in DOMAIN database : Refers(pv, i),
               \A pv \in DOMAIN database : Refers(pv, i) => ~Refused(pv, records[i])
        PROVE  Bound(i)
    <3>1. records[i].record_name # NoPV /\ ~Refused(records[i].record_name, records[i])
      BY <2>2, <2>5
    <3> QED
      BY <1>1, <3>1, ClaimedIsBound
  <2>6. ASSUME reached.pv # NoPV
        PROVE  /\ database[reached.pv].record_type = TypeName(reached.request.record_type)
               /\ database[reached.pv].address = reached.request.name
               /\ \A i \in DOMAIN records :
                    Refers(reached.pv, i) /\ Bound(i) => dpvt[reached.pv] = i
    <3>1. PICK j \in DOMAIN records : records[j].record_name = reached.pv
      BY <1>1, <2>6 DEF IInv, UseOK
    <3>2. reached.pv \in DOMAIN database /\ Refers(reached.pv, j)
      BY <2>2, <2>6, <3>1
    <3>3. ASSUME NEW i \in DOMAIN records, Refers(reached.pv, i), Bound(i)
          PROVE  dpvt[reached.pv] = i
      <4>1. i = j
        BY <1>1, <3>2, <3>3, Finds
      <4>2. PICK pv \in DOMAIN database : dpvt[pv] = i
        BY <3>3 DEF Bound
      <4>3. records[i].record_name = pv
        BY <2>2, <2>3, <4>2
      <4> QED
        BY <3>1, <4>1, <4>2, <4>3
    <3> QED
      BY <1>1, <2>6, <3>3 DEF IInv, UseOK
  <2>7. ASSUME AllFit PROVE UnboundAreCounted
    <3>1. ASSUME NEW i \in DOMAIN records, records[i].record_name # NoPV PROVE Bound(i)
      <4>1. ~Refused(records[i].record_name, records[i])
        BY <2>2, <2>7, <3>1 DEF AllFit
      <4> QED
        BY <1>1, <3>1, <4>1, ClaimedIsBound
    <3>2. ASSUME NEW i \in DOMAIN records, Bound(i) PROVE records[i].record_name # NoPV
      BY <2>1, <2>2, <2>3, <3>2 DEF Bound
    <3>3. {i \in DOMAIN records : records[i].record_name = NoPV} =
          {i \in DOMAIN records : ~Bound(i)}
      BY <3>1, <3>2
    <3> QED
      BY <1>1, <3>3 DEF IInv, UseOK, UnboundAreCounted
  <2> QED
    BY <2>3, <2>4, <2>5, <2>6, <2>7 DEF BoundByName
<1> QED
  BY <1>1, Invariant, PTL
===============================================================================
