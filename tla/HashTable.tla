------------------------------ MODULE HashTable ------------------------------
(***************************************************************************)
(* The open addressing hash table of hashtable.c: the table of published   *)
(* records, the table of persistent variables.  Slots are empty, deleted   *)
(* (a tombstone) or hold a key; the probe sequence is the one of lookup(). *)
(* Hash values have a width of their own, and two of them mark slots.      *)
(***************************************************************************)
EXTENDS Naturals, FiniteSetsExt

CONSTANTS
  Keys, Values,
  NoKey, NoValue,   \* NULL
  RawHash,          \* key_ops->hash, a function from keys to hash values
  HashMax,          \* Greatest hash value
  Sizes,            \* Bound: arguments of hash_table_resize()
  MaxPerturb,       \* Bound: shifts after which no bit of a hash is left
  TableSizes        \* Bound: sizes of the table, powers of two

INITIAL_SIZE == 8
EMPTY_HASH   == 0
DELETED_HASH == HashMax

\* What shifts leave of the greatest hash value.
Shifted[i \in 0 .. MaxPerturb] == IF i = 0 THEN HashMax ELSE Shifted[i - 1] \div 32

\* The sizes are the initial one doubled again and again, and one is great enough.
ASSUME HashTableAssumption ==
  /\ HashMax \in Nat /\ HashMax > 2
  /\ RawHash \in [Keys -> 0 .. HashMax]
  /\ MaxPerturb \in Nat /\ Shifted[MaxPerturb] = 0
  /\ NoKey \notin Keys /\ NoValue \notin Values
  /\ IsFiniteSet(Keys) /\ Sizes \subseteq Nat
  /\ TableSizes \subseteq Nat \ {0} /\ INITIAL_SIZE \in TableSizes
  /\ \A size \in TableSizes \ {INITIAL_SIZE} : \E half \in TableSizes : size = 2 * half
  /\ \A n \in Sizes \union {2 * Cardinality(Keys)} : \E size \in TableSizes : size >= n

VARIABLES
  table,      \* The slots
  entries,    \* Slots that are not empty
  deleted,    \* Slots that are tombstones
  ret,        \* What the last call returned
  ix,         \* Index of a hash_table_walk() in progress
  visited,    \* Keys it has returned
  missing     \* Keys it has still to return

tableVars == <<table, entries, deleted>>
walkVars  == <<ix, visited, missing>>
vars      == <<tableVars, ret, walkVars>>

Size       == Cardinality(DOMAIN table)
EmptySlot  == [hash |-> EMPTY_HASH, key |-> NoKey, value |-> NoValue]
Tombstone  == [hash |-> DELETED_HASH, key |-> NoKey, value |-> NoValue]
EmptyTable(size) == [i \in 0 .. size - 1 |-> EmptySlot]

compute_hash(k) ==
  IF RawHash[k] \in {EMPTY_HASH, DELETED_HASH} THEN HashMax - 1 ELSE RawHash[k]

empty_entry(entry) == entry.hash \in {EMPTY_HASH, DELETED_HASH}

-------------------------------------------------------------------------------
(* Lookup.                                                                 *)

\* The slots that lookup() probes, one after the other, in a table of this size: when
\* perturb is used up, at MaxPerturb steps or before, the rest is a cycle through all slots.
ProbePath(hash, size) ==
  LET step[i \in 0 .. MaxPerturb + size] ==
        IF i = 0
          THEN [slot |-> hash % size, perturb |-> hash]
          ELSE LET last    == step[i - 1]
                   perturb == last.perturb \div 32
               IN  [slot |-> (1 + 5 * last.slot + perturb) % size, perturb |-> perturb]
  IN  [i \in 0 .. MaxPerturb + size |-> step[i].slot]

Probes == [k \in Keys |-> [size \in TableSizes |-> ProbePath(compute_hash(k), size)]]

Match(t, slot, k) == t[slot].hash = compute_hash(k) /\ t[slot].key = k

\* lookup() ends at a match or an empty slot.
Ends(t, slot, k) == Match(t, slot, k) \/ t[slot].hash = EMPTY_HASH

\* Seeded fault: a tombstone on the way is returned although the key is further on.
lookupEager(t, size, k) ==
  LET probe == Probes[k][size]
      walk[i \in DOMAIN probe] ==
        IF Ends(t, probe[i], k) \/ i + 1 \notin DOMAIN probe THEN i ELSE walk[i + 1]
      end   == walk[0]
      tombs == {i \in 0 .. end : t[probe[i]].hash = DELETED_HASH}
  IN  IF tombs = {} THEN probe[end] ELSE probe[Min(tombs)]

\* The slot that lookup() returns: that of the key, or the first tombstone on the
\* way to the empty slot, or the empty slot.
lookup(t, size, k) ==
  LET probe == Probes[k][size]
      walk[i \in DOMAIN probe] ==
        IF Ends(t, probe[i], k) \/ i + 1 \notin DOMAIN probe THEN i ELSE walk[i + 1]
      end   == walk[0]
      tombs == {i \in 0 .. end : t[probe[i]].hash = DELETED_HASH}
  IN  IF Match(t, probe[end], k) \/ tombs = {} THEN probe[end] ELSE probe[Min(tombs)]

Found(k) == LET s == lookup(table, Size, k) IN Match(table, s, k)
Slot(k)  == lookup(table, Size, k)

-------------------------------------------------------------------------------
(* Resize.                                                                 *)

\* The least power of two with room for min_size and for twice the live entries.
NewSize(live, min_size) == Min({n \in TableSizes : n >= min_size /\ n >= 2 * live})

\* The entries of t are looked up in the new table one slot after the other.
Rehashed(t, size, new) ==
  LET copy[i \in 0 .. size] ==
        IF i = 0 THEN EmptyTable(new)
        ELSE IF empty_entry(t[i - 1]) THEN copy[i - 1]
        ELSE [copy[i - 1] EXCEPT ![lookup(copy[i - 1], new, t[i - 1].key)] = t[i - 1]]
  IN  copy[size]

-------------------------------------------------------------------------------
Init ==
  /\ table = EmptyTable(INITIAL_SIZE)
  /\ entries = 0
  /\ deleted = 0
  /\ ret = NoValue
  /\ ix = 0
  /\ visited = {}
  /\ missing = {}

Live == {k \in Keys : \E i \in DOMAIN table : ~empty_entry(table[i]) /\ table[i].key = k}

\* Seeded fault: only live entries count as a full table.
InsertFills(k, v) ==
  LET slot == Slot(k)
      old  == table[slot]
      put  == [table EXCEPT ![slot] = [hash |-> compute_hash(k), key |-> k, value |-> v]]
      ents == IF old.hash = EMPTY_HASH THEN entries + 1 ELSE entries
      dels == IF old.hash = DELETED_HASH THEN deleted - 1 ELSE deleted
  IN  /\ IF 3 * (ents - dels) >= 2 * (Size - 1)
           THEN /\ table' = Rehashed(put, Size, NewSize(ents - dels, 0))
                /\ entries' = ents - dels
                /\ deleted' = 0
           ELSE table' = put /\ entries' = ents /\ deleted' = dels
      /\ ret' = old.value
      /\ ix' = 0 /\ visited' = {} /\ missing' = {}

\* hash_table_insert.  The table is resized when it is more than 2/3 full, also if
\* the key was there already.  A walk in progress is given up.
Insert(k, v) ==
  LET slot == Slot(k)
      old  == table[slot]
      put  == [table EXCEPT ![slot] = [hash |-> compute_hash(k), key |-> k, value |-> v]]
      ents == IF old.hash = EMPTY_HASH THEN entries + 1 ELSE entries
      dels == IF old.hash = DELETED_HASH THEN deleted - 1 ELSE deleted
  IN  /\ IF 3 * ents >= 2 * (Size - 1)
           THEN /\ table' = Rehashed(put, Size, NewSize(ents - dels, 0))
                /\ entries' = ents - dels
                /\ deleted' = 0
           ELSE table' = put /\ entries' = ents /\ deleted' = dels
      /\ ret' = old.value
      /\ ix' = 0 /\ visited' = {} /\ missing' = {}

\* Seeded fault: the slot is made empty, which cuts the chains through it.
DeleteEmpties(k) ==
  LET slot == Slot(k)
  IN  /\ ret' = table[slot].value
      /\ IF Found(k)
           THEN table' = [table EXCEPT ![slot] = EmptySlot] /\ deleted' = deleted + 1
           ELSE UNCHANGED <<table, deleted>>
      /\ missing' = missing \ {k}
      /\ UNCHANGED <<entries, ix, visited>>

\* Seeded fault: the key of the entry, released, is left in the tombstone.
DeleteKeepsKey(k) ==
  LET slot == Slot(k)
  IN  /\ ret' = table[slot].value
      /\ IF Found(k)
           THEN table' = [table EXCEPT ![slot] = [Tombstone EXCEPT !.key = k]] /\ deleted' = deleted + 1
           ELSE UNCHANGED <<table, deleted>>
      /\ missing' = missing \ {k}
      /\ UNCHANGED <<entries, ix, visited>>

\* hash_table_delete.  A walk goes on; it need not return the key any more.
Delete(k) ==
  LET slot == Slot(k)
  IN  /\ ret' = table[slot].value
      /\ IF Found(k)
           THEN table' = [table EXCEPT ![slot] = Tombstone] /\ deleted' = deleted + 1
           ELSE UNCHANGED <<table, deleted>>
      /\ missing' = missing \ {k}
      /\ UNCHANGED <<entries, ix, visited>>

\* hash_table_lookup.
Lookup(k) ==
  /\ ret' = table[Slot(k)].value
  /\ UNCHANGED <<tableVars, walkVars>>

\* hash_table_resize.
Resize(min_size) ==
  /\ table' = Rehashed(table, Size, NewSize(entries - deleted, min_size))
  /\ entries' = entries - deleted
  /\ deleted' = 0
  /\ ix' = 0 /\ visited' = {} /\ missing' = {}
  /\ UNCHANGED ret

\* hash_table_walk: the next slot in use from ix on.  The first call has ix = 0.
Todo == IF ix = 0 THEN Live ELSE missing

\* Seeded fault: the index is advanced twice.
WalkSkips ==
  \E i \in DOMAIN table :
    /\ i >= ix /\ ~empty_entry(table[i])
    /\ \A j \in ix .. i - 1 : empty_entry(table[j])
    /\ ix' = i + 2
    /\ visited' = visited \union {table[i].key}
    /\ missing' = Todo \ {table[i].key}
    /\ UNCHANGED <<tableVars, ret>>

Walk ==
  \E i \in DOMAIN table :
    /\ i >= ix /\ ~empty_entry(table[i])
    /\ \A j \in ix .. i - 1 : empty_entry(table[j])
    /\ ix' = i + 1
    /\ visited' = visited \union {table[i].key}
    /\ missing' = Todo \ {table[i].key}
    /\ UNCHANGED <<tableVars, ret>>

\* It finds no slot in use and returns false.
WalkEnd ==
  /\ \A i \in DOMAIN table : i >= ix => empty_entry(table[i])
  /\ ix' = 0 /\ visited' = {} /\ missing' = {}
  /\ UNCHANGED <<tableVars, ret>>

Next ==
  \/ \E k \in Keys, v \in Values : Insert(k, v)
  \/ \E k \in Keys : Delete(k) \/ Lookup(k)
  \/ \E n \in Sizes : Resize(n)
  \/ Walk \/ WalkEnd

Spec == Init /\ [][Next]_vars

-------------------------------------------------------------------------------
(* Properties.                                                             *)

\* The slots hold what a slot may hold: a key that is not NULL has a hash value that is
\* not reserved, and the counts that decide on a resize are those of the slots (the
\* assertions of hash_table_validate()), whatever has been inserted and deleted.
TypeOK ==
  /\ DOMAIN table = 0 .. Size - 1
  /\ \A i \in DOMAIN table :
       \/ table[i] \in {EmptySlot, Tombstone}
       \/ table[i] \in [hash : 1 .. HashMax - 1, key : Keys, value : Values]
  /\ entries = Cardinality({i \in DOMAIN table : table[i].hash # EMPTY_HASH})
  /\ deleted = Cardinality({i \in DOMAIN table : table[i].hash = DELETED_HASH})
  /\ ret \in Values \union {NoValue}
  /\ ix \in 0 .. Size /\ visited \subseteq Keys /\ missing \subseteq Keys

\* The probes of every key, in the table or not, come to an end, whatever tombstones
\* and collisions there are.
LookupEnds ==
  \A k \in Keys : \E i \in DOMAIN Probes[k][Size] : Ends(table, Probes[k][Size][i], k)

\* The slot of each key is the one that lookup() finds: no key is cut off by a resize
\* or by the reuse of a tombstone, and no key is there twice.
EachFound ==
  \A i \in DOMAIN table : ~empty_entry(table[i]) => Slot(table[i].key) = i

\* A walk returns no key twice, and misses none that is there from its start to its
\* end, also when keys are deleted meanwhile ("it probably is safe to delete entries
\* during a walk").
WalkVisitsOnce ==
  [][/\ Walk => visited' # visited
     /\ WalkEnd => Todo = {}]_vars

\* The table, as hash_table_lookup() shows it, is a dictionary for all of the calls
\* together, across resizes and whatever tombstones the calls before have left.
Dictionary == INSTANCE Dict WITH dict <- [k \in Keys |-> table[Slot(k)].value]
ImplementsDict == Dictionary!DictSpec
===============================================================================
