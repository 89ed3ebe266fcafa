--------------------------------- MODULE Dict ---------------------------------
(***************************************************************************)
(* What hashtable.h promises: a dictionary.  Insertion and deletion return *)
(* the value that was there before, NoValue standing for NULL.             *)
(***************************************************************************)
CONSTANTS Keys, Values, NoValue

VARIABLES dict,     \* The value of each key, NoValue if it is not there
          ret       \* What the last call returned

dictVars == <<dict, ret>>

DictInit ==
  /\ dict = [k \in Keys |-> NoValue]
  /\ ret = NoValue

DictInsert(k, v) ==
  /\ ret' = dict[k]
  /\ dict' = [dict EXCEPT ![k] = v]

DictDelete(k) ==
  /\ ret' = dict[k]
  /\ dict' = [dict EXCEPT ![k] = NoValue]

DictLookup(k) ==
  /\ ret' = dict[k]
  /\ UNCHANGED dict

DictNext == \E k \in Keys : DictLookup(k) \/ DictDelete(k) \/ \E v \in Values : DictInsert(k, v)

DictSpec == DictInit /\ [][DictNext]_dictVars
===============================================================================
