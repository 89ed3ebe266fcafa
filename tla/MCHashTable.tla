----------------------------- MODULE MCHashTable -----------------------------
(* The instance of HashTable for TLC: five keys, two of them with the hash    *)
(* values reserved for slots, whose probes in the initial table meet and      *)
(* could fill it with tombstones.                                             *)
EXTENDS HashTable, TLC

MCHashMax == 1023
MCHash == "a" :> 0 @@ "b" :> 1023 @@ "c" :> 991 @@ "d" :> 970 @@ "e" :> 667
MCKeys == DOMAIN MCHash
===============================================================================
