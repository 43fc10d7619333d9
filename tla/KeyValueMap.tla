----------------------------- MODULE KeyValueMap ----------------------------
(***************************************************************************)
(* What vhash_table.h promises: a map from keys to values.  An insertion    *)
(* changes one key, a removal takes one key away and returns its value, a   *)
(* lookup returns the value or nothing.                                     *)
(***************************************************************************)
CONSTANTS Keys, Values, NoValue

VARIABLES map,   \* the value of every key, NoValue for a key that is absent
          ret    \* what the last lookup or removal returned

vars == <<map, ret>>

Init == /\ map = [k \in Keys |-> NoValue]
        /\ ret = NoValue

Put(k, v) == /\ UNCHANGED ret
             /\ map' = [map EXCEPT ![k] = v]

Lookup(k) == /\ ret' = map[k]
             /\ UNCHANGED map

Delete(k) == /\ ret' = map[k]
             /\ map' = [map EXCEPT ![k] = NoValue]

Next == \E k \in Keys : \/ \E v \in Values : Put(k, v)
                        \/ Lookup(k)
                        \/ Delete(k)

Spec == Init /\ [][Next]_vars
=============================================================================
