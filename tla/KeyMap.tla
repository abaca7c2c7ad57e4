------------------------------- MODULE KeyMap -------------------------------
(***************************************************************************)
(* What hsearch.h promises: a map from keys to values in which a key is    *)
(* bound once and stays as it is until it is deleted.                      *)
(***************************************************************************)
CONSTANTS Keys, Values, NoData

VARIABLE map

Init == map = [k \in Keys |-> NoData]

Insert(k, v) == map[k] = NoData /\ map' = [map EXCEPT ![k] = v]
Delete(k) == map[k] # NoData /\ map' = [map EXCEPT ![k] = NoData]

Next == \E k \in Keys : Delete(k) \/ \E v \in Values : Insert(k, v)

Spec == Init /\ [][Next]_map
=============================================================================
