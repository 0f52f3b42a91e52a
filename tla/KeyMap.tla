------------------------------- MODULE KeyMap -------------------------------
(***************************************************************************)
(* What a hash table promises its owner: a finite map from keys to values  *)
(* with Insert (refused for a key already present), Remove, Exists and Get *)
(* (only of a present key).  HashTable implements this specification       *)
(* (HashTable!ImplementsKeyMap).                                           *)
(***************************************************************************)
CONSTANTS
    Keys,
    Values,
    Absent   \* the map's value for a key it does not hold

ASSUME Absent \notin Values

VARIABLES
    map,     \* the value held for each key, or Absent
    call,    \* the last call made: operation, key and value
    ret      \* what it returned, Absent before the first call

vars == <<map, call, ret>>

Init ==
    /\ map = [k \in Keys |-> Absent]
    /\ call = <<>>
    /\ ret = Absent

Holds(k) == map[k] # Absent

Insert(k, v) ==
    /\ call' = <<"Insert", k, v>>
    /\ ret' = ~Holds(k)
    /\ map' = IF Holds(k) THEN map ELSE [map EXCEPT ![k] = v]

Remove(k) ==
    /\ call' = <<"Remove", k>>
    /\ ret' = Holds(k)
    /\ map' = [map EXCEPT ![k] = Absent]

Exists(k) ==
    /\ call' = <<"Exists", k>>
    /\ ret' = Holds(k)
    /\ UNCHANGED map

Get(k) ==
    /\ Holds(k)
    /\ call' = <<"Get", k>>
    /\ ret' = map[k]
    /\ UNCHANGED map

Next ==
    \E k \in Keys :
        \/ \E v \in Values : Insert(k, v)
        \/ Remove(k)
        \/ Exists(k)
        \/ Get(k)

Spec == Init /\ [][Next]_vars

=============================================================================
