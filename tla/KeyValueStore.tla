---------------------------- MODULE KeyValueStore ----------------------------
(***************************************************************************)
(* What a user of the storage relies on: every key has at most one current *)
(* value; create needs the key to have none, delete needs it to have one,  *)
(* update needs nothing, and a call on one key leaves the others alone.    *)
(* The reply tells which of them happened.                                 *)
(***************************************************************************)
CONSTANTS Keys, Values, NoValue

VARIABLES current, reply

vars == <<current, reply>>

Init == /\ current = [k \in Keys |-> NoValue]
        /\ reply = <<"none", <<>>, NoValue>>

Create(k, v) ==
    \/ /\ current[k] = NoValue
       /\ current' = [current EXCEPT ![k] = v]
       /\ reply' = <<"create", k, v>>
    \/ /\ current[k] # NoValue
       /\ reply' = <<"exists", k, NoValue>>
       /\ UNCHANGED current

Update(k, v) ==
    /\ current' = [current EXCEPT ![k] = v]
    /\ reply' = <<"update", k, v>>

Delete(k) ==
    \/ /\ current[k] # NoValue
       /\ current' = [current EXCEPT ![k] = NoValue]
       /\ reply' = <<"delete", k, NoValue>>
    \/ /\ current[k] = NoValue
       /\ reply' = <<"missing", k, NoValue>>
       /\ UNCHANGED current

Next == \E k \in Keys : Delete(k) \/ \E v \in Values : Create(k, v) \/ Update(k, v)

Spec == Init /\ [][Next]_vars
==============================================================================
