------------------------------ MODULE CacheMap ------------------------------
(***************************************************************************)
(* What a DiskCache object promises its clients, without the RAM copies,   *)
(* the writer thread, the file or the encryption: a map from keys to       *)
(* values.  Looking a key up never changes the map, so there is no action  *)
(* for it: contents[k] is the result get(k) has in the state.              *)
(***************************************************************************)
CONSTANTS
    Keys,
    Values,
    Missing,    \* get() raises KeyError
    IOError,    \* get() raises OSError
    MayLose     \* TRUE when the file system may refuse a write

VARIABLE contents

TypeOK == contents \in [Keys -> Values \cup {Missing, IOError}]

Init == contents = [k \in Keys |-> Missing]

Put(k, v) == contents' = [contents EXCEPT ![k] = v]

Delete(k) == contents' = [contents EXCEPT ![k] = Missing]

Clear == contents' = [k \in Keys |-> Missing]

(* A failed write is reported on stderr only: the value is gone and the    *)
(* next get() raises.  It must never turn into another value.              *)
Lose(k) ==
    /\ MayLose
    /\ contents[k] # Missing
    /\ contents' = [contents EXCEPT ![k] = IOError]

Next ==
    \/ \E k \in Keys, v \in Values : Put(k, v)
    \/ \E k \in Keys : Delete(k) \/ Lose(k)
    \/ Clear

Spec == Init /\ [][Next]_contents
=============================================================================
