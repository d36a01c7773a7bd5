--------------------------------- MODULE MCLsm ---------------------------------
(* Lsm for TLC: two keys when keys are unique, two values of one key when not.   *)
EXTENDS Lsm

PairsDef == [m \in BOOLEAN |-> IF m THEN {<<1, 1>>, <<1, 2>>} ELSE {<<1, 1>>, <<1, 2>>, <<2, 1>>}]
================================================================================
