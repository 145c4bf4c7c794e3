---------------------------- MODULE MCSharedData ----------------------------
(* Type 0 is ranged and checked by main in every tick (the brightness),    *)
(* type 1 has no range and is checked by js in every second tick, a period *)
(* that does not divide the tick counter's modulus.                        *)
EXTENDS SharedData, TLC
CONSTANTS main, js
MCThreads == {main, js}
MCTypes == 0..1
MCValues == 0..2
MCDefault == (0 :> [value |-> 2, min |-> 1, max |-> 2])
             @@ (1 :> [value |-> 0, min |-> 0, max |-> 0])
MCPeriod == (0 :> (main :> 1)) @@ (1 :> (js :> 2))
=============================================================================
