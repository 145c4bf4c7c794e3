--------------------------- MODULE MCEventRunner ---------------------------
(* Two posting threads and the main thread, three tasks, delays 0 and 1.   *)
EXTENDS EventRunner
CONSTANTS p1, p2, k1, k2, k3
MCPosters == {p1, p2}
MCTasks == {k1, k2, k3}
MCDelays == {0, 1}
=============================================================================
