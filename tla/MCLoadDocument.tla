--------------------------- MODULE MCLoadDocument ---------------------------
(* Two timer threads, an empty image and a real one; "more than 100 ms" is *)
(* one tick, 300 ms are one tick and 9 s are two.                          *)
EXTENDS LoadDocument
CONSTANTS t1, t2
MCTimers == {t1, t2}
MCSizes == {0, 1}
=============================================================================
