---------------------------- MODULE MCParallelWork ----------------------------
(* ParallelWork for TLC: an image with the whole domain and a narrow one. *)
EXTENDS ParallelWork

CONSTANTS i1, i2
MCJobLimit == [i \in Image |-> IF i = i1 THEN Limit ELSE 2]
===============================================================================
