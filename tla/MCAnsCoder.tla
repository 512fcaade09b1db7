----------------------------- MODULE MCAnsCoder -----------------------------
EXTENDS AnsCoder, TLC

(* A table of 64 slots.  Up to five symbols, with counts that differ enough *)
(* for a frequency to be raised to one; and eighteen that occur equally     *)
(* often, of which the greedy moves leave nothing for the omitted symbol.   *)
FewSymbols == [0..4 -> {0, 1, 20}]
EqualSymbols == {[s \in 0..17 |-> 2]}
SearchedHistograms == FewSymbols \cup EqualSymbols

(* round(log2(c) / LogTable * 2^16) for c = 1, 2, ...                       *)
Log2Of64 ==
  <<0, 10923, 17312, 21845, 25362, 28235, 30664, 32768, 34624, 36284,
    37786, 39157, 40419, 41586, 42674, 43691, 44646, 45547, 46399, 47207,
    47976, 48709, 49409, 50080, 50723, 51341, 51936, 52509, 53062, 53596,
    54113, 54613, 55098, 55569, 56025, 56469, 56901, 57321, 57731, 58130,
    58519, 58898, 59269, 59632, 59986, 60332, 60671, 61003, 61328, 61646,
    61958, 62264, 62564, 62859, 63148, 63432, 63711, 63985, 64254, 64519,
    64779, 65036, 65288, 65536>>

(* In the build the index lists follow the arrays of the populations: read  *)
(* as populations, one that is too large, and then zeros.                   *)
IndexLists ==
  [i \in 1..64 |-> [count |-> IF i = 1 THEN 128 ELSE 0, step |-> IF i = 1 THEN 4 ELSE 0,
                    delta |-> IF i = 1 THEN 3 ELSE 0]]

(* A few symbols carry one extra bit, the others none.                      *)
Widths == [s \in 0..17 |-> IF s \in 2..4 THEN 1 ELSE 0]
===============================================================================
