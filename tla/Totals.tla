-------------------------------- MODULE Totals --------------------------------
(***************************************************************************)
(* Totals of what a finite set of owners holds: bytes, participant slots,   *)
(* elements of a queue.                                                    *)
(***************************************************************************)
EXTENDS Integers, FiniteSets, Functions

(* SUM f[x] for x \in S *)
SumOver(f, S) == SumFunctionOnSet(f, S)
===============================================================================
