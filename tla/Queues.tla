-------------------------------- MODULE Queues --------------------------------
(***************************************************************************)
(* The waiter lists of the admission controllers: a newcomer is appended,  *)
(* and any element may unlink itself, the others keeping their order.      *)
(***************************************************************************)
EXTENDS Integers, Sequences

(* q with its p-th element unlinked *)
Without(q, p) == [i \in 1 .. Len(q) - 1 |-> IF i < p THEN q[i] ELSE q[i + 1]]

(* No element occurs twice. *)
Distinct(q) == \A i, j \in 1 .. Len(q) : q[i] = q[j] => i = j

Members(q) == {q[i] : i \in 1 .. Len(q)}
===============================================================================
