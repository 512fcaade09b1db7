----------------------------- MODULE FifoAdmission -----------------------------
(***************************************************************************)
(* What an admission controller of the encoder promises, whatever it       *)
(* admits: the capacity it has given out never exceeds a fixed limit, it   *)
(* grows only by admitting a request, requests that have to wait are       *)
(* admitted in the order in which they arrived, and no newcomer is         *)
(* admitted while someone waits.  Capacity may come back at any time.      *)
(*                                                                         *)
(* ResourceBudget (bytes) and CpuBudget (participants) both implement it.  *)
(***************************************************************************)
EXTENDS Queues

CONSTANTS Requesters,  \* threads that may wait for admission
          Capacity,    \* the fixed allowance
          Amounts      \* the amounts that may be asked for

VARIABLES granted,     \* capacity given out and not yet returned
          waiting      \* the queue of waiting requests, oldest first

vars == <<granted, waiting>>

Request == [who : Requesters, amount : Amounts]

TypeOK == /\ granted \in Nat
          /\ waiting \in Seq(Request)

Init == granted = 0 /\ waiting = <<>>

(* A newcomer is admitted only past an empty queue. *)
AdmitAtOnce(n) == /\ waiting = <<>>
                  /\ granted + n <= Capacity
                  /\ granted' = granted + n
                  /\ UNCHANGED waiting

Arrive(c, n) == /\ \A i \in 1 .. Len(waiting) : waiting[i].who # c
                /\ waiting' = Append(waiting, [who |-> c, amount |-> n])
                /\ UNCHANGED granted

AdmitFirst == /\ waiting # <<>>
              /\ granted + Head(waiting).amount <= Capacity
              /\ granted' = granted + Head(waiting).amount
              /\ waiting' = Tail(waiting)

(* A waiting request is withdrawn; the others keep their order. *)
Withdraw(p) == /\ waiting' = Without(waiting, p)
               /\ UNCHANGED granted

Return == /\ granted' \in 0 .. granted
          /\ UNCHANGED waiting

Next == \/ \E n \in Amounts : AdmitAtOnce(n)
        \/ \E c \in Requesters, n \in Amounts : Arrive(c, n)
        \/ AdmitFirst
        \/ \E p \in 1 .. Len(waiting) : Withdraw(p)
        \/ Return

Spec == Init /\ [][Next]_vars
===============================================================================
