------------------------------ MODULE BatchDriver ------------------------------
(***************************************************************************)
(* What VarDctBatchEncoder promises its callers                            *)
(* (src/src/codestream/batch_workflow.h): calls are carried out one at a   *)
(* time; a call that is carried out either publishes a complete result     *)
(* array in one step or leaves the caller's array alone; once the driver   *)
(* is closed no call starts, and Shutdown returns only when none is left.  *)
(***************************************************************************)
EXTENDS Integers, Sequences

CONSTANTS Callers,   \* threads that use the driver
          Batches,   \* the request arrays in use, as sequences of kinds
          None       \* no caller

VARIABLES open,      \* calls may still start
          active,    \* the caller whose batch is being carried out
          asked,     \* each caller's batch
          outcome    \* what each caller has got from its call so far

vars == <<open, active, asked, outcome>>

(* A result for every request: an error where the request was invalid, and  *)
(* the image or its own error where it was good.                           *)
Complete(batch, results) ==
  /\ Len(results) = Len(batch)
  /\ \A i \in 1 .. Len(batch) :
       results[i] \in IF batch[i] = "good" THEN {"ok", "failed"} ELSE {"invalid"}

Init == /\ open = TRUE /\ active = None
        /\ asked = [c \in Callers |-> <<>>]
        /\ outcome = [c \in Callers |-> [is |-> "none", results |-> <<>>]]

Ends(c, answer, results) ==
  outcome' = [outcome EXCEPT ![c] = [is |-> answer, results |-> results]]

Submit(c, batch) == /\ outcome[c].is = "none"
                    /\ asked' = [asked EXCEPT ![c] = batch]
                    /\ Ends(c, "pending", <<>>)
                    /\ UNCHANGED <<open, active>>

Activate(c) == /\ open /\ active = None /\ outcome[c].is = "pending"
               /\ active' = c
               /\ UNCHANGED <<open, asked, outcome>>

Publish(c) == /\ active = c
              /\ \E r \in [1 .. Len(asked[c]) -> {"ok", "failed", "invalid"}] :
                   Complete(asked[c], r) /\ Ends(c, "published", r)
              /\ active' = None
              /\ UNCHANGED <<open, asked>>

Fail(c) == /\ active = c
           /\ Ends(c, "error", <<>>)
           /\ active' = None
           /\ UNCHANGED <<open, asked>>

Reject(c) == /\ ~open /\ active # c /\ outcome[c].is = "pending"
             /\ Ends(c, "unavailable", <<>>)
             /\ UNCHANGED <<open, active, asked>>

Close(c) == /\ outcome[c].is = "none"
            /\ open' = FALSE
            /\ Ends(c, "closing", <<>>)
            /\ UNCHANGED <<active, asked>>

Closed(c) == /\ active = None /\ outcome[c].is = "closing"
             /\ Ends(c, "closed", <<>>)
             /\ UNCHANGED <<open, active, asked>>

(* The caller has taken note of the answer. *)
Return(c) == /\ outcome[c].is \in {"published", "error", "unavailable", "closed"}
             /\ asked' = [asked EXCEPT ![c] = <<>>]
             /\ Ends(c, "none", <<>>)
             /\ UNCHANGED <<open, active>>

Next == \E c \in Callers : \/ \E b \in Batches : Submit(c, b)
                           \/ Activate(c) \/ Publish(c) \/ Fail(c) \/ Reject(c)
                           \/ Close(c) \/ Closed(c) \/ Return(c)

Spec == Init /\ [][Next]_vars
===============================================================================
