---------------------------- MODULE MCBatchWorkflow ----------------------------
EXTENDS BatchWorkflow, TLC

(* An empty batch, one that needs no worker, and one with two images to     *)
(* share and an invalid request between them.                              *)
BatchesForSafety == {<<>>, <<"bad">>, <<"good", "bad", "good">>}

(* A call against a shutdown, and the images of a call against each other.  *)
OneImage == {<<"good">>}
TwoImages == {<<"good", "good">>}

Symmetry == Permutations(Callers)
===============================================================================
