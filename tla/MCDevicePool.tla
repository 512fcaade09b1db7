---------------------------- MODULE MCDevicePool ----------------------------
(* DevicePool for TLC: callers, domains and pointers are interchangeable.  *)
EXTENDS DevicePool, TLC

Symmetry == Permutations(Caller) \cup Permutations(Domain) \cup Permutations(Pointer)
==============================================================================
