------------------------------ MODULE ExclusiveRun ------------------------------
(***************************************************************************)
(* What a job lock promises its callers: at most one of them is inside the *)
(* guarded function at any moment.  This is the abstract specification     *)
(* that lib/job-lock.js's lease implements as long as its holders are      *)
(* punctual (JobLockTimely); it says nothing of rows, leases or timers.    *)
(***************************************************************************)
CONSTANT Caller

VARIABLE runners        \* the callers now inside the guarded function

Init == runners = {}

\* A caller starts the guarded function, alone.
Enter(c) ==
  /\ runners = {}
  /\ runners' = {c}

\* The caller inside leaves: the function settled, or its process died.
Leave(c) ==
  /\ runners = {c}
  /\ runners' = {}

Next == \E c \in Caller : Enter(c) \/ Leave(c)

Spec == Init /\ [][Next]_runners
=============================================================================
