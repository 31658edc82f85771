----------------------------- MODULE JobLockTimely -----------------------------
(***************************************************************************)
(* The job lock when its holders are punctual: whatever happens, a holder  *)
(* gets a heartbeat through before its lease runs out.  This is the        *)
(* condition LEASE_MS and HEARTBEAT_MS were chosen for (lib/job-lock.js),  *)
(* stated over the lag of a host and the heartbeats it may lose.           *)
(***************************************************************************)
EXTENDS JobLock

ASSUME TimelyAssumption ==
  MaxLag + (MaxLost + 1) * (Heartbeat + MaxLag) < Lease

\* The ticks that may still pass before c's next successful heartbeat: the one
\* that is due, acted upon as late as possible, and every one that may be lost.
UntilRenewed(c) == due[c] + MaxLag + (MaxLost - missed[c]) * (Heartbeat + MaxLag)

\* Why mutual exclusion holds, and what its proof rests on: a caller between
\* its INSERT and the end of fn owns the row, and the row outlives the longest
\* time that caller can go without renewing it.
HoldersCovered ==
  \A c \in Caller :
    /\ pc[c] = "acquired" => owner = c /\ ttl >= Lease + due[c] /\ due[c] <= 0
    /\ pc[c] = "running"  => owner = c /\ ttl > UntilRenewed(c)

Exclusive == INSTANCE ExclusiveRun WITH runners <- {c \in Caller : Running(c)}

\* Seen through the callers that are inside fn, the lease is a mutual
\* exclusion lock: every step of the detailed lock is an Enter or a Leave of
\* the abstract one, or changes nothing it can see.
ImplementsExclusiveRun == Exclusive!Spec
=============================================================================
