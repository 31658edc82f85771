-------------------------------- MODULE JobLock --------------------------------
(***************************************************************************)
(* The lease lock of lib/job-lock.js: one row of job_locks (migration 147) *)
(* contended for by the callers of withJobLock, in several processes on    *)
(* several hosts.                                                          *)
(*                                                                         *)
(* Time is relative: ttl is expires_at - now() and every caller's timer is *)
(* a countdown, so no clock value has to be bounded.  ttl stops at -1: how *)
(* long ago a lease expired makes no difference to any statement.          *)
(*                                                                         *)
(* What the processes and the database may do to the code is explicit:     *)
(*   MaxLag   how late a timer callback or a reply may be acted upon (a    *)
(*            busy event loop, a slow query, a host that sleeps);          *)
(*   MaxLost  how many heartbeats in a row may fail.                       *)
(***************************************************************************)
EXTENDS Integers

CONSTANTS
  Caller,       \* calls of withJobLock for one job_key, at most one per slot at a time
  NoOwner,      \* there is no row for this job_key
  Lease,        \* LEASE_MS, in ticks
  Heartbeat,    \* HEARTBEAT_MS, in ticks
  MaxLag,
  MaxLost

ASSUME LeaseAssumption ==
  /\ NoOwner \notin Caller
  /\ Lease \in Nat \ {0}
  /\ Heartbeat \in Nat \ {0}
  /\ MaxLag \in Nat
  /\ MaxLost \in Nat

VARIABLES
  owner,        \* job_locks.owner_id, or NoOwner
  ttl,          \* expires_at - now(), at least -1
  pc,           \* where each call stands
  due,          \* ticks until the call's next obligation (reply, heartbeat)
  missed        \* heartbeats of the call that failed in a row

vars == <<owner, ttl, pc, due, missed>>

\* "acquired": the INSERT committed, its reply is still on the way.
\* "running":  fn() is executing and the interval timer is set.
\* "settled":  fn() returned or threw, the row is still to be deleted.
CallState == {"idle", "acquired", "running", "settled"}

TypeOK ==
  /\ owner \in Caller \cup {NoOwner}
  /\ ttl \in -1 .. Lease
  /\ pc \in [Caller -> CallState]
  /\ due \in [Caller -> -MaxLag .. Heartbeat]
  /\ missed \in [Caller -> 0 .. MaxLost]

Init ==
  /\ owner = NoOwner
  /\ ttl = -1
  /\ pc = [c \in Caller |-> "idle"]
  /\ due = [c \in Caller |-> 0]
  /\ missed = [c \in Caller |-> 0]

-----------------------------------------------------------------------------
(* Mutated forms, used only to show that the properties below can fail.    *)

LeaseFreeNoTakeover == owner = NoOwner
RenewOnTop(c) == ttl' = (IF owner = c THEN ttl + Lease ELSE ttl) /\ UNCHANGED owner
RenewNothing(c) == UNCHANGED <<owner, ttl>>
DeleteAnyRow(c) == owner' = NoOwner /\ ttl' = -1

-----------------------------------------------------------------------------
(* The three statements.                                                   *)

\* The INSERT ... ON CONFLICT's test: no row, or a row with expires_at < now().
LeaseFree == owner = NoOwner \/ ttl < 0

\* UPDATE ... WHERE job_key AND owner_id: does not look at expires_at, so it
\* also revives a lease that expired but was not taken over, and it is a
\* silent no-op when it was.
RenewRow(c) ==
  /\ ttl' = IF owner = c THEN Lease ELSE ttl
  /\ UNCHANGED owner

\* DELETE ... WHERE job_key AND owner_id.
DeleteRow(c) ==
  IF owner = c THEN owner' = NoOwner /\ ttl' = -1
               ELSE UNCHANGED <<owner, ttl>>

-----------------------------------------------------------------------------
(* withJobLock.  A caller refused by tryAcquire returns {ran: false} and   *)
(* changes nothing: a stuttering step.                                     *)

TryAcquire(c) ==
  /\ pc[c] = "idle"
  /\ LeaseFree
  /\ owner' = c
  /\ ttl' = Lease
  /\ pc' = [pc EXCEPT ![c] = "acquired"]
  /\ due' = [due EXCEPT ![c] = 0]
  /\ UNCHANGED missed

\* The INSERT committed but its reply was lost: the query rejects, fn never
\* runs, and the row stays until it expires.
AcquireReplyLost(c) ==
  /\ pc[c] = "idle"
  /\ LeaseFree
  /\ owner' = c
  /\ ttl' = Lease
  /\ UNCHANGED <<pc, due, missed>>

\* The reply arrived: setInterval, then fn().
StartFn(c) ==
  /\ pc[c] = "acquired"
  /\ pc' = [pc EXCEPT ![c] = "running"]
  /\ due' = [due EXCEPT ![c] = Heartbeat]
  /\ missed' = [missed EXCEPT ![c] = 0]
  /\ UNCHANGED <<owner, ttl>>

\* The timer fires and its UPDATE goes through.
Beat(c) ==
  /\ pc[c] = "running"
  /\ due[c] <= 0
  /\ RenewRow(c)
  /\ due' = [due EXCEPT ![c] = Heartbeat]
  /\ missed' = [missed EXCEPT ![c] = 0]
  /\ UNCHANGED pc

\* The timer fires and its UPDATE fails: logged, fn goes on.
BeatFails(c) ==
  /\ pc[c] = "running"
  /\ due[c] <= 0
  /\ missed[c] < MaxLost
  /\ due' = [due EXCEPT ![c] = Heartbeat]
  /\ missed' = [missed EXCEPT ![c] = @ + 1]
  /\ UNCHANGED <<owner, ttl, pc>>

\* fn settles: clearInterval.
SettleFn(c) ==
  /\ pc[c] = "running"
  /\ pc' = [pc EXCEPT ![c] = "settled"]
  /\ due' = [due EXCEPT ![c] = 0]
  /\ missed' = [missed EXCEPT ![c] = 0]
  /\ UNCHANGED <<owner, ttl>>

Release(c) ==
  /\ pc[c] = "settled"
  /\ DeleteRow(c)
  /\ pc' = [pc EXCEPT ![c] = "idle"]
  /\ UNCHANGED <<due, missed>>

\* The DELETE fails: logged, "will expire naturally".
ReleaseFails(c) ==
  /\ pc[c] = "settled"
  /\ pc' = [pc EXCEPT ![c] = "idle"]
  /\ UNCHANGED <<owner, ttl, due, missed>>

\* The process is killed: nothing is released.
Crash(c) ==
  /\ pc[c] # "idle"
  /\ pc' = [pc EXCEPT ![c] = "idle"]
  /\ due' = [due EXCEPT ![c] = 0]
  /\ missed' = [missed EXCEPT ![c] = 0]
  /\ UNCHANGED <<owner, ttl>>

\* A timer or a reply is acted upon at most MaxLag ticks late.
Obliged(c) == pc[c] \in {"acquired", "running"}

Tick ==
  /\ \A c \in Caller : Obliged(c) => due[c] > -MaxLag
  /\ ttl' = IF ttl < 0 THEN -1 ELSE ttl - 1
  /\ due' = [c \in Caller |-> IF Obliged(c) THEN due[c] - 1 ELSE due[c]]
  /\ UNCHANGED <<owner, pc, missed>>

\* A due timer or an arrived reply is acted upon eventually.
Serve(c) == StartFn(c) \/ Beat(c) \/ BeatFails(c)

Step(c) ==
  \/ TryAcquire(c)
  \/ AcquireReplyLost(c)
  \/ Serve(c)
  \/ SettleFn(c)
  \/ Release(c)
  \/ ReleaseFails(c)
  \/ Crash(c)

Next == Tick \/ \E c \in Caller : Step(c)

\* Time passes, and the event loop of a live process does not stop for ever.
Fairness == WF_vars(Tick) /\ \A c \in Caller : WF_vars(Serve(c))

Spec == Init /\ [][Next]_vars /\ Fairness

-----------------------------------------------------------------------------
(* Properties.                                                             *)

Running(c) == pc[c] = "running"

\* No two callers are inside fn at the same time: "two app instances can
\* never run the same lane at the same time" (cron.js, locked).
OneRunner == \A c, d \in Caller : Running(c) /\ Running(d) => c = d

\* Mutated form: only a lease that was renewed on time counts as running.
JobLockInfoFresh == owner # NoOwner /\ ttl > Lease - Heartbeat

\* jobLockInfo, read by the screens and by master-agent.js to find out whether
\* the job is running: a row with expires_at > now().
JobLockInfo == owner # NoOwner /\ ttl > 0

\* jobLockInfo never reports a job free while its fn is executing: nobody is
\* shown a "start" button for a baseline that is still being built.
RunningIsVisible == (\E c \in Caller : Running(c)) => JobLockInfo

\* A lease that has not expired leaves its owner only by that owner's own
\* release: neither an acquirer nor the late release of a caller whose lease
\* was taken over ever removes another caller's row.
LiveLeaseOnlyReleased ==
  [][ owner # NoOwner /\ ttl >= 0 /\ owner' # owner
        => owner' = NoOwner /\ pc[owner] = "settled" ]_vars

\* A row nobody works under (its holder crashed, its release failed, its
\* acquirer never got the reply) stops blocking the job.
OrphanExpires ==
  \A c \in Caller : (owner = c /\ pc[c] = "idle") ~> (LeaseFree \/ owner # c \/ pc[c] # "idle")
=============================================================================
