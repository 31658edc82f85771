----------------------------- MODULE JobLockProofs -----------------------------
(***************************************************************************)
(* Proofs about the lease lock, for any number of callers, any lease,      *)
(* heartbeat, lag and number of lost heartbeats.                           *)
(***************************************************************************)
EXTENDS JobLockTimely, TLAPS

\* Every variable keeps its type.
THEOREM TypeCorrect == Spec => []TypeOK
<1> USE LeaseAssumption DEF TypeOK, CallState
<1>1. Init => TypeOK
  BY DEF Init
<1>2. TypeOK /\ [Next]_vars => TypeOK'
  <2> SUFFICES ASSUME TypeOK, [Next]_vars PROVE TypeOK'
    OBVIOUS
  <2>1. CASE Tick
    BY <2>1 DEF Tick, Obliged
  <2>2. ASSUME NEW c \in Caller, Step(c) PROVE TypeOK'
    <3>1. CASE TryAcquire(c)
      BY <3>1 DEF TryAcquire
    <3>2. CASE AcquireReplyLost(c)
      BY <3>2 DEF AcquireReplyLost
    <3>3. CASE StartFn(c)
      BY <3>3 DEF StartFn
    <3>4. CASE Beat(c)
      BY <3>4 DEF Beat, RenewRow
    <3>5. CASE BeatFails(c)
      BY <3>5 DEF BeatFails
    <3>6. CASE SettleFn(c)
      BY <3>6 DEF SettleFn
    <3>7. CASE Release(c)
      BY <3>7 DEF Release, DeleteRow
    <3>8. CASE ReleaseFails(c)
      BY <3>8 DEF ReleaseFails
    <3>9. CASE Crash(c)
      BY <3>9 DEF Crash
    <3> QED
      BY <2>2, <3>1, <3>2, <3>3, <3>4, <3>5, <3>6, <3>7, <3>8, <3>9 DEF Step, Serve
  <2>3. CASE UNCHANGED vars
    BY <2>3 DEF vars
  <2> QED
    BY <2>1, <2>2, <2>3 DEF Next
<1> QED
  BY <1>1, <1>2, PTL DEF Spec

-----------------------------------------------------------------------------
(* Mutual exclusion.  OneRunner is not inductive: nothing in it says that   *)
(* the caller inside fn still owns the row.  HoldersCovered does.           *)

\* What a caller may have to wait is never negative.
LEMMA UntilRenewedNat ==
  ASSUME TypeOK, NEW c \in Caller
  PROVE  UntilRenewed(c) \in Nat
<1> USE LeaseAssumption
<1>1. /\ due[c] + MaxLag \in Nat
      /\ MaxLost - missed[c] \in Nat
      /\ Heartbeat + MaxLag \in Nat
  BY DEF TypeOK
<1>2. \A a, b \in Nat : a * b \in Nat
  OBVIOUS
<1> QED
  BY <1>1, <1>2 DEF UntilRenewed

\* After a heartbeat that went through, or a start within MaxLag of the
\* INSERT, the lease covers every heartbeat that may still be lost.
LEMMA FullLeaseCovers ==
  MaxLag + (Heartbeat + MaxLag + (MaxLost - 0) * (Heartbeat + MaxLag)) < Lease
<1> DEFINE w == Heartbeat + MaxLag
<1>1. w \in Nat /\ MaxLost \in Nat /\ MaxLag \in Nat /\ Lease \in Nat
  BY LeaseAssumption
<1>2. (MaxLost + 1) * w = w + MaxLost * w
  <2> HIDE DEF w
  <2> QED BY <1>1
<1>3. MaxLost - 0 = MaxLost
  BY <1>1
<1> QED
  BY <1>1, <1>2, <1>3, TimelyAssumption

\* A heartbeat lost when it is due leaves no more to wait than before.
LEMMA LosingABeat ==
  ASSUME NEW d \in -MaxLag .. Heartbeat, NEW m \in 0 .. MaxLost, m < MaxLost
  PROVE  Heartbeat + MaxLag + (MaxLost - (m + 1)) * (Heartbeat + MaxLag)
           <= d + MaxLag + (MaxLost - m) * (Heartbeat + MaxLag)
<1> DEFINE w == Heartbeat + MaxLag
           k == MaxLost - (m + 1)
<1>1. w \in Nat /\ k \in Nat /\ d + MaxLag \in Nat
  BY LeaseAssumption
<1>2. MaxLost - m = k + 1
  BY LeaseAssumption
<1>3. (k + 1) * w = w + k * w /\ k * w \in Nat
  <2> HIDE DEF w, k
  <2> QED BY <1>1
<1> QED
  BY <1>1, <1>2, <1>3

\* No caller has a row or runs at the start.
LEMMA InitCovered == Init => HoldersCovered
BY DEF Init, HoldersCovered

\* Every step keeps the holders covered by their leases.
LEMMA StepCovered == TypeOK /\ HoldersCovered /\ [Next]_vars => HoldersCovered'
<1> SUFFICES ASSUME TypeOK, HoldersCovered, [Next]_vars PROVE HoldersCovered'
  OBVIOUS
<1> USE LeaseAssumption
<1>1. CASE Tick
  <2> SUFFICES ASSUME NEW d \in Caller
               PROVE  /\ pc'[d] = "acquired" => owner' = d /\ ttl' >= Lease + due'[d] /\ due'[d] <= 0
                      /\ pc'[d] = "running"  => owner' = d /\ ttl' > (UntilRenewed(d))'
    BY DEF HoldersCovered
  <2>1. CASE pc[d] = "acquired"
    <3>1. due[d] > -MaxLag /\ due'[d] = due[d] - 1 /\ owner' = owner /\ pc' = pc
      BY <1>1, <2>1 DEF Tick, Obliged, TypeOK
    <3>2. ttl >= Lease + due[d] /\ owner = d /\ due[d] <= 0
      BY <2>1 DEF HoldersCovered
    <3>3. Lease > MaxLag
      <4>1. (MaxLost + 1) * (Heartbeat + MaxLag) \in Nat
        OBVIOUS
      <4> QED BY <4>1, TimelyAssumption
    <3>4. ttl' = ttl - 1
      BY <1>1, <3>1, <3>2, <3>3 DEF Tick, TypeOK
    <3> QED BY <2>1, <3>1, <3>2, <3>4 DEF TypeOK
  <2>2. CASE pc[d] = "running"
    <3>1. due'[d] = due[d] - 1 /\ owner' = owner /\ pc' = pc /\ missed' = missed
      BY <1>1, <2>2 DEF Tick, Obliged, TypeOK
    <3>2. ttl > UntilRenewed(d) /\ owner = d
      BY <2>2 DEF HoldersCovered
    <3>3. UntilRenewed(d) \in Nat /\ (UntilRenewed(d))' = UntilRenewed(d) - 1
      <4> DEFINE x == (MaxLost - missed[d]) * (Heartbeat + MaxLag)
      <4>1. x \in Int /\ x' = x /\ due[d] \in Int
        BY <3>1 DEF TypeOK
      <4> HIDE DEF x
      <4>2. UntilRenewed(d) = due[d] + MaxLag + x
        BY DEF UntilRenewed, x
      <4>3. (UntilRenewed(d))' = due'[d] + MaxLag + x'
        BY DEF UntilRenewed, x
      <4> QED BY <3>1, <4>1, <4>2, <4>3, UntilRenewedNat
    <3>4. ttl' = ttl - 1
      BY <1>1, <3>2, <3>3 DEF Tick, TypeOK
    <3> QED BY <2>2, <3>1, <3>2, <3>3, <3>4 DEF TypeOK
  <2>3. CASE pc[d] \notin {"acquired", "running"}
    BY <1>1, <2>3 DEF Tick
  <2> QED BY <2>1, <2>2, <2>3
<1>2. ASSUME NEW c \in Caller, TryAcquire(c) \/ AcquireReplyLost(c) PROVE HoldersCovered'
  <2>1. \A d \in Caller : pc[d] \notin {"acquired", "running"}
    <3> SUFFICES ASSUME NEW d \in Caller, pc[d] \in {"acquired", "running"} PROVE FALSE
      OBVIOUS
    <3>1. owner = d /\ ttl >= 0
      <4>1. (MaxLost + 1) * (Heartbeat + MaxLag) \in Nat
        OBVIOUS
      <4>2. Lease > MaxLag
        BY <4>1, TimelyAssumption
      <4> QED BY <4>2, UntilRenewedNat DEF HoldersCovered, TypeOK
    <3> QED BY <1>2, <3>1 DEF TryAcquire, AcquireReplyLost, LeaseFree, TypeOK
  <2> QED BY <1>2, <2>1 DEF TryAcquire, AcquireReplyLost, HoldersCovered, TypeOK
<1>3. ASSUME NEW c \in Caller, StartFn(c) PROVE HoldersCovered'
  <2>1. owner = c /\ ttl >= Lease - MaxLag
    BY <1>3 DEF StartFn, HoldersCovered, TypeOK
  <2>2. (UntilRenewed(c))' = Heartbeat + MaxLag + (MaxLost - 0) * (Heartbeat + MaxLag)
    BY <1>3 DEF StartFn, UntilRenewed, TypeOK
  <2>3. (UntilRenewed(c))' \in Nat
    BY <2>2
  <2>4. ttl' > (UntilRenewed(c))'
    BY <1>3, <2>1, <2>2, <2>3, FullLeaseCovers DEF StartFn, TypeOK
  <2>5. \A d \in Caller : d # c => due'[d] = due[d] /\ missed'[d] = missed[d] /\ pc'[d] = pc[d]
    BY <1>3 DEF StartFn, TypeOK
  <2> QED
    BY <1>3, <2>1, <2>4, <2>5 DEF StartFn, HoldersCovered, UntilRenewed, TypeOK
<1>4. ASSUME NEW c \in Caller, Beat(c) PROVE HoldersCovered'
  <2>1. owner = c
    BY <1>4 DEF Beat, HoldersCovered
  <2>2. ttl' = Lease /\ owner' = owner
    BY <1>4, <2>1 DEF Beat, RenewRow
  <2>3. (UntilRenewed(c))' = Heartbeat + MaxLag + (MaxLost - 0) * (Heartbeat + MaxLag)
    BY <1>4 DEF Beat, UntilRenewed, TypeOK
  <2>4. ttl' > (UntilRenewed(c))'
    <3>1. (UntilRenewed(c))' \in Nat
      BY <2>3
    <3> QED BY <2>2, <2>3, <3>1, FullLeaseCovers
  <2>5. \A d \in Caller : d # c => pc'[d] \notin {"acquired", "running"}
    BY <1>4, <2>1 DEF Beat, HoldersCovered
  <2> QED
    BY <1>4, <2>1, <2>2, <2>4, <2>5 DEF Beat, HoldersCovered, TypeOK
<1>5. ASSUME NEW c \in Caller, BeatFails(c) PROVE HoldersCovered'
  <2>1. owner = c /\ ttl > UntilRenewed(c) /\ owner' = owner /\ ttl' = ttl
    BY <1>5 DEF BeatFails, HoldersCovered
  <2>2. (UntilRenewed(c))' <= UntilRenewed(c)
    <3>1. (UntilRenewed(c))' = Heartbeat + MaxLag + (MaxLost - (missed[c] + 1)) * (Heartbeat + MaxLag)
      BY <1>5 DEF BeatFails, UntilRenewed, TypeOK
    <3> QED BY <1>5, <3>1, LosingABeat DEF BeatFails, UntilRenewed, TypeOK
  <2>3. (UntilRenewed(c))' \in Int /\ UntilRenewed(c) \in Int
    <3>1. due'[c] \in Int /\ missed'[c] \in Int
      BY <1>5 DEF BeatFails, TypeOK
    <3> QED BY <3>1, UntilRenewedNat DEF UntilRenewed
  <2>4. \A d \in Caller : d # c => pc'[d] \notin {"acquired", "running"}
    BY <1>5, <2>1 DEF BeatFails, HoldersCovered
  <2> QED
    BY <1>5, <2>1, <2>2, <2>3, <2>4 DEF BeatFails, HoldersCovered, TypeOK
<1>6. ASSUME NEW c \in Caller, SettleFn(c) \/ ReleaseFails(c) \/ Crash(c) PROVE HoldersCovered'
  <2>1. \A d \in Caller : d # c => due'[d] = due[d] /\ missed'[d] = missed[d] /\ pc'[d] = pc[d]
    BY <1>6 DEF SettleFn, ReleaseFails, Crash, TypeOK
  <2>2. pc'[c] \notin {"acquired", "running"} /\ UNCHANGED <<owner, ttl>>
    BY <1>6 DEF SettleFn, ReleaseFails, Crash, TypeOK
  <2> QED BY <2>1, <2>2 DEF HoldersCovered, UntilRenewed
<1>7. ASSUME NEW c \in Caller, Release(c) PROVE HoldersCovered'
  <2>1. \A d \in Caller : pc'[d] \in {"acquired", "running"} => d # c /\ pc'[d] = pc[d]
    BY <1>7 DEF Release, TypeOK
  <2>2. UNCHANGED <<due, missed>>
    BY <1>7 DEF Release
  <2>3. \A d \in Caller : pc'[d] \in {"acquired", "running"} => UNCHANGED <<owner, ttl>>
    BY <1>7, <2>1 DEF Release, DeleteRow, HoldersCovered
  <2> QED BY <2>1, <2>2, <2>3 DEF HoldersCovered, UntilRenewed
<1>8. CASE UNCHANGED vars
  BY <1>8 DEF vars, HoldersCovered, UntilRenewed
<1> QED
  BY <1>1, <1>2, <1>3, <1>4, <1>5, <1>6, <1>7, <1>8 DEF Next, Step, Serve

\* A caller from its INSERT to the end of fn owns a row that will not run out
\* before it is renewed.
THEOREM Covered == Spec => []HoldersCovered
BY TypeCorrect, InitCovered, StepCovered, PTL DEF Spec

\* Mutual exclusion of the guarded function, for every lease, heartbeat, lag
\* and number of lost heartbeats that satisfy TimelyAssumption.
THEOREM MutualExclusion == Spec => []OneRunner
<1>1. HoldersCovered => OneRunner
  BY DEF HoldersCovered, OneRunner, Running
<1> QED
  BY <1>1, Covered, PTL

\* jobLockInfo never reports a job free while its fn is executing.
THEOREM NeverShownFree == Spec => []RunningIsVisible
<1>1. TypeOK /\ HoldersCovered => RunningIsVisible
  <2> SUFFICES ASSUME TypeOK, HoldersCovered, NEW c \in Caller, Running(c) PROVE JobLockInfo
    BY DEF RunningIsVisible
  <2>1. owner = c /\ ttl > UntilRenewed(c)
    BY DEF HoldersCovered, Running
  <2> QED BY <2>1, UntilRenewedNat, LeaseAssumption DEF JobLockInfo, TypeOK
<1> QED
  BY <1>1, TypeCorrect, Covered, PTL

-----------------------------------------------------------------------------
(* The lease lock implements the abstract mutual exclusion lock.           *)

\* Every step of the lease lock is a step of ExclusiveRun, or a stutter.
LEMMA StepRefines ==
  TypeOK /\ HoldersCovered /\ [Next]_vars
    => [Exclusive!Next]_({c \in Caller : Running(c)})
<1> SUFFICES ASSUME TypeOK, HoldersCovered, [Next]_vars
             PROVE  [Exclusive!Next]_({c \in Caller : Running(c)})
  OBVIOUS
<1> DEFINE inside == {c \in Caller : Running(c)}
<1>1. CASE Tick \/ UNCHANGED vars
  BY <1>1 DEF Tick, vars, Running
<1>2. ASSUME NEW c \in Caller, StartFn(c) PROVE Exclusive!Enter(c)
  <2>1. inside = {}
    BY <1>2 DEF HoldersCovered, StartFn, Running
  <2>2. inside' = {c}
    BY <1>2, <2>1 DEF StartFn, Running, TypeOK
  <2> QED BY <2>1, <2>2 DEF Exclusive!Enter
<1>3. ASSUME NEW c \in Caller, SettleFn(c) \/ Crash(c), Running(c) PROVE Exclusive!Leave(c)
  <2>1. inside = {c}
    BY <1>3 DEF HoldersCovered, Running
  <2>2. inside' = {}
    BY <1>3, <2>1 DEF SettleFn, Crash, Running, TypeOK
  <2> QED BY <2>1, <2>2 DEF Exclusive!Leave
<1>4. ASSUME NEW c \in Caller,
             TryAcquire(c) \/ AcquireReplyLost(c) \/ Beat(c) \/ BeatFails(c)
               \/ Release(c) \/ ReleaseFails(c) \/ (Crash(c) /\ ~Running(c))
      PROVE  inside' = inside
  <2>1. \A d \in Caller : Running(d)' <=> Running(d)
    BY <1>4 DEF TryAcquire, AcquireReplyLost, Beat, BeatFails, Release, ReleaseFails,
                Crash, Running, TypeOK
  <2> QED BY <2>1
<1>5. \A c \in Caller : SettleFn(c) => Running(c)
  BY DEF SettleFn, Running
<1> QED
  BY <1>1, <1>2, <1>3, <1>4, <1>5 DEF Next, Step, Serve, Exclusive!Next

\* Under TimelyAssumption the lease lock implements the mutual exclusion lock
\* its callers rely on.
THEOREM Refinement == Spec => ImplementsExclusiveRun
<1>1. Init => Exclusive!Init
  BY DEF Init, Exclusive!Init, Running
<1> QED
  BY <1>1, StepRefines, TypeCorrect, Covered, PTL
     DEF Spec, ImplementsExclusiveRun, Exclusive!Spec

-----------------------------------------------------------------------------
(* What needs no punctuality.                                              *)

\* A lease that has not expired is only ever removed by its own owner.
THEOREM LeaseNotStolen == Spec => LiveLeaseOnlyReleased
<1>1. TypeOK /\ [Next]_vars
        => [owner # NoOwner /\ ttl >= 0 /\ owner' # owner
              => owner' = NoOwner /\ pc[owner] = "settled"]_vars
  <2> SUFFICES ASSUME TypeOK, Next, owner # NoOwner, ttl >= 0, owner' # owner
               PROVE  owner' = NoOwner /\ pc[owner] = "settled"
    OBVIOUS
  <2>1. \A c \in Caller : ~TryAcquire(c) /\ ~AcquireReplyLost(c)
    BY LeaseAssumption DEF TryAcquire, AcquireReplyLost, LeaseFree, TypeOK
  <2>2. PICK c \in Caller : Release(c)
    BY <2>1 DEF Next, Tick, Step, Serve, StartFn, Beat, RenewRow, BeatFails, SettleFn,
                ReleaseFails, Crash
  <2> QED BY <2>2 DEF Release, DeleteRow
<1> QED
  BY <1>1, TypeCorrect, PTL DEF Spec, LiveLeaseOnlyReleased
=============================================================================
