---------------------------- MODULE DesignAgentProofs ----------------------------
(***************************************************************************)
(* The Design Agent for every number of workers, jobs, reclaims, retained  *)
(* versions, crashes and edits (DesignAgent): the map of a site implements *)
(* the store that loses no update, and a completed job left its outcome.   *)
(*                                                                         *)
(* The argument: a revision names one content of the map, so a writer      *)
(* whose revision is the current one overwrites exactly what it read; any  *)
(* other write is merged place by place, and accepted only if no place was *)
(* changed on both sides.                                                  *)
(***************************************************************************)
EXTENDS DesignAgent, FiniteSetTheorems, TLAPS

JobType == [status : Status, reclaims : Nat, kept : BOOLEAN]
WorkerType == [pc : Place, job : Job \cup {None}, attempt : 0 .. Attempts, out : Stamp,
               at : Stamp, row : Row, stale : [Job -> Nat]]

\* The types, with those that TypeOK leaves to the reader: what a worker is, and that the
\* profile in the map is one that was derived.
AgentTypes ==
  /\ job \in [Job -> JobType] /\ site \in Row /\ site.data.profile \in Stamp
  /\ worker \in [Worker -> WorkerType]
  /\ caller \in [Caller -> BOOLEAN] /\ drafter \in Row
  /\ stamps \in Stamp /\ edits \in 0 .. MaxEdit
  /\ crashes \in 0 .. MaxCrash /\ slow \in 0 .. MaxSlow /\ faults \in 0 .. MaxFault

\* A revision names one content of the map.
NamedBy(r, s) == r.rev <= s.rev /\ (r.rev = s.rev => r.data = s.data)

Revisions ==
  /\ site.rev >= 1
  /\ NamedBy(drafter, site) /\ \A w \in Worker : NamedBy(worker[w].row, site)
  /\ \A w \in Worker : worker[w].pc \in Saving => worker[w].row.rev # 0

\* A worker past its first save left its outcome for the job.
Left ==
  /\ \A w \in Worker : worker[w].pc \notin {"idle", "reclaiming"} => worker[w].job \in Job
  /\ \A w \in Worker : worker[w].pc \in {"projecting", "completing"} => job[worker[w].job].kept
  /\ CompletedIsKept

AgentInv == AgentTypes /\ Revisions /\ Left

-----------------------------------------------------------------------------
(* The constants, and what is typed.                                       *)

\* What the constants are.
LEMMA Parameters ==
  /\ MaxReclaims \in Nat /\ Retain \in Nat /\ MaxEdit \in Nat /\ MaxCrash \in Nat
  /\ MaxSlow \in Nat /\ MaxFault \in Nat /\ Attempts \in Nat \ {0} /\ MaxStamp \in Nat
  /\ 0 \in Stamp /\ Stamp \subseteq Nat /\ \A s \in Stamp : s < MaxStamp => s + 1 \in Stamp
  /\ None \notin Job /\ Drafter \notin Worker
  BY DesignAgentAssumption DEF Job, Stamp, None

\* An idle worker and an unread row have their types.
LEMMA NothingTyped == NoRow \in Row /\ NoRow.rev = 0 /\ Idle \in WorkerType
<1>1. NoRow \in Row /\ NoRow.rev = 0
  BY DEF NoRow, Row, Map, None
<1>2. Idle \in WorkerType
  BY <1>1, Parameters DEF Idle, WorkerType, Place, None
<1> QED BY <1>1, <1>2

\* The stale jobs can be counted.
LEMMA JobsFinite == \A S \in SUBSET Job : Cardinality(S) \in Nat
<1>1. IsFiniteSet(Job)
  BY FS_Interval, DesignAgentAssumption DEF Job
<1> QED BY <1>1, FS_Subset, FS_CardinalityType

-----------------------------------------------------------------------------
(* The map.                                                                *)

\* A write leaves a map and a revision.
LEMMA StoredTyped ==
  ASSUME site \in Row, NEW read \in Row, NEW ours \in Map
  PROVE  Stored(read, ours) \in Row
<1>1. Merged(read.data, site.data, ours) \in Map
  BY DEF Merged, Map, Row
<1>2. site.rev \in Nat /\ site.rev + 1 \in Nat
  BY DEF Row
<1> QED BY <1>1, <1>2 DEF Stored, Row

\* A write that changes the map takes the next revision.
LEMMA StoredIsNext ==
  ASSUME site \in Row, NEW read \in Row, NEW ours \in Map
  PROVE  Stored(read, ours) = site \/ Stored(read, ours).rev = site.rev + 1
<1> DEFINE new == IF read.rev = site.rev THEN ours ELSE Merged(read.data, site.data, ours)
<1>1. Stored(read, ours) = [data |-> new, rev |-> IF new = site.data THEN site.rev ELSE site.rev + 1]
  BY DEF Stored
<1>2. CASE new = site.data
  BY <1>1, <1>2 DEF Row
<1>3. CASE new # site.data
  BY <1>1, <1>3
<1> QED BY <1>2, <1>3

\* A revision names the same content after a step as before.
LEMMA NamesStay ==
  ASSUME NEW r \in Row, NEW s \in Row, NEW t \in Row, NamedBy(r, s), t = s \/ t.rev = s.rev + 1
  PROVE  NamedBy(r, t)
  BY DEF NamedBy, Row

\* An accepted write changes only places that hold what its writer read there.
LEMMA StoredTakesNothing ==
  ASSUME site \in Row, NEW read \in Row, NEW ours \in Map, NamedBy(read, site), Accepted(read, ours),
         NEW k \in Key, Stored(read, ours).data[k] # site.data[k]
  PROVE  site.data[k] = read.data[k]
<1>1. CASE read.rev = site.rev
  BY <1>1 DEF NamedBy
<1>2. CASE read.rev # site.rev
  <2>1. Stored(read, ours).data[k] = IF ours[k] = read.data[k] THEN site.data[k] ELSE ours[k]
    BY <1>2 DEF Stored, Merged
  <2>2. k \notin Conflicts(read.data, site.data, ours)
    BY <1>2 DEF Accepted
  <2> QED BY <2>1, <2>2 DEF Conflicts
<1> QED BY <1>1, <1>2

\* A writer that keeps the profile it read, or puts one that was derived, stores one that
\* was derived.
LEMMA StoredProfile ==
  ASSUME site \in Row, site.data.profile \in Stamp, NEW read \in Row, NEW ours \in Map,
         NamedBy(read, site), ours.profile \in Stamp \/ ours.profile = read.data.profile
  PROVE  Stored(read, ours).data.profile \in Stamp
<1>1. "profile" \in Key
  BY DEF Key
<1>2. CASE read.rev = site.rev
  BY <1>2 DEF Stored, NamedBy
<1>3. CASE read.rev # site.rev
  <2>1. Stored(read, ours).data["profile"]
          = IF ours["profile"] = read.data["profile"] THEN site.data["profile"] ELSE ours["profile"]
    BY <1>1, <1>3 DEF Stored, Merged
  <2> QED BY <2>1
<1> QED BY <1>2, <1>3

-----------------------------------------------------------------------------
(* What a step of a worker does.                                           *)

\* What a worker holds after its step is sound for the jobs and the map of that moment.
Sound(x) ==
  /\ x \in WorkerType
  /\ x.pc \notin {"idle", "reclaiming"} => x.job \in Job
  /\ x.pc \in {"projecting", "completing"} => job'[x.job].kept
  /\ x.pc \in Saving => x.row.rev # 0

\* Jobs are typed, keep what they have, and complete only with an outcome.
JobsGoOn ==
  /\ job' \in [Job -> JobType]
  /\ \A j \in Job : /\ job[j].kept => job'[j].kept
                    /\ job'[j].status = "completed" => job'[j].kept

\* The worker keeps its row, drops it or reads the map ...
Looks(w, x) == site' = site /\ x.row \in {worker[w].row, NoRow, site}

\* ... or writes the map and goes on with what it left there, or with nothing.
Writes(w, x) ==
  \E ours \in Map :
    /\ worker[w].row.rev # 0 /\ Accepted(worker[w].row, ours)
    /\ site' = Stored(worker[w].row, ours) /\ site'.data.profile \in Stamp
    /\ x.row \in {NoRow, site'}

Acts(w) ==
  /\ \E x : Step(w, x) /\ Sound(x) /\ (Looks(w, x) \/ Writes(w, x))
  /\ JobsGoOn
  /\ UNCHANGED <<caller, drafter, edits>>
  /\ stamps' \in Stamp /\ crashes' \in 0 .. MaxCrash
  /\ slow' \in 0 .. MaxSlow /\ faults' \in 0 .. MaxFault

\* A failing await is within its bound.
LEMMA AwaitCounts ==
  ASSUME AgentTypes, NEW w, Await(w)
  PROVE  faults' \in 0 .. MaxFault
  BY Parameters DEF AgentTypes, Await

\* A worker that only changes its place, where no outcome is claimed.
LEMMA MovesOn ==
  ASSUME AgentInv, NEW w \in Worker, NEW x \in WorkerType, Step(w, x),
         UNCHANGED <<job, site, caller, drafter, edits>>,
         stamps' \in Stamp, crashes' \in 0 .. MaxCrash, slow' \in 0 .. MaxSlow, faults' \in 0 .. MaxFault,
         x.pc \notin {"idle", "reclaiming"} => x.job \in Job,
         x.pc \notin {"projecting", "completing"},
         x.row \in {worker[w].row, NoRow, site},
         x.pc \in Saving => x.row.rev # 0
  PROVE  Acts(w)
<1>1. Sound(x) /\ Looks(w, x)
  BY DEF Sound, Looks
<1>2. JobsGoOn
  BY DEF JobsGoOn, AgentInv, AgentTypes, Left, CompletedIsKept
<1> QED BY <1>1, <1>2 DEF Acts

\* A worker that drops its row and goes to record a failure.
LEMMA Fails ==
  ASSUME AgentInv, NEW w \in Worker, worker[w].pc \in Trying, Fail(w),
         UNCHANGED <<job, site, caller, drafter, edits, stamps, crashes, slow>>,
         faults' \in 0 .. MaxFault
  PROVE  Acts(w)
<1> DEFINE x == [worker[w] EXCEPT !.pc = "failing", !.row = NoRow]
<1>1. /\ x \in WorkerType /\ x.pc = "failing" /\ x.row = NoRow /\ x.job = worker[w].job
      /\ worker[w].job \in Job
  BY NothingTyped DEF AgentInv, AgentTypes, Left, WorkerType, Place, Trying, Saving
<1>2. Step(w, x)
  BY DEF Fail
<1> HIDE DEF x
<1> QED BY <1>1, <1>2, MovesOn DEF AgentInv, AgentTypes, Saving

\* A save is accepted and recorded with the job, or it fails.
LEMMA Saves ==
  ASSUME AgentInv, NEW w \in Worker, worker[w].pc \in Saving, NEW ours \in Map,
         NEW next \in {"projecting", "completing"}, Save(w, ours, next),
         ours.profile \in Stamp \/ ours.profile = worker[w].row.data.profile,
         UNCHANGED <<caller, drafter, bounds>>
  PROVE  Acts(w)
<1> DEFINE read == worker[w].row
           x == [worker[w] EXCEPT !.pc = next, !.row = IF next = "projecting" THEN site' ELSE NoRow]
<1>0. /\ read \in Row /\ read.rev # 0 /\ NamedBy(read, site) /\ worker[w].job \in Job
      /\ site \in Row /\ site.data.profile \in Stamp /\ site.rev >= 1
      /\ worker[w] \in WorkerType /\ worker[w].pc \in Trying
  BY DEF AgentInv, AgentTypes, Revisions, Left, WorkerType, Saving, Trying
<1>1. CASE ~Accepted(read, ours)
  BY <1>0, <1>1, Fails DEF Save, bounds, AgentInv, AgentTypes
<1>2. CASE Accepted(read, ours)
  <2>1. /\ site' = Stored(read, ours) /\ Step(w, x)
        /\ job' = [job EXCEPT ![worker[w].job].kept = TRUE]
    BY <1>2 DEF Save
  <2>2. /\ site' \in Row /\ site'.data.profile \in Stamp
        /\ site' = site \/ site'.rev = site.rev + 1
    BY <1>0, <2>1, StoredTyped, StoredProfile, StoredIsNext
  <2>3. site'.rev # 0
    BY <1>0, <2>2 DEF Row
  <2>4. JobsGoOn /\ job'[worker[w].job].kept
    BY <1>0, <2>1 DEF JobsGoOn, AgentInv, AgentTypes, Left, CompletedIsKept, JobType
  <2>5. /\ x \in WorkerType /\ x.pc = next /\ x.job = worker[w].job
        /\ x.row = IF next = "projecting" THEN site' ELSE NoRow
    BY <1>0, <2>2, NothingTyped DEF WorkerType, Place, Trying, Saving
  <2> HIDE DEF x
  <2>6. Sound(x)
    BY <1>0, <2>3, <2>4, <2>5 DEF Sound, Saving
  <2>7. Writes(w, x)
    BY <1>0, <1>2, <2>1, <2>2, <2>5 DEF Writes
  <2> QED BY <2>1, <2>4, <2>6, <2>7 DEF Acts, bounds, AgentInv, AgentTypes
<1> QED BY <1>1, <1>2

\* A worker that lets go of its job, which may get a status on the way.
LEMMA LetsGo ==
  ASSUME AgentInv, NEW w \in Worker, Step(w, Idle), JobsGoOn,
         UNCHANGED <<site, caller, drafter, edits, stamps, slow>>,
         crashes' \in 0 .. MaxCrash, faults' \in 0 .. MaxFault
  PROVE  Acts(w)
<1>1. Idle.pc = "idle" /\ Idle.row = NoRow /\ Idle \in WorkerType
  BY NothingTyped DEF Idle
<1>2. Sound(Idle) /\ Looks(w, Idle)
  BY <1>1 DEF Sound, Looks, Saving
<1> QED BY <1>2 DEF Acts, AgentInv, AgentTypes

\* The reclaim keeps what a job has and completes none.
LEMMA ReclaimedGoesOn ==
  ASSUME AgentInv, NEW w \in Worker, ReclaimWrite(w)
  PROVE  JobsGoOn
<1> SUFFICES ASSUME NEW j \in Job
             PROVE  /\ job'[j] \in JobType /\ (job[j].kept => job'[j].kept)
                    /\ job'[j].status = "completed" => job'[j].kept
  BY DEF ReclaimWrite, JobsGoOn
<1>1. job'[j] = Reclaimed(j, worker[w].stale[j]) /\ job[j] \in JobType
  BY DEF ReclaimWrite, AgentInv, AgentTypes
<1>2. job[j].status = "completed" => job[j].kept
  BY DEF AgentInv, Left, CompletedIsKept
<1>3. CASE job'[j] = job[j]
  BY <1>1, <1>2, <1>3
<1>4. CASE job'[j] = [job[j] EXCEPT !.status = "failed"]
  BY <1>1, <1>4 DEF JobType, Status
<1>5. CASE job'[j] = [job[j] EXCEPT !.status = "queued", !.reclaims = job[j].reclaims + 1]
  <2>1. [job[j] EXCEPT !.status = "queued", !.reclaims = job[j].reclaims + 1] \in JobType
    <3>1. job[j].reclaims + 1 \in Nat /\ "queued" \in Status
      BY <1>1 DEF JobType, Status
    <3> HIDE DEF Status
    <3> QED BY <1>1, <3>1 DEF JobType
  <2>2. job'[j].kept = job[j].kept /\ job'[j].status = "queued"
    BY <1>1, <1>5 DEF JobType
  <2> QED BY <1>5, <2>1, <2>2
<1> QED BY <1>1, <1>3, <1>4, <1>5 DEF Reclaimed

\* Every step of a worker, its death included, is of this kind.
LEMMA WorkerActs ==
  ASSUME AgentInv, NEW w \in Worker, Poll(w) \/ Crash(w)
  PROVE  Acts(w)
<1>0. /\ worker[w] \in WorkerType /\ site \in Row /\ worker[w].row \in Row
      /\ worker[w].pc \notin {"idle", "reclaiming"} => worker[w].job \in Job
      /\ stamps \in Stamp /\ crashes \in 0 .. MaxCrash
      /\ slow \in 0 .. MaxSlow /\ faults \in 0 .. MaxFault
      /\ site.rev # 0 /\ site.data.profile \in Stamp
  BY DEF AgentInv, AgentTypes, Revisions, Left, WorkerType, Row
<1>j. UNCHANGED job => JobsGoOn
  BY DEF JobsGoOn, AgentInv, AgentTypes, Left, CompletedIsKept
<1>1. CASE ReclaimRead(w)
  <2>1. PICK S \in SUBSET Job :
          /\ slow' = slow + Cardinality({j \in S : Live(j)}) /\ slow' <= MaxSlow
          /\ Step(w, [Idle EXCEPT !.pc = "reclaiming",
                                  !.stale = [j \in Job |-> IF j \in S THEN job[j].reclaims + 1 ELSE 0]])
    BY <1>1 DEF ReclaimRead
  <2> DEFINE x == [Idle EXCEPT !.pc = "reclaiming",
                               !.stale = [j \in Job |-> IF j \in S THEN job[j].reclaims + 1 ELSE 0]]
  <2>2. x \in WorkerType /\ x.pc = "reclaiming" /\ x.row = NoRow
    <3>1. [j \in Job |-> IF j \in S THEN job[j].reclaims + 1 ELSE 0] \in [Job -> Nat]
      BY DEF AgentInv, AgentTypes, JobType
    <3> QED BY <3>1, NothingTyped DEF WorkerType, Place, Idle
  <2>3. slow' \in 0 .. MaxSlow
    <3>1. Cardinality({j \in S : Live(j)}) \in Nat
      BY JobsFinite
    <3> QED BY <1>0, <2>1, <3>1, Parameters
  <2>4. Step(w, x)
    BY <2>1
  <2> HIDE DEF x
  <2> QED BY <1>0, <1>1, <2>2, <2>3, <2>4, MovesOn DEF ReclaimRead, Saving
<1>2. CASE ReclaimWrite(w)
  BY <1>0, <1>2, ReclaimedGoesOn, LetsGo DEF ReclaimWrite, bounds
<1>3. CASE Claim(w)
  <2>1. PICK j \in Job : /\ job' = [job EXCEPT ![j].status = "executing"]
                         /\ Step(w, [Idle EXCEPT !.pc = "claimed", !.job = j, !.attempt = 1])
    BY <1>3 DEF Claim
  <2> DEFINE x == [Idle EXCEPT !.pc = "claimed", !.job = j, !.attempt = 1]
  <2>2. x \in WorkerType /\ x.pc = "claimed" /\ x.job = j /\ x.row = NoRow
    <3>1. 1 \in 0 .. Attempts
      BY Parameters
    <3> QED BY <3>1, NothingTyped DEF WorkerType, Place, Idle
  <2>3. JobsGoOn
    BY <2>1 DEF JobsGoOn, AgentInv, AgentTypes, Left, CompletedIsKept, JobType, Status
  <2>4. Step(w, x) /\ UNCHANGED <<site, caller, drafter, bounds>>
    BY <1>3, <2>1 DEF Claim
  <2> HIDE DEF x
  <2>5. Sound(x) /\ Looks(w, x)
    BY <2>2, <2>4 DEF Sound, Looks, Saving
  <2> QED BY <1>0, <2>3, <2>4, <2>5 DEF Acts, bounds
<1>4. CASE LogClaim(w)
  <2>1. CASE Go(w, "handling") /\ UNCHANGED faults
    <3> DEFINE x == [worker[w] EXCEPT !.pc = "handling"]
    <3>1. x \in WorkerType /\ x.pc = "handling" /\ x.job = worker[w].job /\ x.row = worker[w].row
      BY <1>0 DEF WorkerType, Place, Trying
    <3>2. Step(w, x) /\ worker[w].pc = "claimed"
      BY <1>4, <2>1 DEF Go, LogClaim
    <3> HIDE DEF x
    <3> QED BY <1>0, <1>4, <2>1, <3>1, <3>2, MovesOn DEF LogClaim, Saving
  <2>2. CASE Await(w) /\ Step(w, Idle)
    <3>1. faults' \in 0 .. MaxFault
      BY <2>2, AwaitCounts DEF AgentInv
    <3> QED BY <1>0, <1>4, <1>j, <2>2, <3>1, LetsGo DEF LogClaim
  <2> QED BY <1>4, <2>1, <2>2 DEF LogClaim
<1>5. CASE Derive(w) \/ Rescan(w)
  <2>1. PICK o \in Stamp, t \in Stamp :
          stamps' = t /\ Step(w, [worker[w] EXCEPT !.pc = "fetching", !.out = o, !.at = t])
    BY <1>0, <1>5, Parameters DEF Derive, Rescan
  <2> DEFINE x == [worker[w] EXCEPT !.pc = "fetching", !.out = o, !.at = t]
  <2>2. x \in WorkerType /\ x.pc = "fetching" /\ x.job = worker[w].job /\ x.row = worker[w].row
    BY <1>0 DEF WorkerType, Place, Trying
  <2>3. Step(w, x) /\ worker[w].pc = "handling" /\ stamps' \in Stamp
    BY <1>5, <2>1 DEF Derive, Rescan
  <2> HIDE DEF x
  <2> QED BY <1>0, <1>5, <2>2, <2>3, MovesOn DEF Derive, Rescan, Saving
<1>6. CASE HandlerThrows(w)
  <2>1. ASSUME worker[w].attempt < Attempts, Step(w, [worker[w] EXCEPT !.attempt = worker[w].attempt + 1])
        PROVE  Acts(w)
    <3> DEFINE x == [worker[w] EXCEPT !.attempt = worker[w].attempt + 1]
    <3>1. worker[w].attempt + 1 \in 0 .. Attempts
      BY <1>0, <2>1, Parameters DEF WorkerType
    <3>2. x \in WorkerType /\ x.pc = "handling" /\ x.job = worker[w].job /\ x.row = worker[w].row
      BY <1>0, <1>6, <3>1 DEF WorkerType, HandlerThrows
    <3>3. Step(w, x) /\ worker[w].pc = "handling"
      BY <1>6, <2>1 DEF HandlerThrows
    <3> HIDE DEF x
    <3> QED BY <1>0, <1>6, <3>2, <3>3, MovesOn DEF HandlerThrows, Saving, bounds
  <2>2. CASE Fail(w)
    BY <1>0, <1>6, <2>2, Fails DEF HandlerThrows, Trying, bounds
  <2> QED BY <1>6, <2>1, <2>2 DEF HandlerThrows
<1>7. CASE FetchSite(w)
  <2> DEFINE x == [worker[w] EXCEPT !.pc = IF Skipped(w) THEN "refreshing" ELSE "saving", !.row = site]
  <2>1. x \in WorkerType /\ x.pc \in {"refreshing", "saving"} /\ x.job = worker[w].job /\ x.row = site
    BY <1>0 DEF WorkerType, Place, Trying, Saving
  <2>2. Step(w, x) /\ worker[w].pc = "fetching"
    BY <1>7 DEF FetchSite
  <2> HIDE DEF x
  <2> QED BY <1>0, <1>7, <2>1, <2>2, MovesOn DEF FetchSite, bounds
<1>8. CASE Refresh(w) \/ SaveProfile(w) \/ SaveTemplates(w)
  <2>1. /\ worker[w].row.data \in Map /\ worker[w].out \in Stamp /\ worker[w].at \in Stamp
        /\ Stamp \subseteq Nat /\ None \in Nat
    BY <1>0, Parameters DEF WorkerType, Row, None
  <2>2. CASE Refresh(w)
    <3> DEFINE ours == [worker[w].row.data EXCEPT !.profile = worker[w].out, !.checked = worker[w].at]
    <3>1. ours \in Map /\ ours.profile \in Stamp
      BY <2>1 DEF Map, Key
    <3>2. Save(w, ours, "completing") /\ worker[w].pc \in Saving /\ UNCHANGED <<caller, drafter, bounds>>
      BY <2>2 DEF Refresh, Saving
    <3> HIDE DEF ours
    <3> QED BY <3>1, <3>2, Saves
  <2>3. CASE SaveProfile(w)
    <3> DEFINE ours == [worker[w].row.data EXCEPT !.profile = worker[w].out, !.checked = None]
    <3>1. ours \in Map /\ ours.profile \in Stamp
      BY <2>1 DEF Map, Key
    <3>2. Save(w, ours, "projecting") /\ worker[w].pc \in Saving /\ UNCHANGED <<caller, drafter, bounds>>
      BY <2>3 DEF SaveProfile, Saving
    <3> HIDE DEF ours
    <3> QED BY <3>1, <3>2, Saves
  <2>4. CASE SaveTemplates(w)
    <3> DEFINE ours == [worker[w].row.data EXCEPT !.templates = worker[w].out]
    <3>1. ours \in Map /\ ours.profile = worker[w].row.data.profile
      BY <2>1 DEF Map, Key
    <3>2. Save(w, ours, "completing") /\ worker[w].pc \in Saving /\ UNCHANGED <<caller, drafter, bounds>>
      BY <2>4 DEF SaveTemplates, Saving
    <3> HIDE DEF ours
    <3> QED BY <3>1, <3>2, Saves
  <2> QED BY <1>8, <2>2, <2>3, <2>4
<1>9. CASE FinishCompleted(w)
  <2>1. JobsGoOn
    <3>1. worker[w].job \in Job /\ job[worker[w].job].kept
      BY <1>0, <1>9 DEF FinishCompleted, AgentInv, Left
    <3> QED BY <1>9, <3>1 DEF FinishCompleted, Finish, JobsGoOn, AgentInv, AgentTypes, Left,
            CompletedIsKept, JobType, Status
  <2> QED BY <1>0, <1>9, <2>1, LetsGo DEF FinishCompleted, Finish, bounds
<1>10. CASE FinishFailed(w)
  <2>1. JobsGoOn
    BY <1>j, <1>10 DEF FinishFailed, Finish, JobsGoOn, AgentInv, AgentTypes, Left,
       CompletedIsKept, JobType, Status
  <2>2. faults' \in 0 .. MaxFault
    BY <1>0, <1>10, AwaitCounts DEF FinishFailed, AgentInv
  <2>3. Step(w, Idle)
    BY <1>10 DEF FinishFailed, Finish
  <2> QED BY <1>0, <1>10, <2>1, <2>2, <2>3, LetsGo DEF FinishFailed
<1>11. CASE TryThrows(w)
  <2>1. faults' \in 0 .. MaxFault
    BY <1>11, AwaitCounts DEF TryThrows, AgentInv
  <2> QED BY <1>11, <2>1, Fails DEF TryThrows
<1>12. CASE Crash(w)
  <2>1. crashes' \in 0 .. MaxCrash
    BY <1>0, <1>12, Parameters DEF Crash
  <2> QED BY <1>0, <1>12, <1>j, <2>1, LetsGo DEF Crash
<1> QED
  BY <1>1, <1>2, <1>3, <1>4, <1>5, <1>6, <1>7, <1>8, <1>9, <1>10, <1>11, <1>12 DEF Poll, Run

-----------------------------------------------------------------------------
(* The invariant.                                                          *)

\* After a worker's step.
LEMMA WorkerKeeps ==
  ASSUME AgentInv, NEW w \in Worker, Acts(w)
  PROVE  AgentInv'
<1>1. PICK x : Step(w, x) /\ Sound(x) /\ (Looks(w, x) \/ Writes(w, x))
  BY DEF Acts
<1>2. /\ site \in Row /\ worker[w].row \in Row /\ NamedBy(worker[w].row, site) /\ drafter \in Row
      /\ \A v \in Worker : worker[v].row \in Row
      /\ NoRow \in Row /\ NoRow.rev = 0
  BY NothingTyped DEF AgentInv, AgentTypes, Revisions, WorkerType
<1>3. site' \in Row /\ site'.data.profile \in Stamp /\ (site' = site \/ site'.rev = site.rev + 1)
  BY <1>1, <1>2, StoredTyped, StoredIsNext DEF Looks, Writes, AgentInv, AgentTypes
<1>4. /\ worker'[w] = x /\ \A v \in Worker : v # w => worker'[v] = worker[v]
      /\ worker' \in [Worker -> WorkerType]
  BY <1>1 DEF Step, Sound, AgentInv, AgentTypes
<1>5. AgentTypes'
  BY <1>3, <1>4 DEF Acts, JobsGoOn, AgentInv, AgentTypes
<1>6. NamedBy(x.row, site')
  <2>1. NamedBy(site', site') /\ NamedBy(NoRow, site')
    BY <1>2, <1>3 DEF NamedBy, Row, AgentInv, Revisions
  <2>2. NamedBy(worker[w].row, site')
    BY <1>2, <1>3, NamesStay
  <2> QED BY <1>1, <2>1, <2>2 DEF Looks, Writes
<1>7. Revisions'
  <2>1. site'.rev >= 1
    BY <1>2, <1>3 DEF AgentInv, Revisions, Row
  <2>2. NamedBy(drafter, site)' /\ \A v \in Worker : NamedBy(worker[v].row, site)'
    <3>1. \A v \in Worker : NamedBy(worker[v].row, site')
      BY <1>2, <1>3, NamesStay DEF AgentInv, Revisions
    <3>2. NamedBy(drafter, site') /\ drafter' = drafter
      BY <1>2, <1>3, NamesStay DEF AgentInv, Revisions, Acts
    <3> QED BY <1>4, <1>6, <3>1, <3>2
  <2>3. \A v \in Worker : worker'[v].pc \in Saving => worker'[v].row.rev # 0
    BY <1>1, <1>4 DEF Sound, AgentInv, Revisions
  <2> QED BY <2>1, <2>2, <2>3 DEF Revisions
<1>8. Left'
  BY <1>1, <1>4 DEF Acts, Sound, JobsGoOn, AgentInv, Left, CompletedIsKept
<1> QED BY <1>5, <1>7, <1>8 DEF AgentInv

\* After a step of anyone else, the map's revision names one content as before.
LEMMA MapKeeps ==
  ASSUME AgentInv, UNCHANGED <<job, worker>>, site' \in Row,
         site' = site \/ site'.rev = site.rev + 1, NamedBy(drafter', site')
  PROVE  Revisions' /\ Left'
<1>1. \A w \in Worker : NamedBy(worker[w].row, site')
  BY NamesStay DEF AgentInv, AgentTypes, Revisions, WorkerType
<1>2. site'.rev >= 1
  BY DEF AgentInv, AgentTypes, Revisions, Row
<1> QED BY <1>1, <1>2 DEF AgentInv, Revisions, Left, CompletedIsKept

\* The templates a draft projects from the profile it read.
Projected == [drafter.data EXCEPT !.templates = drafter.data.profile]

\* They are a map, and its profile is the one that was read.
LEMMA ProjectedTyped ==
  ASSUME AgentInv
  PROVE  Projected \in Map /\ Projected.profile = drafter.data.profile
<1>1. drafter.data \in Map
  BY DEF AgentInv, AgentTypes, Row
<1> QED BY <1>1 DEF Projected, Map, Key

\* No step leaves the invariant.
LEMMA AgentStep ==
  ASSUME AgentInv, [Next]_vars
  PROVE  AgentInv'
<1>0. /\ site \in Row /\ drafter \in Row /\ NamedBy(drafter, site) /\ site.data \in Map /\ site.rev >= 1
      /\ NoRow \in Row /\ NoRow.rev = 0
  BY NothingTyped DEF AgentInv, AgentTypes, Revisions, Row
<1>n. NamedBy(NoRow, site) /\ NamedBy(site, site)
  BY <1>0 DEF NamedBy, Row
<1>1. ASSUME NEW w \in Worker, Poll(w) \/ Crash(w) PROVE AgentInv'
  BY <1>1, WorkerActs, WorkerKeeps
<1>2. ASSUME NEW c \in Caller, Look(c) PROVE AgentInv'
  <2>1. Revisions' /\ Left'
    BY <1>0, <1>2, MapKeeps DEF Look
  <2> QED BY <1>2, <2>1 DEF Look, bounds, AgentInv, AgentTypes
<1>3. ASSUME NEW c \in Caller, Enqueue(c) PROVE AgentInv'
  <2>1. PICK j \in Job : job' = [job EXCEPT ![j].status = "queued"]
    BY <1>3 DEF Enqueue
  <2>2. /\ job' \in [Job -> JobType]
        /\ \A i \in Job : job'[i].kept = job[i].kept /\ job'[i].status \in {job[i].status, "queued"}
    BY <2>1 DEF AgentInv, AgentTypes, JobType, Status
  <2>3. Left'
    BY <1>3, <2>2 DEF Enqueue, AgentInv, Left, CompletedIsKept
  <2> QED BY <1>3, <2>2, <2>3 DEF Enqueue, bounds, AgentInv, AgentTypes, Revisions
<1>4. CASE DraftReads
  <2>1. Revisions' /\ Left'
    BY <1>0, <1>4, <1>n, MapKeeps DEF DraftReads
  <2> QED BY <1>4, <2>1 DEF DraftReads, bounds, AgentInv, AgentTypes
<1>5. CASE DraftProjects
  <2>1. site' \in Row /\ (site' = site \/ site'.rev = site.rev + 1) /\ site'.data.profile \in Stamp
    BY <1>0, <1>5, ProjectedTyped, StoredTyped, StoredIsNext, StoredProfile
       DEF DraftProjects, Projected, AgentInv, AgentTypes
  <2>2. drafter' = NoRow /\ NamedBy(NoRow, site')
    BY <1>0, <1>5, <1>n, <2>1, NamesStay DEF DraftProjects
  <2>3. UNCHANGED <<job, worker, caller, bounds>>
    BY <1>5 DEF DraftProjects
  <2>4. Revisions' /\ Left'
    BY <2>1, <2>2, <2>3, MapKeeps
  <2> QED BY <1>0, <2>1, <2>2, <2>3, <2>4 DEF bounds, AgentInv, AgentTypes
<1>6. CASE Edit
  <2>1. edits + 1 \in Nat /\ edits' \in 0 .. MaxEdit
    BY <1>6, Parameters DEF Edit, AgentInv, AgentTypes
  <2>2. site' \in Row /\ site'.rev = site.rev + 1 /\ site'.data.profile = site.data.profile
    BY <1>0, <1>6, <2>1 DEF Edit, Row, Map, Key
  <2>3. Revisions' /\ Left'
    BY <1>0, <1>6, <2>2, NamesStay, MapKeeps DEF Edit
  <2> QED BY <1>6, <2>1, <2>2, <2>3 DEF Edit, AgentInv, AgentTypes
<1>7. CASE UNCHANGED vars
  <2>1. Revisions' /\ Left'
    BY <1>0, <1>7, MapKeeps DEF vars
  <2> QED BY <1>7, <2>1 DEF vars, bounds, AgentInv, AgentTypes
<1> QED
  BY <1>1, <1>2, <1>3, <1>4, <1>5, <1>6, <1>7 DEF Next

\* Nothing is queued, read or derived at first.
LEMMA AgentInit == Init => AgentInv
<1> SUFFICES ASSUME Init PROVE AgentInv
  OBVIOUS
<1>1. site \in Row /\ site.rev = 1 /\ site.data.profile \in Stamp
  BY NothingTyped, Parameters DEF Init, NoRow, Row, Map, Key, None
<1>2. AgentTypes
  <2>1. job \in [Job -> JobType]
    BY DEF Init, JobType, Status
  <2>2. worker \in [Worker -> WorkerType] /\ drafter \in Row /\ caller \in [Caller -> BOOLEAN]
    BY NothingTyped DEF Init
  <2>3. 0 \in 0 .. MaxEdit /\ 0 \in 0 .. MaxCrash /\ 0 \in 0 .. MaxSlow /\ 0 \in 0 .. MaxFault
    BY Parameters
  <2> QED BY <1>1, <2>1, <2>2, <2>3, Parameters DEF Init, AgentTypes
<1>3. Revisions /\ Left
  <2>1. \A w \in Worker : worker[w].row = NoRow /\ worker[w].pc = "idle"
    BY DEF Init, Idle
  <2>2. NamedBy(NoRow, site) /\ drafter = NoRow
    BY <1>1, NothingTyped DEF NamedBy, Init
  <2>3. CompletedIsKept
    BY DEF Init, CompletedIsKept
  <2> QED BY <1>1, <2>1, <2>2, <2>3 DEF Revisions, Left, Saving
<1> QED BY <1>2, <1>3 DEF AgentInv

-----------------------------------------------------------------------------
(* The refinement.                                                         *)

Client == Worker \cup {Drafter}
Seen == [c \in Client |-> Held(IF c = Drafter THEN drafter ELSE worker[c].row)]
StoreNext == Store!Next \/ UNCHANGED <<site.data, Seen>>

\* What a client of the store sees changes with its own row only.
LEMMA SeenChanges ==
  ASSUME NEW c \in Client, NEW r, Held(r) = {} \/ Held(r) = {r.data},
         IF c = Drafter THEN drafter' = r /\ worker' = worker
         ELSE drafter' = drafter /\ worker'[c].row = r /\ \A v \in Worker : v # c => worker'[v] = worker[v]
  PROVE  Seen' = [Seen EXCEPT ![c] = Held(r)]
  BY Parameters DEF Seen, Client

\* A client that looks at the map or drops what it read.
LEMMA LookIsAbstract ==
  ASSUME NEW c \in Client, NEW r \in {NoRow, site}, site.rev # 0, site' = site,
         Seen' = [Seen EXCEPT ![c] = Held(r)]
  PROVE  StoreNext
<1>1. CASE r = NoRow
  <2>1. Seen' = [Seen EXCEPT ![c] = {}]
    BY <1>1, NothingTyped DEF Held
  <2> QED BY <2>1 DEF StoreNext, Store!Next, Store!Forget, Store!Holds, Seen, Client
<1>2. CASE r = site
  <2>1. Seen' = [Seen EXCEPT ![c] = {site.data}]
    BY <1>2 DEF Held
  <2> QED BY <2>1 DEF StoreNext, Store!Next, Store!Read, Store!Holds, Seen, Client
<1> QED BY <1>1, <1>2

\* A client that writes the map.
LEMMA WriteIsAbstract ==
  ASSUME site \in Row, NEW c \in Client, NEW read \in Row, Seen[c] = Held(read), read.rev # 0,
         NEW ours \in Map, NamedBy(read, site), Accepted(read, ours), site' = Stored(read, ours),
         Seen' = [Seen EXCEPT ![c] = {}] \/ Seen' = [Seen EXCEPT ![c] = {site'.data}]
  PROVE  StoreNext
<1>1. read.data \in Seen[c]
  BY DEF Held
<1>2. \A k \in Key : site'.data[k] # site.data[k] => site.data[k] = read.data[k]
  BY StoredTakesNothing
<1> QED BY <1>1, <1>2 DEF StoreNext, Store!Next, Store!Commit, Store!Holds, Seen, Client

\* Every step of a worker is a step of the store, or none.
LEMMA WorkerIsAbstract ==
  ASSUME AgentInv, NEW w \in Worker, Acts(w)
  PROVE  StoreNext
<1>1. PICK x : Step(w, x) /\ Sound(x) /\ (Looks(w, x) \/ Writes(w, x))
  BY DEF Acts
<1>2. /\ worker'[w] = x /\ (\A v \in Worker : v # w => worker'[v] = worker[v]) /\ drafter' = drafter
      /\ w \in Client /\ w # Drafter /\ site \in Row /\ site.rev # 0
      /\ worker[w].row \in Row /\ NamedBy(worker[w].row, site) /\ Seen[w] = Held(worker[w].row)
  BY <1>1, Parameters DEF Step, Acts, AgentInv, AgentTypes, Revisions, WorkerType, Row, Client, Seen
<1>3. Seen' = [Seen EXCEPT ![w] = Held(x.row)]
  BY <1>2, SeenChanges DEF Held
<1>4. CASE Looks(w, x)
  <2>1. CASE x.row = worker[w].row
    <3>1. Seen' = Seen
      BY <1>2, <1>3, <2>1 DEF Seen
    <3> QED BY <1>4, <3>1 DEF Looks, StoreNext
  <2>2. CASE x.row \in {NoRow, site}
    BY <1>2, <1>3, <1>4, <2>2, LookIsAbstract DEF Looks
  <2> QED BY <1>4, <2>1, <2>2 DEF Looks
<1>5. CASE Writes(w, x)
  <2>1. Held(x.row) = {} \/ Held(x.row) = {site'.data}
    BY <1>5, NothingTyped DEF Writes, Held
  <2>2. PICK ours \in Map : /\ worker[w].row.rev # 0 /\ Accepted(worker[w].row, ours)
                            /\ site' = Stored(worker[w].row, ours)
    BY <1>5 DEF Writes
  <2> QED BY <1>2, <1>3, <2>1, <2>2, WriteIsAbstract
<1> QED BY <1>1, <1>4, <1>5

\* Every step is a step of the store, or none.
LEMMA StepIsAbstract ==
  ASSUME AgentInv, [Next]_vars
  PROVE  StoreNext
<1>0. /\ site \in Row /\ drafter \in Row /\ NamedBy(drafter, site) /\ site.rev # 0
      /\ Drafter \in Client /\ Seen[Drafter] = Held(drafter)
  BY DEF AgentInv, AgentTypes, Revisions, Row, Client, Seen
<1>1. ASSUME NEW w \in Worker, Poll(w) \/ Crash(w) PROVE StoreNext
  BY <1>1, WorkerActs, WorkerIsAbstract
<1>2. ASSUME UNCHANGED <<site, worker, drafter>> PROVE StoreNext
  BY <1>2 DEF StoreNext, Seen
<1>3. ASSUME NEW c \in Caller, Look(c) \/ Enqueue(c) PROVE StoreNext
  BY <1>2, <1>3 DEF Look, Enqueue
<1>4. CASE DraftReads
  <2>1. Seen' = [Seen EXCEPT ![Drafter] = Held(site)]
    BY <1>0, <1>4, SeenChanges DEF DraftReads, Held
  <2> QED BY <1>0, <1>4, <2>1, LookIsAbstract DEF DraftReads
<1>5. CASE DraftProjects
  <2>1. Seen' = [Seen EXCEPT ![Drafter] = Held(NoRow)] /\ Held(NoRow) = {}
    BY <1>0, <1>5, NothingTyped, SeenChanges DEF DraftProjects, Held
  <2>2. CASE Accepted(drafter, Projected)
    BY <1>0, <1>5, <2>1, <2>2, ProjectedTyped, WriteIsAbstract DEF DraftProjects, Projected
  <2>3. CASE ~Accepted(drafter, Projected)
    BY <1>0, <1>5, <2>1, <2>3, LookIsAbstract DEF DraftProjects, Projected
  <2> QED BY <2>2, <2>3
<1>6. CASE Edit
  <2>1. \A k \in Key \ {"pages"} : site'.data[k] = site.data[k]
    BY <1>0, <1>6 DEF Edit, Row, Map, Key
  <2>2. Seen' = Seen
    BY <1>6 DEF Edit, Seen
  <2> QED BY <2>1, <2>2 DEF StoreNext, Store!Next, Store!Patch, Seen, Client
<1>7. CASE UNCHANGED vars
  BY <1>2, <1>7 DEF vars
<1> QED
  BY <1>1, <1>3, <1>4, <1>5, <1>6, <1>7 DEF Next

-----------------------------------------------------------------------------
(* How often a job goes back to the queue.                                 *)

\* The workers whose reclaim has read the job and will requeue it.
Requeuers(j) == {w \in Worker : worker[w].pc = "reclaiming" /\ worker[w].stale[j] \in 1 .. MaxReclaims}

Bound == MaxReclaims + (IF Cardinality(Worker) = 0 THEN 0 ELSE Cardinality(Worker) - 1)

\* What was requeued and what is about to be.
Requeued == \A j \in Job : job[j].reclaims + Cardinality(Requeuers(j)) <= Bound

\* Workers can be counted, one is one of them, and the bound is a number.
LEMMA Counting ==
  /\ Cardinality(Worker) \in Nat /\ Bound \in Nat
  /\ \A w \in Worker : Cardinality(Worker) >= 1
  /\ \A S \in SUBSET Worker : /\ IsFiniteSet(S) /\ Cardinality(S) \in Nat
                              /\ Cardinality(S) <= Cardinality(Worker)
<1>1. IsFiniteSet(Worker)
  BY DesignAgentAssumption
<1>2. Cardinality(Worker) \in Nat /\ (Cardinality(Worker) = 0 <=> Worker = {})
  BY <1>1, FS_CardinalityType, FS_EmptySet
<1>3. \A S \in SUBSET Worker : IsFiniteSet(S) /\ Cardinality(S) \in Nat /\ Cardinality(S) <= Cardinality(Worker)
  BY <1>1, FS_Subset, FS_CardinalityType
<1> QED BY <1>2, <1>3, Parameters DEF Bound

\* Nobody new has read the job and its count stays.
Calm(j) == job'[j].reclaims = job[j].reclaims /\ Requeuers(j)' \subseteq Requeuers(j)

\* Then no more is requeued.
LEMMA CalmKeeps ==
  ASSUME AgentInv, NEW j \in Job, Calm(j), job[j].reclaims + Cardinality(Requeuers(j)) <= Bound
  PROVE  job'[j].reclaims + Cardinality(Requeuers(j))' <= Bound
<1>1. Requeuers(j) \in SUBSET Worker /\ job[j].reclaims \in Nat
  BY DEF Requeuers, AgentInv, AgentTypes, JobType
<1>2. Requeuers(j)' \in SUBSET Worker
  BY <1>1 DEF Calm
<1>3. /\ IsFiniteSet(Requeuers(j)) /\ Cardinality(Requeuers(j)) \in Nat
      /\ Cardinality(Requeuers(j)') \in Nat /\ Requeuers(j)' \subseteq Requeuers(j)
  BY <1>1, <1>2, Counting DEF Calm
<1>4. Cardinality(Requeuers(j)') <= Cardinality(Requeuers(j))
  BY <1>3, FS_Subset
<1> QED BY <1>1, <1>3, <1>4, Counting DEF Calm

\* The worker that moves is not reading jobs after its step, and no count changes.
LEMMA CalmStep ==
  ASSUME AgentInv, NEW w \in Worker, NEW x, Step(w, x), x.pc # "reclaiming",
         \A j \in Job : job'[j].reclaims = job[j].reclaims
  PROVE  \A j \in Job : Calm(j)
<1>1. worker'[w] = x /\ \A v \in Worker : v # w => worker'[v] = worker[v]
  BY DEF Step, AgentInv, AgentTypes
<1> QED BY <1>1 DEF Calm, Requeuers

\* Only a reclaim reads jobs or counts.
LEMMA OthersCalm ==
  ASSUME AgentInv, NEW w \in Worker, Claim(w) \/ Run(w) \/ Crash(w)
  PROVE  \A j \in Job : Calm(j)
<1>0. worker[w] \in WorkerType /\ Idle.pc = "idle"
  BY DEF AgentInv, AgentTypes, Idle
<1>g. ASSUME NEW pc \in Place, pc # "reclaiming", Go(w, pc) PROVE \E x : Step(w, x) /\ x.pc # "reclaiming"
  BY <1>0, <1>g DEF Go, WorkerType
<1>f. Fail(w) => \E x : Step(w, x) /\ x.pc # "reclaiming"
  <2>1. [worker[w] EXCEPT !.pc = "failing", !.row = NoRow].pc # "reclaiming"
    BY <1>0 DEF WorkerType
  <2> QED BY <2>1 DEF Fail
<1>i. Step(w, Idle) => \E x : Step(w, x) /\ x.pc # "reclaiming"
  BY <1>0
<1>s. ASSUME NEW ours, NEW next \in {"projecting", "completing"}, Save(w, ours, next)
      PROVE  \E x : Step(w, x) /\ x.pc # "reclaiming"
  <2>1. CASE Accepted(worker[w].row, ours)
    <3>1. PICK r : Step(w, [worker[w] EXCEPT !.pc = next, !.row = r])
      BY <1>s, <2>1 DEF Save, Step
    <3>2. [worker[w] EXCEPT !.pc = next, !.row = r].pc # "reclaiming"
      BY <1>0 DEF WorkerType
    <3> QED BY <3>1, <3>2
  <2> QED BY <1>f, <1>s, <2>1 DEF Save
<1>1. \E x : Step(w, x) /\ x.pc # "reclaiming"
  <2>1. CASE Claim(w)
    <3>1. PICK j : Step(w, [Idle EXCEPT !.pc = "claimed", !.job = j, !.attempt = 1])
      BY <2>1 DEF Claim
    <3>2. [Idle EXCEPT !.pc = "claimed", !.job = j, !.attempt = 1].pc # "reclaiming"
      BY DEF Idle
    <3> QED BY <3>1, <3>2
  <2>2. CASE LogClaim(w)
    BY <2>2, <1>g, <1>i DEF LogClaim, Place, Trying, Saving
  <2>3. CASE Derive(w)
    <3>1. [worker[w] EXCEPT !.pc = "fetching", !.out = stamps + 1, !.at = stamps + 1].pc = "fetching"
      BY <1>0 DEF WorkerType
    <3> QED BY <2>3, <3>1 DEF Derive
  <2>4. CASE Rescan(w)
    <3>1. [worker[w] EXCEPT !.pc = "fetching", !.out = site.data.profile, !.at = stamps + 1].pc = "fetching"
      BY <1>0 DEF WorkerType
    <3> QED BY <2>4, <3>1 DEF Rescan
  <2>5. CASE HandlerThrows(w)
    <3>1. CASE Fail(w)
      BY <1>f, <3>1
    <3>2. CASE Step(w, [worker[w] EXCEPT !.attempt = @ + 1])
      <4>1. [worker[w] EXCEPT !.attempt = @ + 1].pc = "handling"
        BY <1>0, <2>5 DEF HandlerThrows, WorkerType
      <4> QED BY <3>2, <4>1
    <3> QED BY <2>5, <3>1, <3>2 DEF HandlerThrows
  <2>6. CASE FetchSite(w)
    <3>1. [worker[w] EXCEPT !.pc = IF Skipped(w) THEN "refreshing" ELSE "saving", !.row = site].pc # "reclaiming"
      BY <1>0 DEF WorkerType
    <3> QED BY <2>6, <3>1 DEF FetchSite
  <2>7. CASE Refresh(w) \/ SaveProfile(w) \/ SaveTemplates(w)
    BY <2>7, <1>s DEF Refresh, SaveProfile, SaveTemplates
  <2>8. CASE FinishCompleted(w) \/ FinishFailed(w) \/ Crash(w)
    BY <2>8, <1>i DEF FinishCompleted, FinishFailed, Finish, Crash
  <2>9. CASE TryThrows(w)
    BY <2>9, <1>f DEF TryThrows
  <2> QED BY <2>1, <2>2, <2>3, <2>4, <2>5, <2>6, <2>7, <2>8, <2>9 DEF Run
<1>2. \A j \in Job : job'[j].reclaims = job[j].reclaims
  <2>1. \/ UNCHANGED job
        \/ \E i, status : job' = [job EXCEPT ![i].status = status]
        \/ \E i : job' = [job EXCEPT ![i].kept = TRUE]
    BY DEF Claim, Run, Crash, LogClaim, Derive, Rescan, HandlerThrows, FetchSite, Refresh, SaveProfile,
       SaveTemplates, Save, FinishCompleted, FinishFailed, Finish, TryThrows
  <2> QED BY <2>1 DEF AgentInv, AgentTypes, JobType
<1> QED BY <1>1, <1>2, CalmStep

\* A job is read again only while its count is below MAX_RECLAIMS, and every worker counts
\* it once for what it read.
LEMMA RequeuedStep ==
  ASSUME AgentInv, Requeued, [Next]_vars
  PROVE  Requeued'
<1> SUFFICES ASSUME NEW j \in Job PROVE job'[j].reclaims + Cardinality(Requeuers(j))' <= Bound
  BY DEF Requeued, Bound
<1>0. /\ job[j].reclaims + Cardinality(Requeuers(j)) <= Bound /\ job[j].reclaims \in Nat
      /\ Requeuers(j) \in SUBSET Worker /\ Requeuers(j)' \in SUBSET Worker
  BY DEF Requeued, Requeuers, AgentInv, AgentTypes, JobType
<1>c. Calm(j) => job'[j].reclaims + Cardinality(Requeuers(j))' <= Bound
  BY <1>0, CalmKeeps
<1>1. ASSUME NEW w \in Worker, ReclaimRead(w) PROVE job'[j].reclaims + Cardinality(Requeuers(j))' <= Bound
  <2>1. PICK S : Step(w, [Idle EXCEPT !.pc = "reclaiming",
                                      !.stale = [i \in Job |-> IF i \in S THEN job[i].reclaims + 1 ELSE 0]])
    BY <1>1 DEF ReclaimRead
  <2>2. /\ worker'[w].stale[j] = IF j \in S THEN job[j].reclaims + 1 ELSE 0
        /\ \A v \in Worker : v # w => worker'[v] = worker[v]
    BY <2>1 DEF Step, AgentInv, AgentTypes, Idle
  <2>3. job'[j].reclaims = job[j].reclaims
    BY <1>1 DEF ReclaimRead
  <2>4. CASE w \notin Requeuers(j)'
    BY <1>c, <2>2, <2>3, <2>4 DEF Calm, Requeuers
  <2>5. CASE w \in Requeuers(j)'
    <3>1. job[j].reclaims + 1 <= MaxReclaims
      BY <1>0, <2>2, <2>5, Parameters DEF Requeuers
    <3>2. Cardinality(Requeuers(j)') \in Nat /\ Cardinality(Requeuers(j)') <= Cardinality(Worker)
      BY <1>0, Counting
    <3> QED BY <1>0, <2>3, <3>1, <3>2, Counting, Parameters DEF Bound
  <2> QED BY <2>4, <2>5
<1>2. ASSUME NEW w \in Worker, ReclaimWrite(w) PROVE job'[j].reclaims + Cardinality(Requeuers(j))' <= Bound
  <2>1. /\ job'[j] = Reclaimed(j, worker[w].stale[j]) /\ worker[w].stale[j] \in Nat
        /\ worker[w].pc = "reclaiming" /\ Step(w, Idle) /\ Idle.pc # "reclaiming"
    BY <1>2 DEF ReclaimWrite, AgentInv, AgentTypes, WorkerType, Idle
  <2>2. Requeuers(j)' = Requeuers(j) \ {w}
    BY <2>1 DEF Requeuers, Step, AgentInv, AgentTypes
  <2>3. CASE w \in Requeuers(j)
    <3>1. job'[j].reclaims = job[j].reclaims + 1
      BY <2>1, <2>3, Parameters DEF Reclaimed, Requeuers, AgentInv, AgentTypes, JobType
    <3>2. IsFiniteSet(Requeuers(j)) /\ Cardinality(Requeuers(j)) \in Nat
      BY <1>0, Counting
    <3>3. Cardinality(Requeuers(j)') = Cardinality(Requeuers(j)) - 1
      BY <2>2, <2>3, <3>2, FS_RemoveElement
    <3> QED BY <1>0, <3>1, <3>2, <3>3, Counting
  <2>4. CASE w \notin Requeuers(j)
    <3>1. job'[j].reclaims = job[j].reclaims
      BY <2>1, <2>4, Parameters DEF Reclaimed, Requeuers, AgentInv, AgentTypes, JobType
    <3> QED BY <1>c, <2>2, <3>1 DEF Calm
  <2> QED BY <2>3, <2>4
<1>3. ASSUME NEW w \in Worker, Claim(w) \/ Run(w) \/ Crash(w)
      PROVE  job'[j].reclaims + Cardinality(Requeuers(j))' <= Bound
  BY <1>c, <1>3, OthersCalm
<1>4. ASSUME worker' = worker, job'[j].reclaims = job[j].reclaims
      PROVE  job'[j].reclaims + Cardinality(Requeuers(j))' <= Bound
  BY <1>c, <1>4 DEF Calm, Requeuers
<1>5. ASSUME NEW c \in Caller, Look(c) \/ Enqueue(c) PROVE worker' = worker /\ job'[j].reclaims = job[j].reclaims
  BY <1>5 DEF Look, Enqueue, AgentInv, AgentTypes, JobType
<1>6. CASE DraftReads \/ DraftProjects \/ Edit \/ UNCHANGED vars
  BY <1>4, <1>6 DEF DraftReads, DraftProjects, Edit, vars
<1> QED
  BY <1>1, <1>2, <1>3, <1>4, <1>5, <1>6 DEF Next, Poll

-----------------------------------------------------------------------------
(* A save puts what was derived.                                           *)

Has(r, n) == r.data.profile = n \/ r.data.templates = n

\* Nobody but the workers in W has derivation n, and no map that is stored or held shows it.
Unseen(n, W) ==
  /\ ~Has(site, n) /\ ~Has(drafter, n)
  /\ \A v \in Worker : ~Has(worker[v].row, n) /\ (v \notin W => worker[v].out # n)

\* A new derivation is with its worker alone until it is saved; what is saved is new, and
\* its templates are not there before the second save.
Fresh ==
  /\ \A n \in Nat : n > stamps => Unseen(n, {})
  /\ \A w \in Worker :
       /\ worker[w].pc \in {"fetching", "saving"} /\ worker[w].out = worker[w].at
            => worker[w].out # None /\ Unseen(worker[w].out, {w})
       /\ worker[w].pc = "saving" => worker[w].out = worker[w].at
       /\ worker[w].pc = "projecting" => worker[w].row.data.templates # worker[w].out

\* A worker moves alone, and nobody else touches the drafter's row.
Alone(w) == drafter' = drafter /\ \A v \in Worker : v # w => worker'[v] = worker[v]

\* It goes on with what it has, or with what the map has ...
Quietly(w) ==
  LET x == worker'[w]
  IN  /\ site' = site /\ stamps' \in {stamps, stamps + 1}
      /\ x.row \in {worker[w].row, NoRow, site}
      /\ x.out \in {worker[w].out, None, site.data.profile}
      /\ x.pc \notin {"projecting", "completing"}
      /\ x.pc = "fetching" => x.out = site.data.profile /\ x.at = stamps + 1
      /\ x.pc = "saving" => /\ worker[w].pc = "fetching" /\ x.out = x.at
                            /\ x.out = worker[w].out /\ x.at = worker[w].at

\* ... derives a profile ...
Derives(w) ==
  LET x == worker'[w]
  IN  /\ site' = site /\ stamps' = stamps + 1
      /\ x.pc = "fetching" /\ x.out = stamps + 1 /\ x.row = worker[w].row

\* ... or writes its outcome to the map.
Puts(w) ==
  LET x == worker'[w]
      read == worker[w].row
      out == worker[w].out
  IN  \E ours \in Map :
        /\ site' = Stored(read, ours) /\ stamps' = stamps
        /\ ours.profile \in {read.data.profile, out}
        /\ ours.templates \in {read.data.templates, out}
        /\ x.row \in {NoRow, site'} /\ x.out = out
        /\ x.pc = IF worker[w].pc = "saving" THEN "projecting" ELSE "completing"
        /\ worker[w].pc = "saving" => ours.profile = out /\ ours.templates = read.data.templates
        /\ worker[w].pc = "projecting" => ours.templates = out

\* A worker that goes to another place with what it has.
LEMMA StepsTo ==
  ASSUME AgentInv, NEW w \in Worker, NEW x, Step(w, x)
  PROVE  worker'[w] = x /\ \A v \in Worker : v # w => worker'[v] = worker[v]
  BY DEF Step, AgentInv, AgentTypes

\* Every step of a worker is one of these.
LEMMA MovesFresh ==
  ASSUME AgentInv, NEW w \in Worker, Poll(w) \/ Crash(w)
  PROVE  Alone(w) /\ (Quietly(w) \/ Derives(w) \/ Puts(w))
<1>0. /\ worker[w] \in WorkerType /\ worker[w].row \in Row /\ worker[w].row.data \in Map
      /\ worker[w].out \in Nat /\ worker[w].at \in Nat
  BY Parameters DEF AgentInv, AgentTypes, WorkerType, Row
<1>d. drafter' = drafter
  BY DEF Poll, Run, Crash, ReclaimRead, ReclaimWrite, Claim, LogClaim, Derive, Rescan, HandlerThrows, FetchSite,
     Refresh, SaveProfile, SaveTemplates, FinishCompleted, FinishFailed, TryThrows
<1>q. ASSUME NEW x, Step(w, x), site' = site, stamps' = stamps, x.row \in {worker[w].row, NoRow},
             x.out \in {worker[w].out, None}, x.pc \notin Saving \cup {"completing", "fetching"}
      PROVE  Alone(w) /\ Quietly(w)
  BY <1>d, <1>q, StepsTo DEF Alone, Quietly, Saving
<1>i. ASSUME Step(w, Idle), site' = site, stamps' = stamps PROVE Alone(w) /\ Quietly(w)
  <2>1. Idle.row = NoRow /\ Idle.out = None /\ Idle.pc = "idle"
    BY DEF Idle
  <2> QED BY <1>i, <1>q, <2>1 DEF Saving
<1>f. ASSUME Fail(w), site' = site, stamps' = stamps PROVE Alone(w) /\ Quietly(w)
  <2>1. LET x == [worker[w] EXCEPT !.pc = "failing", !.row = NoRow]
        IN  x.row = NoRow /\ x.out = worker[w].out /\ x.pc = "failing"
    BY <1>0 DEF WorkerType
  <2> QED BY <1>f, <1>q, <2>1 DEF Fail, Saving
<1>1. CASE ReclaimRead(w)
  <2>1. PICK stale : Step(w, [Idle EXCEPT !.pc = "reclaiming", !.stale = stale])
    BY <1>1 DEF ReclaimRead
  <2>2. LET x == [Idle EXCEPT !.pc = "reclaiming", !.stale = stale]
        IN  x.row = NoRow /\ x.out = None /\ x.pc = "reclaiming"
    BY DEF Idle
  <2> QED BY <1>1, <1>q, <2>1, <2>2 DEF ReclaimRead, Saving
<1>2. CASE ReclaimWrite(w) \/ FinishCompleted(w) \/ FinishFailed(w) \/ Crash(w)
  BY <1>2, <1>i DEF ReclaimWrite, FinishCompleted, FinishFailed, Finish, Crash, bounds
<1>3. CASE Claim(w)
  <2>1. PICK j : Step(w, [Idle EXCEPT !.pc = "claimed", !.job = j, !.attempt = 1])
    BY <1>3 DEF Claim
  <2>2. LET x == [Idle EXCEPT !.pc = "claimed", !.job = j, !.attempt = 1]
        IN  x.row = NoRow /\ x.out = None /\ x.pc = "claimed"
    BY DEF Idle
  <2> QED BY <1>3, <1>q, <2>1, <2>2 DEF Claim, bounds, Saving
<1>4. CASE LogClaim(w)
  <2>1. CASE Go(w, "handling")
    <3>1. LET x == [worker[w] EXCEPT !.pc = "handling"]
          IN  x.row = worker[w].row /\ x.out = worker[w].out /\ x.pc = "handling"
      BY <1>0 DEF WorkerType
    <3> QED BY <1>4, <1>q, <2>1, <3>1 DEF LogClaim, Go, Saving
  <2> QED BY <1>4, <1>i, <2>1 DEF LogClaim
<1>5. CASE Derive(w)
  <2>1. LET x == [worker[w] EXCEPT !.pc = "fetching", !.out = stamps + 1, !.at = stamps + 1]
        IN  x.row = worker[w].row /\ x.out = stamps + 1 /\ x.pc = "fetching"
    BY <1>0 DEF WorkerType
  <2> QED BY <1>5, <1>d, <2>1, StepsTo DEF Derive, Derives, Alone
<1>6. CASE Rescan(w)
  <2>1. LET x == [worker[w] EXCEPT !.pc = "fetching", !.out = site.data.profile, !.at = stamps + 1]
        IN  x.row = worker[w].row /\ x.out = site.data.profile /\ x.at = stamps + 1 /\ x.pc = "fetching"
    BY <1>0 DEF WorkerType
  <2> QED BY <1>6, <1>d, <2>1, StepsTo DEF Rescan, Quietly, Alone
<1>7. CASE HandlerThrows(w)
  <2>1. CASE Step(w, [worker[w] EXCEPT !.attempt = @ + 1])
    <3>1. LET x == [worker[w] EXCEPT !.attempt = @ + 1]
          IN  x.row = worker[w].row /\ x.out = worker[w].out /\ x.pc = "handling"
      BY <1>0, <1>7 DEF HandlerThrows, WorkerType
    <3> QED BY <1>7, <1>q, <2>1, <3>1 DEF HandlerThrows, bounds, Saving
  <2> QED BY <1>7, <1>f, <2>1 DEF HandlerThrows, bounds
<1>8. CASE FetchSite(w)
  <2>1. LET x == [worker[w] EXCEPT !.pc = IF Skipped(w) THEN "refreshing" ELSE "saving", !.row = site]
        IN  /\ x.row = site /\ x.out = worker[w].out /\ x.at = worker[w].at
            /\ x.pc = IF Skipped(w) THEN "refreshing" ELSE "saving"
    BY <1>0 DEF WorkerType
  <2>2. worker[w].pc = "fetching" /\ UNCHANGED <<site, stamps>>
    BY <1>8 DEF FetchSite, bounds
  <2>3. /\ worker'[w] = [worker[w] EXCEPT !.pc = IF Skipped(w) THEN "refreshing" ELSE "saving", !.row = site]
        /\ \A v \in Worker : v # w => worker'[v] = worker[v]
    BY <1>8, StepsTo DEF FetchSite
  <2>4. /\ worker'[w].row = site /\ worker'[w].out = worker[w].out /\ worker'[w].at = worker[w].at
        /\ worker'[w].pc \in {"refreshing", "saving"}
        /\ worker'[w].pc = "saving" => worker[w].out = worker[w].at
    BY <2>1, <2>3 DEF Skipped
  <2> QED BY <1>d, <2>2, <2>3, <2>4 DEF Quietly, Alone
<1>9. CASE TryThrows(w)
  BY <1>9, <1>f DEF TryThrows
<1>s. ASSUME NEW ours \in Map, NEW next \in {"projecting", "completing"}, Save(w, ours, next),
             UNCHANGED bounds,
             ours.profile \in {worker[w].row.data.profile, worker[w].out},
             ours.templates \in {worker[w].row.data.templates, worker[w].out},
             next = "projecting" <=> worker[w].pc = "saving",
             worker[w].pc = "saving" => /\ ours.profile = worker[w].out
                                        /\ ours.templates = worker[w].row.data.templates,
             worker[w].pc = "projecting" => ours.templates = worker[w].out
      PROVE  Alone(w) /\ (Quietly(w) \/ Puts(w))
  <2>1. CASE ~Accepted(worker[w].row, ours)
    BY <1>f, <1>s, <2>1 DEF Save, bounds
  <2>2. CASE Accepted(worker[w].row, ours)
    <3>1. /\ site' = Stored(worker[w].row, ours)
          /\ worker' = [worker EXCEPT ![w] = [worker[w] EXCEPT !.pc = next,
                                                !.row = IF next = "projecting" THEN site' ELSE NoRow]]
      BY <1>s, <2>2 DEF Save, Step
    <3>2. /\ worker'[w].row \in {NoRow, site'} /\ worker'[w].out = worker[w].out /\ worker'[w].pc = next
          /\ \A v \in Worker : v # w => worker'[v] = worker[v]
      BY <1>0, <3>1 DEF AgentInv, AgentTypes, WorkerType
    <3>3. Alone(w)
      BY <1>d, <3>2 DEF Alone
    <3>4. stamps' = stamps
      BY <1>s DEF bounds
    <3>5. worker'[w].pc = IF worker[w].pc = "saving" THEN "projecting" ELSE "completing"
      BY <1>s, <3>2
    <3>6. site' = Stored(worker[w].row, ours)
      BY <3>1
    <3>7. Puts(w)
      BY <1>s, <3>2, <3>4, <3>5, <3>6 DEF Puts
    <3> QED BY <3>3, <3>7
  <2> QED BY <2>1, <2>2
<1>10. CASE Refresh(w)
  <2> DEFINE ours == [worker[w].row.data EXCEPT !.profile = worker[w].out, !.checked = worker[w].at]
  <2>1. ours \in Map /\ ours.profile = worker[w].out /\ ours.templates = worker[w].row.data.templates
    BY <1>0 DEF Map, Key
  <2>2. Save(w, ours, "completing") /\ UNCHANGED bounds /\ worker[w].pc = "refreshing"
    BY <1>10 DEF Refresh
  <2> HIDE DEF ours
  <2> QED BY <1>s, <2>1, <2>2
<1>11. CASE SaveProfile(w)
  <2> DEFINE ours == [worker[w].row.data EXCEPT !.profile = worker[w].out, !.checked = None]
  <2>1. ours \in Map /\ ours.profile = worker[w].out /\ ours.templates = worker[w].row.data.templates
    BY <1>0 DEF Map, Key, None
  <2>2. Save(w, ours, "projecting") /\ UNCHANGED bounds /\ worker[w].pc = "saving"
    BY <1>11 DEF SaveProfile
  <2> HIDE DEF ours
  <2> QED BY <1>s, <2>1, <2>2
<1>12. CASE SaveTemplates(w)
  <2> DEFINE ours == [worker[w].row.data EXCEPT !.templates = worker[w].out]
  <2>1. ours \in Map /\ ours.templates = worker[w].out /\ ours.profile = worker[w].row.data.profile
    BY <1>0 DEF Map, Key
  <2>2. Save(w, ours, "completing") /\ UNCHANGED bounds /\ worker[w].pc = "projecting"
    BY <1>12 DEF SaveTemplates
  <2> HIDE DEF ours
  <2> QED BY <1>s, <2>1, <2>2
<1> QED
  BY <1>1, <1>2, <1>3, <1>4, <1>5, <1>6, <1>7, <1>8, <1>9, <1>10, <1>11, <1>12 DEF Poll, Run

\* A place holds after a write what the map had there or what the writer put.
LEMMA StoredPlace ==
  ASSUME site \in Row, NEW read \in Row, NEW ours \in Map
  PROVE  /\ Stored(read, ours).data.profile \in {site.data.profile, ours.profile}
         /\ Stored(read, ours).data.templates \in {site.data.templates, ours.templates}
         /\ ours.profile # read.data.profile => Stored(read, ours).data.profile = ours.profile
         /\ ours.templates # read.data.templates => Stored(read, ours).data.templates = ours.templates
<1>1. CASE read.rev = site.rev
  BY <1>1 DEF Stored
<1>2. CASE read.rev # site.rev
  <2>1. Stored(read, ours).data = Merged(read.data, site.data, ours)
    BY <1>2 DEF Stored
  <2> QED BY <2>1 DEF Merged, Key
<1> QED BY <1>1, <1>2

\* What nobody has stays so through a worker's step that neither derives it nor saves it.
LEMMA UnseenMove ==
  ASSUME AgentInv, NEW w \in Worker, Alone(w), NEW n, NEW W, Unseen(n, W),
         w \notin W => worker'[w].out # n, ~Has(worker'[w].row, n), ~Has(site', n)
  PROVE  Unseen(n, W)'
  BY DEF Unseen, Alone, Has

\* A worker's step does not show what it does not have itself.
LEMMA UnseenQuiet ==
  ASSUME AgentInv, NEW w \in Worker, Alone(w), NEW n \in Nat, n # None, NEW W, Unseen(n, W),
         Quietly(w) \/ (Derives(w) /\ (w \in W \/ n # stamps + 1)) \/ (Puts(w) /\ w \notin W)
  PROVE  Unseen(n, W)'
<1>0. /\ ~Has(site, n) /\ ~Has(worker[w].row, n) /\ ~Has(NoRow, n)
      /\ w \notin W => worker[w].out # n
  BY DEF Unseen, Has, NoRow, Key
<1>1. CASE Quietly(w)
  <2>1. site' = site /\ ~Has(worker'[w].row, n) /\ (w \notin W => worker'[w].out # n)
    BY <1>0, <1>1 DEF Quietly, Has
  <2> QED BY <1>0, <2>1, UnseenMove DEF Has
<1>2. CASE Derives(w) /\ (w \in W \/ n # stamps + 1)
  <2>1. site' = site /\ ~Has(worker'[w].row, n) /\ (w \notin W => worker'[w].out # n)
    BY <1>0, <1>2 DEF Derives
  <2> QED BY <1>0, <2>1, UnseenMove DEF Has
<1>3. CASE Puts(w) /\ w \notin W
  <2>1. PICK ours \in Map : /\ site' = Stored(worker[w].row, ours)
                            /\ ours.profile \in {worker[w].row.data.profile, worker[w].out}
                            /\ ours.templates \in {worker[w].row.data.templates, worker[w].out}
    BY <1>3 DEF Puts
  <2>2. site \in Row /\ worker[w].row \in Row
    BY DEF AgentInv, AgentTypes, WorkerType
  <2>3. ~Has(site', n)
    BY <1>0, <1>3, <2>1, <2>2, StoredPlace DEF Has
  <2>4. ~Has(worker'[w].row, n) /\ worker'[w].out # n
    BY <1>0, <1>3, <2>3 DEF Puts, Has
  <2> QED BY <1>0, <2>3, <2>4, UnseenMove
<1> QED BY <1>1, <1>2, <1>3

\* After a worker's step what is derived is where it was said to be.
LEMMA FreshMove ==
  ASSUME AgentInv, Fresh, NEW w \in Worker, Alone(w), Quietly(w) \/ Derives(w) \/ Puts(w)
  PROVE  Fresh'
<1>0. /\ stamps \in Nat /\ stamps' \in Nat /\ stamps' >= stamps /\ None = 0
      /\ site \in Row /\ worker[w].row \in Row
  BY Parameters DEF AgentInv, AgentTypes, WorkerType, Quietly, Derives, Puts, None
<1>1. ASSUME NEW n \in Nat, n > stamps' PROVE Unseen(n, {})'
  <2>1. n > stamps /\ n # None /\ Unseen(n, {})
    BY <1>0, <1>1 DEF Fresh
  <2>2. Derives(w) => n # stamps + 1
    BY <1>0, <1>1 DEF Derives
  <2> QED BY <2>1, <2>2, UnseenQuiet
<1>2. ASSUME NEW v \in Worker, worker'[v].pc \in {"fetching", "saving"}, worker'[v].out = worker'[v].at
      PROVE  worker'[v].out # None /\ Unseen(worker[v].out, {v})'
  <2>1. CASE v # w
    <3> DEFINE n == worker[v].out
    <3>1. worker'[v] = worker[v]
      BY <2>1 DEF Alone
    <3>2. n \in Nat /\ n # None /\ Unseen(n, {v})
      BY <1>2, <3>1, Parameters DEF Fresh, AgentInv, AgentTypes, WorkerType
    <3>3. n # stamps + 1
      <4>1. CASE n = stamps + 1
        BY <1>0, <4>1 DEF Fresh, Unseen
      <4> QED BY <4>1
    <3>4. Unseen(n, {v})'
      <4>1. ASSUME NEW m, m = n PROVE Unseen(m, {v})'
        BY <2>1, <3>2, <3>3, <4>1, UnseenQuiet
      <4> QED BY <3>1, <4>1 DEF Unseen
    <3> QED BY <3>1, <3>2, <3>4
  <2>2. CASE v = w /\ Quietly(w)
    <3>1. worker'[w].pc # "fetching"
      <4>1. CASE worker'[w].pc = "fetching"
        <5>1. site.data.profile = stamps + 1
          BY <1>2, <2>2, <4>1 DEF Quietly
        <5>2. ~Has(site, stamps + 1)
          BY <1>0 DEF Fresh, Unseen
        <5> QED BY <5>1, <5>2 DEF Has
      <4> QED BY <4>1
    <3>2. /\ worker[w].pc = "fetching" /\ worker[w].out = worker[w].at /\ worker'[w].out = worker[w].out
      BY <1>2, <2>2, <3>1 DEF Quietly
    <3>3. worker[w].out \in Nat /\ worker[w].out # None /\ Unseen(worker[w].out, {w})
      BY <3>2, Parameters DEF Fresh, AgentInv, AgentTypes, WorkerType
    <3>4. ASSUME NEW m, m = worker[w].out PROVE Unseen(m, {w})'
      BY <2>2, <3>3, <3>4, UnseenQuiet
    <3> QED BY <2>2, <3>2, <3>3, <3>4
  <2>3. CASE v = w /\ Derives(w)
    <3>1. worker'[w].out = stamps + 1 /\ stamps + 1 \in Nat /\ stamps + 1 # None
      BY <1>0, <2>3 DEF Derives
    <3>2. Unseen(stamps + 1, {w})
      BY <1>0, <3>1 DEF Fresh, Unseen
    <3>3. ASSUME NEW m, m = stamps + 1 PROVE Unseen(m, {w})'
      BY <2>3, <3>1, <3>2, <3>3, UnseenQuiet
    <3> QED BY <2>3, <3>1, <3>3
  <2>4. CASE v = w /\ Puts(w)
    BY <1>2, <2>4 DEF Puts
  <2> QED BY <2>1, <2>2, <2>3, <2>4
<1>3. ASSUME NEW v \in Worker, worker'[v].pc = "saving" PROVE worker'[v].out = worker'[v].at
  BY <1>3 DEF Fresh, Alone, Quietly, Derives, Puts
<1>4. ASSUME NEW v \in Worker, worker'[v].pc = "projecting"
      PROVE  worker'[v].row.data.templates # worker'[v].out
  <2>1. CASE v # w
    BY <1>4, <2>1 DEF Fresh, Alone
  <2>2. CASE v = w
    <3>1. Puts(w) /\ worker[w].pc = "saving"
      BY <1>4, <2>2 DEF Quietly, Derives, Puts
    <3>2. worker[w].out # None /\ Unseen(worker[w].out, {w})
      BY <3>1 DEF Fresh
    <3>3. PICK ours \in Map : /\ site' = Stored(worker[w].row, ours)
                              /\ ours.templates = worker[w].row.data.templates
      BY <3>1 DEF Puts
    <3>4. site'.data.templates # worker[w].out
      BY <1>0, <3>2, <3>3, StoredPlace DEF Unseen, Has
    <3>5. NoRow.data.templates = None
      BY DEF NoRow, Key
    <3> QED BY <2>2, <3>1, <3>2, <3>4, <3>5 DEF Puts
  <2> QED BY <2>1, <2>2
<1> QED BY <1>1, <1>2, <1>3, <1>4 DEF Fresh

\* Nobody else shows a derivation that is not in the map or with the drafter.
LEMMA FreshElsewhere ==
  ASSUME AgentInv, Fresh, UNCHANGED <<worker, stamps>>,
         \A n \in Nat : n # None /\ ~Has(site, n) /\ ~Has(drafter, n) => ~Has(site', n) /\ ~Has(drafter', n)
  PROVE  Fresh'
<1>0. stamps \in Nat /\ None = 0 /\ \A w \in Worker : worker[w].out \in Nat
  BY Parameters DEF AgentInv, AgentTypes, WorkerType, None
<1>1. ASSUME NEW n \in Nat, n # None, NEW W, Unseen(n, W) PROVE Unseen(n, W)'
  BY <1>1 DEF Unseen, Has
<1>2. ASSUME NEW n \in Nat, n > stamps' PROVE Unseen(n, {})'
  <2>1. n # None /\ Unseen(n, {})
    BY <1>0, <1>2 DEF Fresh
  <2> QED BY <1>1, <2>1
<1>3. ASSUME NEW w \in Worker, worker[w].pc \in {"fetching", "saving"}, worker[w].out = worker[w].at
      PROVE  worker[w].out # None /\ Unseen(worker[w].out, {w})'
  <2>1. worker[w].out # None /\ Unseen(worker[w].out, {w})
    BY <1>3 DEF Fresh
  <2>2. ASSUME NEW m, m = worker[w].out PROVE Unseen(m, {w})'
    BY <1>0, <1>1, <2>1, <2>2
  <2> QED BY <2>1, <2>2
<1> QED BY <1>2, <1>3 DEF Fresh

\* No step of anyone shows a derivation before it is saved.
LEMMA FreshStep ==
  ASSUME AgentInv, Fresh, [Next]_vars
  PROVE  Fresh'
<1>0. site \in Row /\ drafter \in Row
  BY DEF AgentInv, AgentTypes
<1>n. \A n \in Nat : n # None => ~Has(NoRow, n)
  BY DEF Has, NoRow, Key
<1>1. ASSUME NEW w \in Worker, Poll(w) \/ Crash(w) PROVE Fresh'
  BY <1>1, MovesFresh, FreshMove
<1>2. ASSUME NEW c \in Caller, Look(c) \/ Enqueue(c) PROVE Fresh'
  BY <1>2, FreshElsewhere DEF Look, Enqueue, bounds, Has
<1>3. CASE DraftReads
  BY <1>3, FreshElsewhere DEF DraftReads, bounds, Has
<1>4. CASE DraftProjects
  <2>1. ASSUME NEW n \in Nat, n # None, ~Has(site, n), ~Has(drafter, n)
        PROVE  ~Has(site', n) /\ ~Has(drafter', n)
    <3>1. Projected \in Map /\ Projected.profile # n /\ Projected.templates # n
      <4>1. drafter.data \in Map
        BY <1>0 DEF Row
      <4>2. Projected \in Map /\ Projected.profile = drafter.data.profile /\ Projected.templates = drafter.data.profile
        BY <4>1 DEF Projected, Map, Key
      <4> QED BY <2>1, <4>2 DEF Has
    <3>2. ~Has(Stored(drafter, Projected), n)
      BY <1>0, <2>1, <3>1, StoredPlace DEF Has
    <3> QED BY <1>4, <1>n, <2>1, <3>2 DEF DraftProjects, Projected
  <2> QED BY <1>4, <2>1, FreshElsewhere DEF DraftProjects, bounds
<1>5. CASE Edit
  <2>1. site'.data.profile = site.data.profile /\ site'.data.templates = site.data.templates
    BY <1>0, <1>5 DEF Edit, Row, Map, Key
  <2> QED BY <1>5, <2>1, FreshElsewhere DEF Edit, Has
<1>6. CASE UNCHANGED vars
  BY <1>6, FreshElsewhere DEF vars, Has
<1> QED
  BY <1>1, <1>2, <1>3, <1>4, <1>5, <1>6 DEF Next

\* A save stores what the worker derived, because no map held it before.
LEMMA SaveStores ==
  ASSUME AgentInv, Fresh, [Next]_vars, NEW w \in Worker
  PROVE  /\ worker[w].pc = "saving" /\ worker'[w].pc = "projecting" => site'.data.profile = worker[w].out
         /\ worker[w].pc = "projecting" /\ worker'[w].pc = "completing" => site'.data.templates = worker[w].out
<1>0. site \in Row /\ worker[w].row \in Row
  BY DEF AgentInv, AgentTypes, WorkerType
<1>1. CASE Puts(w)
  <2>1. PICK ours \in Map :
          /\ site' = Stored(worker[w].row, ours)
          /\ worker[w].pc = "saving" => ours.profile = worker[w].out
          /\ worker[w].pc = "projecting" => ours.templates = worker[w].out
    BY <1>1 DEF Puts
  <2>2. worker[w].pc = "saving" => worker[w].row.data.profile # worker[w].out
    BY DEF Fresh, Unseen, Has
  <2>3. worker[w].pc = "projecting" => worker[w].row.data.templates # worker[w].out
    BY DEF Fresh
  <2> QED BY <1>0, <2>1, <2>2, <2>3, StoredPlace
<1>2. CASE Quietly(w) \/ Derives(w)
  BY <1>2 DEF Quietly, Derives
<1>3. CASE worker'[w] = worker[w]
  BY <1>3
<1>4. ASSUME NEW v \in Worker, Poll(v) \/ Crash(v) PROVE Puts(w) \/ Quietly(w) \/ Derives(w) \/ worker'[w] = worker[w]
  BY <1>4, MovesFresh DEF Alone
<1>5. ASSUME NEW c \in Caller, Look(c) \/ Enqueue(c) PROVE worker'[w] = worker[w]
  BY <1>5 DEF Look, Enqueue
<1>6. CASE DraftReads \/ DraftProjects \/ Edit \/ UNCHANGED vars
  BY <1>3, <1>6 DEF DraftReads, DraftProjects, Edit, vars
<1> QED
  BY <1>1, <1>2, <1>3, <1>4, <1>5, <1>6 DEF Next

-----------------------------------------------------------------------------
(* The theorems.                                                           *)

\* The invariant of the agent.
THEOREM AgentIsConsistent == Spec => []AgentInv
<1>1. AgentInv /\ [Next]_vars => AgentInv'
  BY AgentStep
<1> QED
  BY <1>1, AgentInit, PTL DEF Spec

\* Jobs, rows and what workers hold keep their types.
THEOREM TypeCorrect == Spec => []TypeOK
<1>1. AgentInv => TypeOK
  BY DEF AgentInv, AgentTypes, TypeOK, JobType, WorkerType
<1> QED BY <1>1, AgentIsConsistent, PTL

\* A completed job left its profile, or the proof that it still holds, in the map, however
\* often it was reclaimed and whoever finished it (worker.js).
THEOREM CompletedLeftItsOutcome == Spec => []CompletedIsKept
<1>1. AgentInv => CompletedIsKept
  BY DEF AgentInv, Left
<1> QED BY <1>1, AgentIsConsistent, PTL

\* A job that stops its worker each time goes back to the queue MAX_RECLAIMS times, and once
\* more for every other worker whose reclaim read it meanwhile, never more.
THEOREM RequeuesAreBounded == Spec => []RequeuesBounded
<1>1. Init => Requeued
  <2> SUFFICES ASSUME Init, NEW j \in Job PROVE job[j].reclaims + Cardinality(Requeuers(j)) <= Bound
    BY DEF Requeued
  <2>1. Requeuers(j) = {} /\ job[j].reclaims = 0
    BY DEF Init, Idle, Requeuers
  <2>2. Cardinality(Requeuers(j)) = 0
    BY <2>1, FS_EmptySet
  <2> QED BY <2>1, <2>2, Counting
<1>2. AgentInv /\ Requeued /\ [Next]_vars => Requeued'
  BY RequeuedStep
<1>3. AgentInv /\ Requeued => RequeuesBounded
  <2> SUFFICES ASSUME AgentInv, Requeued, NEW j \in Job PROVE job[j].reclaims <= Bound
    BY DEF RequeuesBounded, Bound
  <2>1. job[j].reclaims \in Nat /\ Requeuers(j) \in SUBSET Worker
    BY DEF AgentInv, AgentTypes, JobType, Requeuers
  <2>2. Cardinality(Requeuers(j)) \in Nat
    BY <2>1, Counting
  <2> QED BY <2>1, <2>2, Counting DEF Requeued
<1> QED BY <1>1, <1>2, <1>3, AgentIsConsistent, PTL DEF Spec

\* What a worker saved is in the map when it goes on, also when the save was merged with
\* what others stored meanwhile (updateSiteRepoConfig).
THEOREM SavesAreStored == Spec => SavedIsStored
<1>1. Init => Fresh
  <2> SUFFICES ASSUME Init PROVE Fresh
    OBVIOUS
  <2>1. /\ \A w \in Worker : worker[w].pc = "idle" /\ worker[w].out = 0 /\ worker[w].row = NoRow
        /\ site.data = NoRow.data /\ drafter = NoRow /\ stamps = 0
    BY DEF Init, Idle, NoRow, None
  <2>2. \A n \in Nat : n > 0 => ~Has(NoRow, n)
    BY DEF Has, NoRow, Key, None
  <2>3. \A n \in Nat : n > stamps => Unseen(n, {})
    BY <2>1, <2>2 DEF Unseen, Has
  <2> QED BY <2>1, <2>3 DEF Fresh
<1>2. AgentInv /\ Fresh /\ [Next]_vars => Fresh'
  BY FreshStep
<1>3. AgentInv /\ Fresh /\ [Next]_vars =>
        [\A w \in Worker :
           /\ worker[w].pc = "saving" /\ worker'[w].pc = "projecting"
                => site'.data.profile = worker[w].out
           /\ worker[w].pc = "projecting" /\ worker'[w].pc = "completing"
                => site'.data.templates = worker[w].out]_vars
  BY SaveStores
<1> QED BY <1>1, <1>2, <1>3, AgentIsConsistent, PTL DEF Spec, SavedIsStored

\* The map of a site implements the store that loses no update: workers, drafts and people
\* never take back what another one stored since they read it (migration 249).
THEOREM NoUpdateIsLost == Spec => ImplementsConfigStore
<1>1. Init => Store!Init
  <2> SUFFICES ASSUME Init PROVE Store!Init
    OBVIOUS
  <2>1. site.data \in [Key -> Nat]
    BY DEF Init, NoRow, None
  <2>2. Held(drafter) = {} /\ \A w \in Worker : Held(worker[w].row) = {}
    BY DEF Init, Idle, NoRow, Held
  <2> QED BY <2>1, <2>2 DEF Store!Init
<1>2. AgentInv /\ [Next]_vars
        => [Store!Next]_<<site.data, [c \in Worker \cup {Drafter} |->
                                       Held(IF c = Drafter THEN drafter ELSE worker[c].row)]>>
  BY StepIsAbstract DEF StoreNext, Seen, Client
<1> QED
  BY <1>1, <1>2, AgentIsConsistent, PTL DEF Spec, ImplementsConfigStore, Store!Spec

=============================================================================
