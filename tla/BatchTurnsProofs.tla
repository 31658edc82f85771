---------------------------- MODULE BatchTurnsProofs ----------------------------
(***************************************************************************)
(* What the batch in the memory of a process is worth (BatchShip), for any *)
(* drafts, runs, people, processes, faults and crashes.                    *)
(*                                                                         *)
(* Whoever overlaps whom, a process batches only while one of its runs is  *)
(* at work, unless a ship stage runs in it.                                *)
(*                                                                         *)
(* The rest is about runs, people and sweeps that take turns.  Each result *)
(* has an invariant of its own, and each invariant says what one job, the  *)
(* batch of its process and the branch have to do with each other:         *)
(*   Held     the batch has what its run has pending, until the run ends   *)
(*            it: what is reported shipped is in a pull request.           *)
(*   Planned  a commit to move the branch to continues the tip its batch   *)
(*            started from, unless there is no pull request to rewrite.    *)
(*   Keeps    that commit, and the sha a batch starts from, hold whatever  *)
(*            is on the branch: nothing pushed is thrown away.             *)
(*   MovesOn  the same where one process does everything, and a batch that *)
(*            a ship stage left behind is shared with whoever comes next.  *)
(*   Has      what a job has pending is in its batch, then in its commit,  *)
(*            then on the branch: a pull request has its drafts.           *)
(***************************************************************************)
EXTENDS BatchShipProofs

\* Where a run stands while it has a batch of its own to end.
Working == {"looping", "resolving", "staging", "recording"}

\* A ship stage, which may leave its batch behind, runs in the process.
ShipsAt(p) == \E r \in Pipeline : Home[r] = p

-----------------------------------------------------------------------------
(* An active batch has a run that will end it.                             *)

BatchIsWorked ==
  \A p \in Process : batch[p].active => ShipsAt(p) \/ \E r \in Run : Home[r] = p /\ job[r].pc \in Working

\* It is enough to look at the job that moves.
LEMMA WorkStays ==
  ASSUME BatchIsWorked, NEW j \in Job, Only(j),
         \A p \in Process : batch'[p].active => \/ batch[p].active
                                                \/ j \in Run /\ Home[j] = p /\ job'[j].pc \in Working,
         j \in Run /\ job[j].pc \in Working => \/ job'[j].pc \in Working
                                               \/ ShipsAt(Home[j]) \/ ~batch'[Home[j]].active
  PROVE  BatchIsWorked'
<1> SUFFICES ASSUME NEW p \in Process, batch'[p].active, ~ShipsAt(p)
             PROVE  \E r \in Run : Home[r] = p /\ job'[r].pc \in Working
  BY DEF BatchIsWorked, ShipsAt
<1>1. CASE j \in Run /\ Home[j] = p /\ job'[j].pc \in Working
  BY <1>1
<1>2. CASE batch[p].active
  <2>1. PICK r \in Run : Home[r] = p /\ job[r].pc \in Working
    BY <1>2 DEF BatchIsWorked
  <2>2. r \in Job
    BY Parameters
  <2> QED BY <2>1, <2>2 DEF Only
<1> QED BY <1>1, <1>2

\* Every step.
LEMMA WorkedStep ==
  ASSUME BatchInv, BatchIsWorked, [Next]_vars
  PROVE  BatchIsWorked'
<1>1. ASSUME NEW j \in Job, ItemStep(j) PROVE BatchIsWorked'
  <2>1. CASE Resolve(j)
    BY <2>1, ResolveDoes, WorkStays DEF Working
  <2>2. CASE Stage(j)
    <3>1. \A p \in Process : batch'[p].active => batch[p].active
      BY <2>2, StageDoes
    <3> QED BY <2>2, <3>1, StageDoes, WorkStays DEF Working
  <2>3. CASE ApplyFails(j) \/ RecordMisses(j)
    BY <2>3, ItemEndsDoes, WorkStays DEF Working
  <2>4. CASE Record(j)
    BY <2>4, RecordDoes, WorkStays DEF Working
  <2>5. CASE OpenPr(j) \/ OpenPrFails(j)
    BY <2>5, OpenDoes, WorkStays DEF Working
  <2> QED BY <1>1, <2>1, <2>2, <2>3, <2>4, <2>5 DEF ItemStep
<1>2. ASSUME NEW r \in Run, RunStep(r) PROVE BatchIsWorked'
  <2>1. r \in Job /\ Home[r] \in Process
    BY Parameters
  <2>2. CASE Begin(r)
    <3>1. Only(r) /\ job'[r].pc \in Working
      BY <2>2, BeginDoes DEF Working
    <3>2. \A p \in Process : batch'[p].active => batch[p].active \/ Home[r] = p
      BY <2>2 DEF Begin, BatchInv, Types, BatchTypes
    <3> QED BY <2>1, <3>1, <3>2, WorkStays
  <2>3. CASE \E d \in Draft : ApproveNext(r, d) \/ JoinAwaitingPr(r, d) \/ ResetStranded(r, d) \/ CountFinished(r, d)
    BY <2>1, <2>3, TakeDoes, WorkStays DEF Working
  <2>4. CASE EndBatch(r)
    <3>1. ~batch'[Home[r]].active
      BY <2>4, EndBatchDoes DEF NotBatching
    <3>2. \A p \in Process : batch'[p].active => batch[p].active
      BY <2>4, <3>1, EndBatchDoes
    <3> QED BY <2>1, <2>4, <3>1, <3>2, EndBatchDoes, WorkStays
  <2>5. CASE GiveUpEmpty(r)
    BY <2>1, <2>5, RunLeavesDoes, WorkStays DEF ShipsAt
  <2>6. CASE MoveRef(r) \/ MoveRefFails(r)
    BY <2>1, <2>6, MoveDoes, WorkStays DEF Working
  <2>7. CASE ReportShipped(r) \/ ReportFailed(r)
    BY <2>1, <2>7, RunLeavesDoes, WorkStays DEF Working
  <2> QED BY <1>2, <2>2, <2>3, <2>4, <2>5, <2>6, <2>7 DEF RunStep
<1>3. ASSUME NEW h \in Human, NEW d \in Draft, PersonApproves(h, d) PROVE BatchIsWorked'
  BY <1>3, PersonDoes, WorkStays
<1>4. ASSUME NEW p \in Process, Crash(p) PROVE BatchIsWorked'
  <2>1. ~batch'[p].active /\ \A q \in Process \ {p} : batch'[q] = batch[q]
    BY <1>4, CrashDoes DEF NotBatching
  <2>2. \A r \in Run : Home[r] # p => job'[r] = job[r]
    BY <1>4, CrashDoes, Parameters
  <2> QED BY <2>1, <2>2 DEF BatchIsWorked, ShipsAt
<1>5. CASE Sweeping \/ MainMoves \/ UNCHANGED vars
  BY <1>5, SweepingAlone, NobodyMoves DEF BatchIsWorked, ShipsAt
<1> QED BY <1>1, <1>2, <1>3, <1>4, <1>5, ByWhom

\* At the start nobody batches.
LEMMA WorkStarts ==
  ASSUME Init
  PROVE  BatchIsWorked
<1>1. \A p \in Process : batch[p].active = FALSE
  BY DEF Init, NotBatching
<1> QED BY <1>1 DEF BatchIsWorked

\* A process keeps batching only while one of its runs is at work, whoever overlaps
\* whom and whatever fails, where no ship stage returns without ending its batch
\* ("so a failed run doesn't leave pushDraftBranch silently deferring forever").
THEOREM NoBatchIsLeft ==
  ASSUME Pipeline = {}
  PROVE  Spec => []BatchIsSomebodys
<1>1. BatchInv /\ BatchIsWorked /\ [Next]_vars => BatchIsWorked'
  BY WorkedStep
<1>2. BatchIsWorked => BatchIsSomebodys
  <2>1. SUFFICES ASSUME BatchIsWorked, NEW p \in Process, batch[p].active
                 PROVE  \E r \in Run : Home[r] = p /\ Underway(r)
    BY DEF BatchIsSomebodys
  <2>2. PICK r \in Run : Home[r] = p /\ job[r].pc \in Working
    BY <2>1 DEF BatchIsWorked, ShipsAt
  <2> QED BY <2>2 DEF Underway, Working
<1> QED BY <1>1, <1>2, WorkStarts, BatchIsTyped, PTL DEF Spec, Fairness

-----------------------------------------------------------------------------
(* In turns: nobody else is underway while a job is, and the sweep waits.  *)

OneAtATime == \A j, k \in Job : Underway(j) /\ Underway(k) => j = k

Turns == OneAtATime /\ \A j \in Job : Underway(j) => sweep.pc = "idle"

\* A job that is underway, or may start, is the only one that is.
LEMMA Mover ==
  ASSUME Alone, Turns, NEW j \in Job, Underway(j) \/ MayStart(j)
  PROVE  sweep.pc = "idle" /\ \A k \in Job \ {j} : ~Underway(k)
  BY DEF Turns, OneAtATime, MayStart

\* After its step too.
LEMMA MoverTurns ==
  ASSUME Alone, Turns, NEW j \in Job, Underway(j) \/ MayStart(j), Only(j)
  PROVE  Turns'
<1>1. sweep.pc = "idle" /\ \A k \in Job \ {j} : ~Underway(k)
  BY Mover
<1>2. sweep'.pc = "idle" /\ \A k \in Job \ {j} : ~(Underway(k)')
  BY <1>1 DEF Only, Underway
<1> QED BY <1>2 DEF Turns, OneAtATime

\* Who starts waits until nobody else is under way.
LEMMA TurnsStep ==
  ASSUME Alone, BatchInv, Turns, [Next]_vars
  PROVE  Turns'
<1>1. ASSUME NEW j \in Job, Only(j), Underway(j) \/ MayStart(j) PROVE Turns'
  BY <1>1, MoverTurns
<1>2. CASE Sweeping
  <2>1. job' = job /\ \A j \in Job : ~Underway(j)
    BY <1>2, SweepingAlone DEF Turns, MayStart
  <2>2. \A j \in Job : ~(Underway(j)')
    BY <2>1 DEF Underway
  <2> QED BY <2>2 DEF Turns, OneAtATime
<1>3. ASSUME NEW p \in Process, Crash(p) PROVE Turns'
  <2>1. \A k \in Job : Underway(k)' => Underway(k)
    BY <1>3, CrashDoes DEF Underway
  <2>2. sweep' = sweep \/ sweep'.pc = "idle"
    BY <1>3, CrashDoes DEF Asleep
  <2> QED BY <2>1, <2>2 DEF Turns, OneAtATime
<1>4. CASE MainMoves \/ UNCHANGED vars
  BY <1>4, NobodyMoves DEF Turns, OneAtATime, Underway
<1> QED BY <1>1, <1>2, <1>3, <1>4, JobStepsAlone, ByWhom

-----------------------------------------------------------------------------
(* The batch holds what its run has pending.                               *)

\* A run's batch has what it has pending, and what it is about to report is in a pull
\* request.
Held(r) ==
  /\ job[r].pc \in Working => /\ batch[Home[r]].active
                              /\ SeqSet(job[r].pending) \subseteq batch[Home[r]].entries
  /\ job[r].pc = "recording" => job[r].draft \in batch[Home[r]].entries
  /\ job[r].pc = "reporting" => \A d \in SeqSet(job[r].pending) : status[d] \in Ended

TurnInv == Turns /\ \A r \in Run : Held(r)

\* It is enough to look at the job that moves.
LEMMA HeldStays ==
  ASSUME Alone, TurnInv, NEW j \in Job, Underway(j) \/ MayStart(j), Only(j), j \in Run => Held(j)'
  PROVE  TurnInv'
<1>1. \A k \in Job \ {j} : ~Underway(k) /\ job'[k] = job[k]
  BY Mover DEF TurnInv, Only
<1>2. ASSUME NEW r \in Run PROVE Held(r)'
  <2>1. CASE r = j
    BY <2>1
  <2>2. CASE r # j
    BY <1>1, <2>2, Parameters DEF Held, Underway, Working
  <2> QED BY <2>1, <2>2
<1> QED BY <1>2, MoverTurns DEF TurnInv

\* What is in a pull request or abandoned stays so.
LEMMA EndedStays ==
  ASSUME Onward, NEW d \in Draft, status[d] \in Ended
  PROVE  status'[d] \in Ended
  BY DEF Onward, Ended

\* Every step.
LEMMA TurnStep ==
  ASSUME Alone, Repair = {}, BatchInv, TurnInv, [Next]_vars
  PROVE  TurnInv'
<1>0. Turns' /\ Onward /\ \A j \in Job : SeqSet(job[j].pending) \in SUBSET Draft
  BY TurnsStep, EveryStep, SeqSetOf DEF TurnInv, BatchInv, Types, JobTypes, JobType, SeqSet
<1>1. ASSUME NEW j \in Run, ItemStep(j) PROVE Held(j)'
  <2>1. Held(j) /\ j \in Job
    BY Parameters DEF TurnInv
  <2>2. CASE Resolve(j)
    BY <2>1, <2>2, ResolveDoes DEF Held, Working
  <2>3. CASE Stage(j)
    BY <2>1, <2>3, StageDoes DEF Held, Working, Carries
  <2>4. CASE ApplyFails(j) \/ RecordMisses(j)
    BY <2>1, <2>4, ItemEndsDoes DEF Held, Working
  <2>5. CASE Record(j)
    BY <2>1, <2>5, RecordDoes DEF Held, Working
  <2>6. CASE OpenPr(j)
    <3>1. \A d \in SeqSet(job[j].pending) : status[d] \in Later
      BY <2>1 DEF BatchInv, PendingIsPushed
    <3>2. MarkPrOpened(SeqSet(job[j].pending)) /\ job'[j].pc \in {"reporting", "failing"}
          /\ job'[j].pending = job[j].pending
      BY <2>1, <2>6, OpenDoes DEF Carries
    <3>3. DraftTypes /\ shipped' \subseteq Draft
      BY EveryStep DEF BatchInv, Types, DraftTypes
    <3>4. \A d \in SeqSet(job[j].pending) : status'[d] \in Ended
      BY <1>0, <2>1, <3>1, <3>2, <3>3, UpdatesAreOnward
    <3> QED BY <3>2, <3>4 DEF Held, Working
  <2>7. CASE OpenPrFails(j)
    BY <2>1, <2>7, OpenDoes DEF Held, Working
  <2> QED BY <1>1, <2>2, <2>3, <2>4, <2>5, <2>6, <2>7 DEF ItemStep
<1>2. ASSUME NEW r \in Run, RunStep(r) PROVE Held(r)'
  <2>1. Held(r)
    BY DEF TurnInv
  <2>2. CASE Begin(r)
    BY <2>2, BeginDoes DEF Held, SeqSet, Carries
  <2>3. CASE \E d \in Draft : ApproveNext(r, d) \/ JoinAwaitingPr(r, d) \/ ResetStranded(r, d) \/ CountFinished(r, d)
    BY <2>1, <2>3, TakeDoes DEF Held, Working
  <2>4. CASE EndBatch(r)
    BY <2>1, <2>4, EndBatchDoes DEF Held, Working
  <2>5. CASE MoveRef(r) \/ MoveRefFails(r)
    BY <2>5, MoveDoes DEF Held, Working
  <2>6. CASE ReportShipped(r) \/ ReportFailed(r) \/ GiveUpEmpty(r)
    BY <2>6, RunLeavesDoes DEF Held, Working
  <2> QED BY <1>2, <2>2, <2>3, <2>4, <2>5, <2>6 DEF RunStep
<1>3. ASSUME NEW j \in Job, \/ ItemStep(j) \/ (j \in Run /\ RunStep(j))
                            \/ j \in Human /\ \E d \in Draft : PersonApproves(j, d)
      PROVE  TurnInv'
  <2>1. j \in Run => Held(j)'
    BY <1>1, <1>2, <1>3, Parameters
  <2> QED BY <1>3, <2>1, JobStepsAlone, HeldStays
<1>4. CASE Sweeping \/ MainMoves \/ UNCHANGED vars
  <2>1. UNCHANGED <<batch, job>>
    BY <1>4, SweepingAlone, NobodyMoves
  <2>2. \A r \in Run : Held(r)'
    BY <1>0, <2>1, EndedStays, Parameters DEF TurnInv, Held
  <2> QED BY <1>0, <2>2 DEF TurnInv
<1>5. ASSUME NEW p \in Process, Crash(p) PROVE TurnInv'
  <2>1. status' = status /\ \A q \in Process \ {p} : batch'[q] = batch[q]
    BY <1>5, CrashDoes
  <2>2. \A k \in Job : Underway(k)' => job'[k] = job[k] /\ Home[k] \in Process /\ batch'[Home[k]] = batch[Home[k]]
    BY <1>5, <2>1, CrashDoes, Parameters DEF Underway
  <2>3. ASSUME NEW r \in Run PROVE Held(r)'
    <3>1. CASE Underway(r)'
      BY <2>1, <2>2, <3>1, Parameters DEF TurnInv, Held
    <3>2. CASE ~(Underway(r)')
      BY <3>2 DEF Held, Underway, Working
    <3> QED BY <3>1, <3>2
  <2> QED BY <1>0, <2>3 DEF TurnInv
<1> QED BY <1>3, <1>4, <1>5, ByWhom

\* What a run has counted as shipped is in a pull request, or was abandoned since.
LEMMA ShippedStep ==
  ASSUME BatchInv, TurnInv, ShippedHasPr, [Next]_vars
  PROVE  ShippedHasPr'
<1>1. Onward /\ shipped \subseteq Draft
  BY EveryStep DEF BatchInv, Types, DraftTypes
<1>2. \A d \in shipped : status'[d] \in Ended
  BY <1>1, EndedStays DEF ShippedHasPr, Ended
<1>3. CASE shipped' = shipped
  BY <1>2, <1>3 DEF ShippedHasPr, Ended
<1>4. ASSUME NEW r \in Run, NEW d \in Draft, CountFinished(r, d) PROVE ShippedHasPr'
  BY <1>2, <1>4 DEF CountFinished, ShippedHasPr, Ended
<1>5. ASSUME NEW r \in Run, ReportShipped(r) PROVE ShippedHasPr'
  BY <1>2, <1>5 DEF ReportShipped, TurnInv, Held, ShippedHasPr, Ended
<1>6. ASSUME NEW j \in Job, ItemStep(j) PROVE shipped' = shipped
  BY <1>6 DEF ItemStep, Resolve, Stage, ApplyFails, Record, RecordMisses, OpenPr, OpenPrFails, drafts
<1>7. ASSUME NEW r \in Run, RunStep(r), ~ReportShipped(r), \A d \in Draft : ~CountFinished(r, d)
      PROVE  shipped' = shipped
  BY <1>7 DEF RunStep, Begin, Take, ApproveNext, JoinAwaitingPr, ResetStranded, EndBatch, GiveUpEmpty,
              MoveRef, MoveRefFails, ReportFailed, drafts
<1>8. ASSUME \/ \E h \in Human, d \in Draft : PersonApproves(h, d)
             \/ Sweeping \/ MainMoves \/ (\E p \in Process : Crash(p)) \/ UNCHANGED vars
      PROVE  shipped' = shipped
  BY <1>8 DEF PersonApproves, Sweeping, SweepList, SweepCompare, SweepRecheck, SweepReadFails, SweepSettle,
              SweepOpen, SweepOpenFails, SweepStep, Crash, MainMoves, drafts, vars
<1> QED BY <1>3, <1>4, <1>5, <1>6, <1>7, <1>8 DEF Next

\* What a run reports shipped has a pull request, in the day of any number of drafts,
\* runs, people, faults and crashes, when they take turns and no finished draft is
\* re-offered ("nothing is silently counted as shipped work that never reached
\* GitHub", auto-remediation.js).
THEOREM ShippedIsInPr ==
  ASSUME Alone, Repair = {}
  PROVE  Spec => []ShippedHasPr
<1>1. Init => TurnInv /\ ShippedHasPr
  <2>1. Init => \A j \in Job : job[j].pc = "idle"
    BY DEF Init, AtRest
  <2>2. Init => Turns /\ \A r \in Run : Held(r)
    BY <2>1, Parameters DEF Turns, OneAtATime, Held, Underway, Working
  <2> QED BY <2>2 DEF Init, TurnInv, ShippedHasPr
<1>2. BatchInv /\ TurnInv /\ ShippedHasPr /\ [Next]_vars => TurnInv' /\ ShippedHasPr'
  BY TurnStep, ShippedStep
<1> QED BY <1>1, <1>2, BatchIsTyped, PTL DEF Spec, Fairness

-----------------------------------------------------------------------------
(* The commits under review stay as they are.                              *)

\* A run that is to move the branch adds a commit to the tip its batch started from,
\* unless there is no pull request.
Planned(j) ==
  /\ job[j].pc \in Working \cup {"idle"} => job[j].parent = NoSha
  /\ job[j].pc = "moving" =>
       \/ job[j].parent = NoSha /\ ~pr
       \/ job[j].parent # NoSha /\ \E D \in SUBSET Draft : job[j].commit = Appended(job[j].parent, "batch", D)

PlanInv == Turns /\ HasTips /\ \A j \in Job : Planned(j)

\* It is enough to look at the job that moves.
LEMMA PlansStay ==
  ASSUME Alone, PlanInv, NEW j \in Job, Underway(j) \/ MayStart(j), Only(j), Planned(j)'
  PROVE  \A k \in Job : Planned(k)'
<1>1. \A k \in Job \ {j} : ~Underway(k) /\ job'[k] = job[k]
  BY Mover DEF PlanInv, Only
<1> QED BY <1>1 DEF PlanInv, Planned, Underway

\* Every step.
LEMMA PlanStep ==
  ASSUME Alone, BatchInv, PlanInv, [Next]_vars
  PROVE  PlanInv'
<1>1. Turns' /\ HasTips'
  BY TurnsStep, TipsStep DEF PlanInv
<1>2. ASSUME NEW j \in Job, ItemStep(j) PROVE Planned(j)'
  <2>1. Planned(j)
    BY DEF PlanInv
  <2>2. CASE Resolve(j)
    BY <2>1, <2>2, ResolveDoes DEF Planned, Working
  <2>3. CASE Stage(j)
    BY <2>1, <2>3, StageDoes DEF Planned, Working, Carries
  <2>4. CASE ApplyFails(j) \/ RecordMisses(j)
    BY <2>1, <2>4, ItemEndsDoes DEF Planned, Working
  <2>5. CASE Record(j)
    BY <2>1, <2>5, RecordDoes DEF Planned, Working
  <2>6. CASE OpenPr(j) \/ OpenPrFails(j)
    BY <2>6, OpenDoes DEF Planned, Working
  <2> QED BY <1>2, <2>2, <2>3, <2>4, <2>5, <2>6 DEF ItemStep
<1>3. ASSUME NEW r \in Run, RunStep(r) PROVE Planned(r)'
  <2>1. r \in Job
    BY Parameters
  <2>2. Planned(r)
    BY <2>1 DEF PlanInv
  <2>3. CASE Begin(r)
    BY <2>2, <2>3, BeginDoes DEF Planned, Working, Carries
  <2>4. CASE \E d \in Draft : ApproveNext(r, d) \/ JoinAwaitingPr(r, d) \/ ResetStranded(r, d) \/ CountFinished(r, d)
    BY <2>2, <2>4, TakeDoes DEF Planned, Working
  <2>5. CASE EndBatch(r)
    <3>1. batch[Home[r]].entries \in SUBSET Draft
      BY <2>5, EndBatchDoes DEF BatchInv, Types, BatchTypes, BatchType
    <3>2. job[r].parent = NoSha
      BY <2>2, <2>5, EndBatchDoes DEF Planned, Working
    <3>3. job'[r].pc = "reporting" \/ (job'[r].pc = "moving" /\ job'[r].parent = NoSha /\ ~(pr'))
          \/ (job'[r].pc = "moving" /\ job'[r].parent \in Tip
              /\ job'[r].commit = Appended(job'[r].parent, "batch", batch[Home[r]].entries))
      BY <2>5, <3>2, EndBatchDoes DEF MaySquash, NoPush
    <3> QED BY <3>1, <3>3, NullAssumption DEF Planned, Working
  <2>6. CASE MoveRef(r) \/ MoveRefFails(r)
    BY <2>6, MoveDoes DEF Planned, Working
  <2>7. CASE ReportShipped(r) \/ ReportFailed(r) \/ GiveUpEmpty(r)
    BY <2>7, RunLeavesDoes DEF Planned, Working
  <2> QED BY <1>3, <2>3, <2>4, <2>5, <2>6, <2>7 DEF RunStep
<1>4. ASSUME NEW j \in Human, NEW d \in Draft, PersonApproves(j, d) PROVE Planned(j)'
  BY <1>4, PersonDoes DEF Planned, Working, PlanInv
<1>5. ASSUME NEW j \in Job, \/ ItemStep(j) \/ (j \in Run /\ RunStep(j))
                            \/ j \in Human /\ \E d \in Draft : PersonApproves(j, d)
      PROVE  \A k \in Job : Planned(k)'
  BY <1>2, <1>3, <1>4, <1>5, JobStepsAlone, PlansStay
<1>6. ASSUME Sweeping PROVE \A k \in Job : Planned(k)'
  <2>1. job' = job /\ \A j \in Job : ~Underway(j)
    BY <1>6, SweepingAlone DEF PlanInv, Turns, MayStart
  <2> QED BY <2>1 DEF PlanInv, Planned, Underway
<1>7. ASSUME NEW p \in Process, Crash(p) PROVE \A k \in Job : Planned(k)'
  <2>1. \A k \in Job : job'[k] = job[k] \/ job'[k].pc = "done"
    BY <1>7, CrashDoes
  <2>2. pr' = pr
    BY <1>7, CrashDoes DEF NoPush
  <2> QED BY <2>1, <2>2 DEF PlanInv, Planned, Working
<1>8. ASSUME MainMoves \/ UNCHANGED vars PROVE \A k \in Job : Planned(k)'
  BY <1>8, NobodyMoves DEF PlanInv, Planned
<1> QED BY <1>1, <1>5, <1>6, <1>7, <1>8, ByWhom DEF PlanInv

\* At the start there is no pull request and nothing to move.
LEMMA PlanStarts ==
  ASSUME Init
  PROVE  PlanInv
<1>1. \A j \in Job : job[j].pc = "idle" /\ job[j].parent = NoSha
  BY DEF Init, AtRest
<1>2. ~pr /\ sweep.pc = "idle"
  BY DEF Init, Asleep
<1> QED BY <1>1, <1>2 DEF PlanInv, Turns, OneAtATime, Underway, HasTips, Planned

\* The branch is appended to while there is a pull request.
LEMMA ReviewStays ==
  ASSUME BatchInv, PlanInv, [Next]_vars, pr
  PROVE  Continues(tip'.log, tip.log)
<1>1. tip # NoBranch /\ tip \in Tip
  BY DEF PlanInv, HasTips, BatchInv, Types, GithubTypes
<1>2. Continues(tip.log, tip.log)
  <2>1. {} \in SUBSET Draft /\ "sync" \in {"apply", "batch", "sync"}
    OBVIOUS
  <2> QED BY <1>1, <2>1, LogContinues
<1>3. ASSUME NEW j \in Job, Resolve(j) PROVE Continues(tip'.log, tip.log)
  <2>1. {} \in SUBSET Draft /\ "sync" \in {"apply", "batch", "sync"}
    OBVIOUS
  <2>2. tip' = Synced(tip)
    BY <1>1, <1>3, WhatIsPushed
  <2> QED BY <1>1, <2>1, <2>2, LogContinues
<1>4. ASSUME NEW j \in Job, Stage(j) PROVE Continues(tip'.log, tip.log)
  <2>1. job[j].draft \in Draft /\ (tip' = tip \/ tip' = Appended(tip, "apply", {job[j].draft}))
    BY <1>1, <1>4, WhatIsPushed
  <2>2. {job[j].draft} \in SUBSET Draft /\ "apply" \in {"apply", "batch", "sync"}
    BY <2>1
  <2> QED BY <1>1, <1>2, <2>1, <2>2, LogContinues
<1>5. ASSUME NEW r \in Run, MoveRef(r) PROVE Continues(tip'.log, tip.log)
  <2>1. r \in Job
    BY Parameters
  <2>2. job[r].pc = "moving" /\ Planned(r)
    BY <1>5, <2>1, MoveDoes DEF PlanInv
  <2>3. PICK D \in SUBSET Draft : job[r].parent # NoSha /\ job[r].commit = Appended(job[r].parent, "batch", D)
    BY <2>2 DEF Planned
  <2>4. tip' = tip \/ tip' = Appended(tip, "batch", D)
    BY <1>5, <2>3, MoveDoes
  <2>5. "batch" \in {"apply", "batch", "sync"}
    OBVIOUS
  <2> QED BY <1>1, <1>2, <2>4, <2>5, LogContinues
<1> QED BY <1>2, <1>3, <1>4, <1>5, WhoPushes

\* Once a pull request is open, the commits under review stay as they are, whatever
\* fails, is killed or is pushed to the default branch, when runs, people and sweeps
\* take turns (planBatchCommit: "never rewrite").
THEOREM ReviewIsNotRewritten ==
  ASSUME Alone
  PROVE  Spec => ReviewedCommitsStay
<1>1. BatchInv /\ PlanInv /\ [Next]_vars => PlanInv'
  BY PlanStep
<1>2. BatchInv /\ PlanInv /\ [Next]_vars
        => [pr => Len(tip'.log) >= Len(tip.log) /\ SubSeq(tip'.log, 1, Len(tip.log)) = tip.log]_vars
  BY ReviewStays DEF Continues
<1> QED BY <1>1, <1>2, PlanStarts, BatchIsTyped, PTL DEF Spec, Fairness, ReviewedCommitsStay

-----------------------------------------------------------------------------
(* What is on the branch stays on it.                                      *)

\* A process has staged nothing.
Unused(p) == batch[p].base = NoSha /\ batch[p].entries = {}

\* A process none of whose runs is at work has staged nothing.
IdleIsUnused == \A p \in Process : (\A r \in Run : Home[r] = p => job[r].pc \notin Working) => Unused(p)

\* The sha a batch started from holds whatever is on the branch.
BaseKeeps == \A p \in Process : batch[p].base # NoSha => OnBranch \subseteq batch[p].base.tree

\* So does the commit a run is to move the branch to.  A job that stages a change knows
\* whether there is a branch, its draft is still approved, and a run with nothing
\* pending has staged nothing.
Keeps(j) ==
  /\ job[j].pc = "staging" => job[j].existed = (tip # NoBranch)
  /\ job[j].pc \in {"resolving", "staging", "recording"} => status[job[j].draft] = "approved"
  /\ job[j].pc = "moving" => OnBranch \subseteq job[j].commit.tree
  /\ j \in Run /\ job[j].pc \in Working => batch[Home[j]].active
  /\ j \in Run /\ job[j].pc \in Working \ {"recording"} /\ job[j].pending = <<>> => Unused(Home[j])

KeptInv == /\ Turns
           /\ BatchIsWorked
           /\ IdleIsUnused /\ BaseKeeps
           /\ \A j \in Job : Keeps(j)

\* Nobody approves a draft in a process that runs ship stages.
Apart == \A h \in Human : ~ShipsAt(Home[h])

\* What a person applies there is committed.
LEMMA PersonCommits ==
  ASSUME Apart, KeptInv, NEW h \in Human, Underway(h)
  PROVE  ~batch[Home[h]].active
<1>1. SUFFICES ASSUME batch[Home[h]].active PROVE FALSE
  OBVIOUS
<1>2. h \in Job /\ Home[h] \in Process /\ h \notin Run
  BY Parameters
<1>3. PICK r \in Run : job[r].pc \in Working
  BY <1>1, <1>2 DEF Apart, KeptInv, BatchIsWorked
<1>4. r \in Job /\ Underway(r)
  BY <1>3, Parameters DEF Underway, Working
<1> QED BY <1>2, <1>4 DEF KeptInv, Turns, OneAtATime

\* While one job is underway, nothing is staged but in the process it works in.
LEMMA OthersUnused ==
  ASSUME Alone, KeptInv, NEW j \in Job, Underway(j) \/ MayStart(j), NEW p \in Process
  PROVE  Unused(p) \/ (j \in Run /\ Home[j] = p /\ job[j].pc \in Working)
<1>1. \A k \in Job \ {j} : ~Underway(k)
  BY Mover DEF KeptInv
<1>2. ASSUME NEW r \in Run, r # j PROVE job[r].pc \notin Working
  BY <1>1, <1>2, Parameters DEF Underway, Working
<1> QED BY <1>2 DEF KeptInv, IdleIsUnused

\* It is enough to look at the job that moves and its process.
LEMMA KeptStays ==
  ASSUME Alone, KeptInv, NEW j \in Job, Underway(j) \/ MayStart(j), Only(j), Keeps(j)',
         BatchIsWorked',
         \A p \in Process : \/ Unused(p)'
                            \/ batch'[p] = batch[p] /\ OnBranch' = OnBranch
                            \/ OnBranch' \subseteq batch'[p].base.tree,
         \A p \in Process : \/ Unused(p)'
                            \/ batch'[p] = batch[p] /\ (job[j].pc \in Working => job'[j].pc \in Working)
                            \/ j \in Run /\ Home[j] = p /\ job'[j].pc \in Working
  PROVE  KeptInv'
<1>1. Turns' /\ \A k \in Job \ {j} : ~Underway(k) /\ job'[k] = job[k]
  BY Mover, MoverTurns DEF KeptInv, Only
<1>2. \A k \in Job : Keeps(k)'
  <2>1. \A k \in Job \ {j} : Keeps(k)'
    BY <1>1 DEF Keeps, Underway, Working
  <2> QED BY <2>1
<1>3. BaseKeeps'
  BY DEF KeptInv, BaseKeeps, Unused
<1>4. IdleIsUnused'
  <2>1. SUFFICES ASSUME NEW p \in Process, \A r \in Run : Home[r] = p => job'[r].pc \notin Working
                 PROVE  Unused(p)'
    BY DEF IdleIsUnused
  <2>2. CASE batch'[p] = batch[p] /\ (job[j].pc \in Working => job'[j].pc \in Working)
    <3>1. Unused(p)
      BY <2>1, <2>2, OthersUnused
    <3> QED BY <2>2, <3>1 DEF Unused
  <2> QED BY <2>1, <2>2
<1> QED BY <1>1, <1>2, <1>3, <1>4 DEF KeptInv

\* Every step of a job on its item.
LEMMA ItemKeeps ==
  ASSUME Alone, Apart, BatchInv, KeptInv, NEW j \in Job, ItemStep(j),
         BatchIsWorked'
  PROVE  KeptInv'
<1>1. Only(j) /\ Underway(j) /\ Keeps(j) /\ Home[j] \in Process
  <2>1. job[j].pc # "idle"
    BY DEF ItemStep, Resolve, Stage, ApplyFails, Record, RecordMisses, OpenPr, OpenPrFails
  <2>2. job[j].pc # "done"
    BY DEF ItemStep, Resolve, Stage, ApplyFails, Record, RecordMisses, OpenPr, OpenPrFails
  <2> QED BY <2>1, <2>2, JobStepsAlone, Parameters DEF KeptInv, Underway
<1>2. CASE Resolve(j)
  <2>1. OnBranch' = OnBranch /\ batch' = batch
    BY <1>2, ResolveDoes, WhatIsOnBranch
  <2>2. job[j].pc = "resolving" /\ job'[j].pc = "staging"
    BY <1>2, ResolveDoes
  <2>3. job'[j].existed = (tip' # NoBranch)
    <3>1. tip # NoBranch => Synced(tip) \in Tip
      BY TipsTyped DEF BatchInv, Types, GithubTypes
    <3> QED BY <1>2, <3>1, ResolveDoes, NullAssumption
  <2>4. Keeps(j)'
    BY <1>1, <1>2, <2>1, <2>2, <2>3, ResolveDoes DEF Keeps, Working, Unused
  <2> QED BY <1>1, <2>1, <2>2, <2>4, KeptStays DEF Working
<1>3. CASE Stage(j)
  <2>1. job[j].pc = "staging" /\ job'[j].pc = "recording" /\ Carries(j) /\ status' = status
    BY <1>3, StageDoes
  <2>2. CASE batch[Home[j]].active
    <3>1. j \in Run
      BY <1>1, <2>2, PersonCommits DEF Job
    <3>2. OnBranch' = OnBranch
      BY <1>3, <2>2, WhatIsOnBranch
    <3>3. \A p \in Process \ {Home[j]} : batch'[p] = batch[p]
      BY <1>3, <2>2, StageDoes
    <3>4. OnBranch \subseteq batch'[Home[j]].base.tree
      <4>1. CASE batch[Home[j]].base # NoSha
        BY <1>1, <1>3, <2>2, <4>1, StageDoes DEF KeptInv, BaseKeeps
      <4>2. CASE batch[Home[j]].base = NoSha
        <5>1. batch'[Home[j]].base = IF tip # NoBranch THEN tip ELSE FreshFromMain
          BY <1>1, <1>3, <2>1, <2>2, <4>2, StageDoes DEF Keeps
        <5> QED BY <5>1 DEF OnBranch
      <4> QED BY <4>1, <4>2
    <3>5. Keeps(j)'
      BY <1>1, <1>3, <2>1, <2>2, StageDoes DEF Keeps, Working, Carries
    <3> QED BY <1>1, <2>1, <3>1, <3>2, <3>3, <3>4, <3>5, KeptStays DEF Working
  <2>3. CASE ~batch[Home[j]].active
    <3>1. j \notin Run
      BY <1>1, <2>1, <2>3 DEF Keeps, Working
    <3>2. batch' = batch
      BY <1>3, <2>3, StageDoes
    <3>3. \A p \in Process : Unused(p)'
      BY <1>1, <3>1, <3>2, OthersUnused DEF Unused
    <3>4. Keeps(j)'
      BY <1>1, <2>1, <3>1 DEF Keeps, Carries
    <3> QED BY <1>1, <3>3, <3>4, KeptStays
  <2> QED BY <2>2, <2>3
<1>4. CASE ApplyFails(j) \/ RecordMisses(j)
  <2>1. job[j].pc \in {"resolving", "staging"} /\ batch' = batch /\ tip' = tip
    BY <1>1, <1>4, ItemEndsDoes DEF Keeps, NoPush
  <2>2. j \in Run => job'[j].pc = "looping" /\ job'[j].pending = job[j].pending
    BY <1>4, ItemEndsDoes
  <2>3. j \notin Run => job'[j].pc = "done"
    BY <1>4, ItemEndsDoes
  <2>4. Keeps(j)'
    BY <1>1, <2>1, <2>2, <2>3 DEF Keeps, Working, Unused
  <2>5. OnBranch' = OnBranch
    BY <2>1, WhatIsOnBranch
  <2>6. CASE j \in Run
    BY <1>1, <2>1, <2>2, <2>4, <2>5, <2>6, KeptStays DEF Working
  <2>7. CASE j \notin Run
    <3>1. \A p \in Process : Unused(p)'
      BY <1>1, <2>1, <2>7, OthersUnused DEF Unused
    <3> QED BY <1>1, <2>4, <3>1, KeptStays
  <2> QED BY <2>6, <2>7
<1>5. CASE Record(j)
  <2>1. job[j].pc = "recording" /\ batch' = batch /\ tip' = tip /\ job'[j].pending # <<>>
    BY <1>5, RecordDoes DEF NoPush
  <2>2. job'[j].pc = IF j \in Run THEN "looping" ELSE "opening"
    BY <1>5, RecordDoes
  <2>3. Keeps(j)'
    BY <1>1, <2>1, <2>2 DEF Keeps, Working
  <2>4. OnBranch' = OnBranch
    BY <2>1, WhatIsOnBranch
  <2>5. CASE j \in Run
    BY <1>1, <2>1, <2>2, <2>3, <2>4, <2>5, KeptStays DEF Working
  <2>6. CASE j \notin Run
    <3>1. \A p \in Process : Unused(p)'
      BY <1>1, <2>1, <2>6, OthersUnused DEF Unused
    <3> QED BY <1>1, <2>3, <3>1, KeptStays
  <2> QED BY <2>5, <2>6
<1>6. CASE OpenPr(j) \/ OpenPrFails(j)
  <2>1. job[j].pc = "opening" /\ batch' = batch /\ job'[j].pc \in {"reporting", "failing", "done"}
    BY <1>6, OpenDoes
  <2>2. \A p \in Process : Unused(p)'
    BY <1>1, <2>1, OthersUnused DEF Unused, Working
  <2>3. Keeps(j)'
    BY <2>1 DEF Keeps, Working
  <2> QED BY <1>1, <2>2, <2>3, KeptStays
<1> QED BY <1>2, <1>3, <1>4, <1>5, <1>6 DEF ItemStep

\* Every step of a run on its batch.
LEMMA RunKeeps ==
  ASSUME Alone, Apart, BatchInv, KeptInv, NEW r \in Run, RunStep(r),
         BatchIsWorked'
  PROVE  KeptInv'
<1>1. Only(r) /\ (Underway(r) \/ MayStart(r)) /\ r \in Job /\ Keeps(r) /\ Home[r] \in Process
  BY JobStepsAlone, Parameters DEF KeptInv
<1>2. CASE Begin(r)
  <2>1. job[r].pc = "idle" /\ job'[r].pc = "looping" /\ batch'[Home[r]].active /\ tip' = tip
    BY <1>2, BeginDoes DEF NoPush
  <2>2. \A p \in Process : Unused(p)
    BY <1>1, <2>1, OthersUnused DEF Working
  <2>3. \A p \in Process : Unused(p)'
    BY <1>2, <2>2, BeginDoes DEF Unused
  <2>4. Keeps(r)'
    BY <1>1, <2>1, <2>3 DEF Keeps
  <2> QED BY <1>1, <2>3, <2>4, KeptStays
<1>3. ASSUME NEW d \in Draft,
             ApproveNext(r, d) \/ JoinAwaitingPr(r, d) \/ ResetStranded(r, d) \/ CountFinished(r, d)
      PROVE  KeptInv'
  <2>1. job[r].pc = "looping" /\ batch' = batch /\ tip' = tip /\ status \in [Draft -> Status]
    BY <1>3, TakeDoes DEF NoPush, BatchInv, Types, DraftTypes
  <2>2. job'[r].pc \in {"looping", "resolving"}
    BY <1>3, TakeDoes
  <2>3. job'[r].pc = "resolving" => status'[job'[r].draft] = "approved"
    BY <1>3, <2>1, TakeDoes
  <2>4. job'[r].pending = <<>> => job[r].pending = <<>>
    <3>1. job[r].pending \in Seq(Draft)
      BY <1>1 DEF BatchInv, Types, JobTypes, JobType
    <3>2. Append(job[r].pending, d) # <<>>
      BY <3>1, SeqSetOf
    <3> QED BY <1>3, <3>2, TakeDoes
  <2>5. Keeps(r)'
    BY <1>1, <2>1, <2>2, <2>3, <2>4 DEF Keeps, Working, Unused
  <2>6. OnBranch' = OnBranch
    BY <2>1, WhatIsOnBranch
  <2> QED BY <1>1, <2>1, <2>2, <2>5, <2>6, KeptStays DEF Working
<1>4. CASE EndBatch(r)
  <2>1. /\ job[r].pc = "looping" /\ job'[r].pc \in {"reporting", "moving"}
        /\ batch'[Home[r]] = NotBatching /\ \A p \in Process \ {Home[r]} : batch'[p] = batch[p]
        /\ tip' = tip
    BY <1>4, EndBatchDoes DEF NoPush
  <2>2. \A p \in Process : Unused(p)'
    <3>1. \A p \in Process \ {Home[r]} : Unused(p)
      BY <1>1, OthersUnused
    <3>2. NotBatching.base = NoSha /\ NotBatching.entries = {}
      BY DEF NotBatching
    <3> QED BY <2>1, <3>1, <3>2 DEF Unused
  <2>3. job'[r].pc = "moving" => OnBranch' \subseteq job'[r].commit.tree
    <3>1. SUFFICES ASSUME job'[r].pc = "moving" PROVE OnBranch \subseteq job'[r].commit.tree
      BY <2>1, WhatIsOnBranch
    <3>2. batch[Home[r]].base \in Tip /\ batch[Home[r]].entries \in SUBSET Draft
      BY <1>1, <1>4, <3>1, EndBatchDoes DEF BatchInv, Types, BatchTypes, BatchType
    <3>3. OnBranch \subseteq batch[Home[r]].base.tree
      BY <1>1, <3>2, NullAssumption DEF KeptInv, BaseKeeps
    <3>4. job'[r].commit.tree = batch[Home[r]].base.tree \cup batch[Home[r]].entries
      BY <1>4, <3>1, <3>2, EndBatchDoes, Trees
    <3> QED BY <3>3, <3>4
  <2>4. Keeps(r)'
    BY <2>1, <2>3 DEF Keeps, Working
  <2> QED BY <1>1, <2>2, <2>4, KeptStays
<1>5. CASE GiveUpEmpty(r)
  <2>1. job[r].pc = "looping" /\ job[r].pending = <<>> /\ batch' = batch /\ job'[r].pc = "done"
    BY <1>5, RunLeavesDoes
  <2>2. \A p \in Process : Unused(p)'
    BY <1>1, <2>1, OthersUnused DEF Unused, Keeps, Working
  <2>3. Keeps(r)'
    BY <2>1 DEF Keeps, Working
  <2> QED BY <1>1, <2>2, <2>3, KeptStays
<1>6. CASE MoveRef(r) \/ MoveRefFails(r) \/ ReportShipped(r) \/ ReportFailed(r)
  <2>1. job[r].pc \notin Working /\ batch' = batch /\ job'[r].pc \in {"opening", "failing", "done"}
    BY <1>6, MoveDoes, RunLeavesDoes DEF Working
  <2>2. \A p \in Process : Unused(p)'
    BY <1>1, <2>1, OthersUnused DEF Unused
  <2>3. Keeps(r)'
    BY <2>1 DEF Keeps, Working
  <2> QED BY <1>1, <2>2, <2>3, KeptStays
<1> QED BY <1>2, <1>3, <1>4, <1>5, <1>6 DEF RunStep

\* Every step.
LEMMA KeptStep ==
  ASSUME Alone, Apart, BatchInv, KeptInv, [Next]_vars
  PROVE  KeptInv'
<1>0. Turns' /\ BatchIsWorked'
  BY TurnsStep, WorkedStep DEF KeptInv
<1>1. ASSUME NEW j \in Job, ItemStep(j) PROVE KeptInv'
  BY <1>0, <1>1, ItemKeeps
<1>2. ASSUME NEW r \in Run, RunStep(r) PROVE KeptInv'
  BY <1>0, <1>2, RunKeeps
<1>3. ASSUME NEW h \in Human, NEW d \in Draft, PersonApproves(h, d) PROVE KeptInv'
  <2>1. /\ h \in Job /\ h \notin Run /\ job[h].pc = "idle" /\ MayStart(h) /\ Only(h)
        /\ job'[h].pc = "resolving" /\ job'[h].draft = d /\ batch' = batch
        /\ status' = [status EXCEPT ![d] = "approved"] /\ status \in [Draft -> Status]
    BY <1>3, PersonDoes DEF BatchInv, Types, DraftTypes
  <2>2. Keeps(h)'
    BY <2>1 DEF Keeps
  <2>3. \A p \in Process : Unused(p)'
    BY <2>1, OthersUnused DEF Unused
  <2> QED BY <1>0, <2>1, <2>2, <2>3, KeptStays
<1>4. CASE Sweeping
  <2>1. UNCHANGED <<tip, batch, job>> /\ \A j \in Job : ~Underway(j)
    BY <1>4, SweepingAlone DEF KeptInv, Turns, MayStart
  <2>2. \A j \in Job : ~(Underway(j)')
    BY <2>1 DEF Underway
  <2>3. \A j \in Job : Keeps(j)'
    BY <2>2 DEF Keeps, Underway, Working
  <2>4. IdleIsUnused' /\ BaseKeeps'
    BY <2>1 DEF KeptInv, IdleIsUnused, BaseKeeps, Unused, OnBranch
  <2> QED BY <1>0, <2>3, <2>4 DEF KeptInv
<1>5. ASSUME NEW p \in Process, Crash(p) PROVE KeptInv'
  <2>1. /\ UNCHANGED <<tip, status>> /\ batch'[p].base = NoSha /\ batch'[p].entries = {}
        /\ \A q \in Process \ {p} : batch'[q] = batch[q]
    BY <1>5, CrashDoes DEF NoPush, NotBatching
  <2>2. \A k \in Job : Home[k] # p \/ ~Underway(k) => job'[k] = job[k]
    BY <1>5, CrashDoes
  <2>3. \A k \in Job : Underway(k)' => /\ job'[k] = job[k] /\ Home[k] \in Process
                                       /\ batch'[Home[k]] = batch[Home[k]]
    BY <1>5, <2>1, CrashDoes, Parameters DEF Underway
  <2>4. OnBranch' = OnBranch
    BY <2>1 DEF OnBranch
  <2>5. ASSUME NEW k \in Job PROVE Keeps(k)'
    <3>1. CASE Underway(k)'
      BY <2>1, <2>3, <2>4, <3>1 DEF KeptInv, Keeps, Unused
    <3>2. CASE ~(Underway(k)')
      BY <3>2 DEF Keeps, Underway, Working
    <3> QED BY <3>1, <3>2
  <2>6. BaseKeeps'
    BY <2>1, <2>4 DEF KeptInv, BaseKeeps
  <2>7. IdleIsUnused'
    <3>1. \A r \in Run : Home[r] # p => job'[r] = job[r]
      BY <2>2, Parameters
    <3> QED BY <2>1, <3>1 DEF KeptInv, IdleIsUnused, Unused
  <2> QED BY <1>0, <2>5, <2>6, <2>7 DEF KeptInv
<1>6. CASE MainMoves \/ UNCHANGED vars
  <2>1. UNCHANGED <<status, tip, batch, job>>
    BY <1>6, NobodyMoves
  <2> QED BY <1>0, <2>1 DEF KeptInv, Keeps, IdleIsUnused, BaseKeeps, Unused, OnBranch
<1> QED BY <1>1, <1>2, <1>3, <1>4, <1>5, <1>6, ByWhom

\* Whatever a step does, what is on the branch stays on it.
LEMMA BranchGrows ==
  ASSUME BatchInv, \A r \in Run : job[r].pc = "moving" => OnBranch \subseteq job[r].commit.tree, [Next]_vars
  PROVE  OnBranch \subseteq OnBranch'
<1>1. \A r \in Run : MoveRef(r) => OnBranch \subseteq job[r].commit.tree
  BY MoveDoes
<1> QED BY <1>1, WhoPushes, WhatIsOnBranch

\* At the start there is no branch and no batch.
LEMMA KeptStarts ==
  ASSUME Init
  PROVE  KeptInv
<1>1. \A j \in Job : job[j].pc = "idle"
  BY DEF Init, AtRest
<1>2. \A p \in Process : batch[p].active = FALSE /\ batch[p].base = NoSha /\ batch[p].entries = {}
  BY DEF Init, NotBatching
<1>3. sweep.pc = "idle"
  BY DEF Init, Asleep
<1> QED BY <1>1, <1>2, <1>3, WorkStarts, Parameters
        DEF KeptInv, Turns, OneAtATime, Underway, IdleIsUnused, BaseKeeps, Keeps, Unused, Working

-----------------------------------------------------------------------------
(* The same where one process does everything.                             *)

\* The program runs as one Node process: its scheduler and its dashboard share it.
OneProcess == \A j, k \in Job : Home[j] = Home[k]

\* A batch that started from a sha is what everybody stages in, until a run ends it.
OneBatch == \A p \in Process : batch[p].base # NoSha => batch[p].active /\ \A j \in Job : Home[j] = p

\* A run that moves the branch has ended the batch, and its commit holds whatever is
\* on the branch.
MovesOn(j) ==
  /\ job[j].pc = "staging" => job[j].existed = (tip # NoBranch)
  /\ job[j].pc = "moving" => OnBranch \subseteq job[j].commit.tree /\ batch[Home[j]].base = NoSha

OneInv == Turns /\ BaseKeeps /\ OneBatch /\ \A j \in Job : MovesOn(j)

\* It is enough to look at the job that moves.
LEMMA OneStays ==
  ASSUME Alone, OneInv, NEW j \in Job, Underway(j) \/ MayStart(j), Only(j), MovesOn(j)', BaseKeeps', OneBatch'
  PROVE  OneInv'
<1>1. Turns' /\ \A k \in Job \ {j} : ~Underway(k) /\ job'[k] = job[k]
  BY Mover, MoverTurns DEF OneInv, Only
<1>2. \A k \in Job \ {j} : MovesOn(k)'
  BY <1>1 DEF MovesOn, Underway
<1> QED BY <1>1, <1>2 DEF OneInv

\* A job's item: what is staged is kept, and what is applied finds no batch.
LEMMA ItemMovesOn ==
  ASSUME Alone, OneProcess, BatchInv, OneInv, NEW j \in Job, ItemStep(j)
  PROVE  OneInv'
<1>1. Only(j) /\ (Underway(j) \/ MayStart(j)) /\ MovesOn(j) /\ Home[j] \in Process
  BY JobStepsAlone, Parameters DEF OneInv
<1>2. CASE Resolve(j)
  <2>1. OnBranch' = OnBranch /\ batch' = batch /\ job'[j].pc = "staging"
    BY <1>2, ResolveDoes, WhatIsOnBranch
  <2>2. job'[j].existed = (tip' # NoBranch)
    <3>1. tip # NoBranch => Synced(tip) \in Tip
      BY TipsTyped DEF BatchInv, Types, GithubTypes
    <3> QED BY <1>2, <3>1, ResolveDoes, NullAssumption
  <2>3. MovesOn(j)' /\ BaseKeeps' /\ OneBatch'
    BY <2>1, <2>2 DEF MovesOn, OneInv, BaseKeeps, OneBatch
  <2> QED BY <1>1, <2>3, OneStays
<1>3. CASE Stage(j)
  <2>1. job[j].pc = "staging" /\ job'[j].pc = "recording"
    BY <1>3, StageDoes
  <2>2. MovesOn(j)'
    BY <2>1 DEF MovesOn
  <2>3. CASE batch[Home[j]].active
    <3>1. OnBranch' = OnBranch /\ batch'[Home[j]].active /\ \A p \in Process \ {Home[j]} : batch'[p] = batch[p]
      BY <1>3, <2>3, StageDoes, WhatIsOnBranch
    <3>2. OnBranch \subseteq batch'[Home[j]].base.tree
      <4>1. CASE batch[Home[j]].base # NoSha
        BY <1>1, <1>3, <2>3, <4>1, StageDoes DEF OneInv, BaseKeeps
      <4>2. CASE batch[Home[j]].base = NoSha
        <5>1. batch'[Home[j]].base = IF tip # NoBranch THEN tip ELSE FreshFromMain
          BY <1>1, <1>3, <2>1, <2>3, <4>2, StageDoes DEF MovesOn
        <5> QED BY <5>1 DEF OnBranch
      <4> QED BY <4>1, <4>2
    <3>3. BaseKeeps'
      BY <3>1, <3>2 DEF OneInv, BaseKeeps
    <3>4. OneBatch'
      BY <3>1 DEF OneInv, OneBatch, OneProcess
    <3> QED BY <1>1, <2>2, <3>3, <3>4, OneStays
  <2>4. CASE ~batch[Home[j]].active
    <3>1. batch' = batch /\ \A p \in Process : batch[p].base = NoSha
      BY <1>3, <2>4, StageDoes DEF OneInv, OneBatch
    <3>2. BaseKeeps' /\ OneBatch'
      BY <3>1 DEF BaseKeeps, OneBatch
    <3> QED BY <1>1, <2>2, <3>2, OneStays
  <2> QED BY <2>3, <2>4
<1>4. CASE ApplyFails(j) \/ RecordMisses(j) \/ Record(j) \/ OpenPr(j) \/ OpenPrFails(j)
  <2>1. batch' = batch /\ tip' = tip /\ job'[j].pc \notin {"staging", "moving"}
    BY <1>4, ItemEndsDoes, RecordDoes, OpenDoes DEF NoPush
  <2>2. MovesOn(j)' /\ BaseKeeps' /\ OneBatch'
    BY <2>1 DEF MovesOn, OneInv, BaseKeeps, OneBatch, OnBranch
  <2> QED BY <1>1, <2>2, OneStays
<1> QED BY <1>2, <1>3, <1>4 DEF ItemStep

\* A run's batch: what it ends holds the branch, and nothing else is staged.
LEMMA RunMovesOn ==
  ASSUME Alone, OneProcess, BatchInv, OneInv, NEW r \in Run, RunStep(r)
  PROVE  OneInv'
<1>1. Only(r) /\ (Underway(r) \/ MayStart(r)) /\ r \in Job /\ MovesOn(r) /\ Home[r] \in Process
  BY JobStepsAlone, Parameters DEF OneInv
<1>2. CASE Begin(r)
  <2>1. /\ tip' = tip /\ job'[r].pc = "looping"
        /\ \A p \in Process : batch'[p] = batch[p] \/ batch'[p].base = NoSha
    BY <1>2, BeginDoes DEF NoPush
  <2>2. MovesOn(r)' /\ BaseKeeps' /\ OneBatch'
    BY <2>1 DEF MovesOn, OneInv, BaseKeeps, OneBatch, OnBranch
  <2> QED BY <1>1, <2>2, OneStays
<1>3. CASE EndBatch(r)
  <2>1. /\ batch'[Home[r]] = NotBatching /\ \A p \in Process \ {Home[r]} : batch'[p] = batch[p]
        /\ tip' = tip /\ job'[r].pc \in {"reporting", "moving"} /\ NotBatching.base = NoSha
    BY <1>3, EndBatchDoes DEF NoPush, NotBatching
  <2>2. \A p \in Process : batch'[p].base = NoSha
    BY <1>1, <2>1 DEF OneInv, OneBatch
  <2>3. job'[r].pc = "moving" => OnBranch \subseteq job'[r].commit.tree
    <3>1. SUFFICES ASSUME job'[r].pc = "moving" PROVE OnBranch \subseteq job'[r].commit.tree
      OBVIOUS
    <3>2. batch[Home[r]].base \in Tip /\ batch[Home[r]].entries \in SUBSET Draft
      BY <1>1, <1>3, <3>1, EndBatchDoes DEF BatchInv, Types, BatchTypes, BatchType
    <3>3. OnBranch \subseteq batch[Home[r]].base.tree
      BY <1>1, <3>2, NullAssumption DEF OneInv, BaseKeeps
    <3>4. job'[r].commit.tree = batch[Home[r]].base.tree \cup batch[Home[r]].entries
      BY <1>3, <3>1, <3>2, EndBatchDoes, Trees
    <3> QED BY <3>3, <3>4
  <2>4. OnBranch' = OnBranch
    BY <2>1 DEF OnBranch
  <2>5. MovesOn(r)' /\ BaseKeeps' /\ OneBatch'
    BY <1>1, <2>1, <2>2, <2>3, <2>4 DEF MovesOn, BaseKeeps, OneBatch
  <2> QED BY <1>1, <2>5, OneStays
<1>4. CASE MoveRef(r)
  <2>1. job[r].pc = "moving" /\ batch' = batch /\ job'[r].pc \in {"opening", "failing"}
    BY <1>4, MoveDoes
  <2>2. \A p \in Process : batch[p].base = NoSha
    BY <1>1, <2>1 DEF MovesOn, OneInv, OneBatch
  <2>3. MovesOn(r)' /\ BaseKeeps' /\ OneBatch'
    BY <2>1, <2>2 DEF MovesOn, BaseKeeps, OneBatch
  <2> QED BY <1>1, <2>3, OneStays
<1>5. ASSUME tip' = tip, batch' = batch, job'[r].pc \notin {"staging", "moving"} PROVE OneInv'
  <2>1. MovesOn(r)' /\ BaseKeeps' /\ OneBatch'
    BY <1>5 DEF MovesOn, OneInv, BaseKeeps, OneBatch, OnBranch
  <2> QED BY <1>1, <2>1, OneStays
<1>6. ASSUME NEW d \in Draft,
             ApproveNext(r, d) \/ JoinAwaitingPr(r, d) \/ ResetStranded(r, d) \/ CountFinished(r, d)
      PROVE  OneInv'
  BY <1>5, <1>6, TakeDoes DEF NoPush
<1>7. CASE GiveUpEmpty(r) \/ ReportShipped(r) \/ ReportFailed(r)
  BY <1>5, <1>7, RunLeavesDoes DEF NoPush
<1>8. CASE MoveRefFails(r)
  <2>1. tip' = tip /\ batch' = batch /\ job'[r].pc \notin {"staging", "moving"}
    BY <1>8, MoveDoes DEF MoveRefFails, github
  <2> QED BY <1>5, <2>1
<1> QED BY <1>2, <1>3, <1>4, <1>6, <1>7, <1>8 DEF RunStep

\* Every step.
LEMMA OneStep ==
  ASSUME Alone, OneProcess, BatchInv, OneInv, [Next]_vars
  PROVE  OneInv'
<1>1. Turns'
  BY TurnsStep DEF OneInv
<1>2. ASSUME NEW h \in Human, NEW d \in Draft, PersonApproves(h, d) PROVE OneInv'
  <2>1. h \in Job /\ MayStart(h) /\ Only(h) /\ job'[h].pc = "resolving" /\ batch' = batch /\ tip' = tip
    BY <1>2, PersonDoes DEF NoPush
  <2>2. MovesOn(h)' /\ BaseKeeps' /\ OneBatch'
    BY <2>1 DEF MovesOn, OneInv, BaseKeeps, OneBatch, OnBranch
  <2> QED BY <2>1, <2>2, OneStays
<1>3. ASSUME NEW p \in Process, Crash(p) PROVE OneInv'
  <2>1. tip' = tip /\ batch'[p].base = NoSha /\ \A q \in Process \ {p} : batch'[q] = batch[q]
    BY <1>3, CrashDoes DEF NoPush, NotBatching
  <2>2. \A k \in Job : job'[k] = job[k] \/ job'[k].pc = "done"
    BY <1>3, CrashDoes
  <2>3. \A q \in Process : batch'[q] = batch[q] \/ batch'[q].base = NoSha
    BY <2>1
  <2>4. ASSUME NEW k \in Job PROVE MovesOn(k)'
    <3>1. Home[k] \in Process /\ MovesOn(k)
      BY Parameters DEF OneInv
    <3> QED BY <2>1, <2>2, <2>3, <3>1 DEF MovesOn, OnBranch
  <2> QED BY <1>1, <2>1, <2>3, <2>4 DEF OneInv, BaseKeeps, OneBatch, OnBranch
<1>4. CASE Sweeping \/ MainMoves \/ UNCHANGED vars
  <2>1. UNCHANGED <<tip, batch, job>>
    BY <1>4, SweepingAlone, NobodyMoves
  <2> QED BY <1>1, <2>1 DEF OneInv, MovesOn, BaseKeeps, OneBatch, OnBranch
<1> QED BY <1>2, <1>3, <1>4, ItemMovesOn, RunMovesOn, ByWhom

\* At the start there is no branch and no batch.
LEMMA OneStarts ==
  ASSUME Init
  PROVE  OneInv
<1>1. \A j \in Job : job[j].pc = "idle"
  BY DEF Init, AtRest
<1>2. \A p \in Process : batch[p].base = NoSha
  BY DEF Init, NotBatching
<1>3. sweep.pc = "idle"
  BY DEF Init, Asleep
<1> QED BY <1>1, <1>2, <1>3 DEF OneInv, Turns, OneAtATime, Underway, BaseKeeps, OneBatch, MovesOn

\* No ship run throws away a change that is already on the branch, whatever fails, is
\* killed or is pushed to the default branch, when runs, people and sweeps take turns,
\* if one process does everything or nobody approves a draft in a process that runs
\* ship stages.  Otherwise the change could join a batch that a ship stage began and
\* never ended, and that another process overtakes.
THEOREM PushedIsKept ==
  ASSUME Alone, Apart \/ OneProcess
  PROVE  Spec => PushedWorkKept
<1>1. BatchInv /\ (\A r \in Run : job[r].pc = "moving" => OnBranch \subseteq job[r].commit.tree) /\ [Next]_vars
        => [tip # NoBranch => tip.tree \subseteq tip'.tree]_vars
  <2>1. SUFFICES ASSUME BatchInv, \A r \in Run : job[r].pc = "moving" => OnBranch \subseteq job[r].commit.tree,
                        [Next]_vars, tip # NoBranch
                 PROVE  tip.tree \subseteq tip'.tree
    OBVIOUS
  <2>2. OnBranch \subseteq OnBranch' /\ tip' # NoBranch
    BY <2>1, BranchGrows, TipStays, NullAssumption
  <2> QED BY <2>1, <2>2 DEF OnBranch
<1>2. CASE Apart
  <2>1. BatchInv /\ KeptInv /\ [Next]_vars => KeptInv'
    BY <1>2, KeptStep
  <2>2. KeptInv => \A r \in Run : job[r].pc = "moving" => OnBranch \subseteq job[r].commit.tree
    BY Parameters DEF KeptInv, Keeps
  <2> QED BY <1>1, <2>1, <2>2, KeptStarts, BatchIsTyped, PTL DEF Spec, Fairness, PushedWorkKept
<1>3. CASE OneProcess
  <2>1. BatchInv /\ OneInv /\ [Next]_vars => OneInv'
    BY <1>3, OneStep
  <2>2. OneInv => \A r \in Run : job[r].pc = "moving" => OnBranch \subseteq job[r].commit.tree
    BY Parameters DEF OneInv, MovesOn
  <2> QED BY <1>1, <2>1, <2>2, OneStarts, BatchIsTyped, PTL DEF Spec, Fairness, PushedWorkKept
<1> QED BY <1>2, <1>3

-----------------------------------------------------------------------------
(* What is reported as pushed is on the branch.                            *)

\* A job underway will still see to it.
InHand(d) == \E j \in Job : Underway(j) /\ d \in SeqSet(job[j].pending)

\* A draft in a pull request is on the branch.  One pushed without an error is too, or
\* a job has it in hand, or a process was killed with its batch.
Pushed(d) ==
  /\ status[d] = "pr_opened" => d \in OnBranch
  /\ status[d] = "branch_pushed" /\ ~failed[d] => d \in OnBranch \/ InHand(d) \/ crashes > 0

\* What the batch of a run will put on the branch, and what is on it.
Secured(j) == OnBranch \cup (IF j \in Run THEN batch[Home[j]].entries ELSE {})

\* What a job has pending is secured, then in its commit, then on the branch.
Has(j) ==
  /\ job[j].pc \in Working => SeqSet(job[j].pending) \subseteq Secured(j)
  /\ job[j].pc = "recording" => job[j].draft \in Secured(j)
  /\ job[j].pc = "moving" => SeqSet(job[j].pending) \subseteq job[j].commit.tree
  /\ job[j].pc \in {"opening", "reporting"} => SeqSet(job[j].pending) \subseteq OnBranch

Contents == /\ \A d \in Draft : Pushed(d)
            /\ sweep.landed \subseteq OnBranch
            /\ \A j \in Job : Has(j)

ContentInv == KeptInv /\ HasTips /\ HonestInv /\ Contents

\* A draft that a job drops is on the branch, no longer pushed, or marked as failed.
LEMMA ContentsStay ==
  ASSUME Alone, ContentInv, OnBranch \subseteq OnBranch', NEW j \in Job, Underway(j) \/ MayStart(j), Only(j),
         Has(j)',
         \A d \in Draft : status'[d] = "pr_opened" => status[d] = "pr_opened" \/ d \in OnBranch',
         \A d \in Draft : status'[d] = "branch_pushed" /\ ~failed'[d] =>
            \/ status[d] = "branch_pushed" /\ ~failed[d]
            \/ d \in OnBranch' \/ InHand(d)',
         \/ Underway(j)' /\ SeqSet(job[j].pending) \subseteq SeqSet(job'[j].pending)
         \/ \A d \in SeqSet(job[j].pending) : \/ d \in OnBranch'
                                              \/ status'[d] = "branch_pushed" => failed'[d]
  PROVE  Contents'
<1>1. \A k \in Job \ {j} : ~Underway(k) /\ job'[k] = job[k]
  BY Mover DEF ContentInv, KeptInv, Only
<1>2. \A k \in Job : Has(k)'
  <2>1. \A k \in Job \ {j} : Has(k)'
    BY <1>1 DEF Has, Underway, Working
  <2> QED BY <2>1
<1>3. sweep'.landed \subseteq OnBranch'
  BY DEF Only, ContentInv, Contents
<1>4. ASSUME NEW d \in Draft PROVE Pushed(d)'
  <2>1. status'[d] = "pr_opened" => d \in OnBranch'
    BY DEF ContentInv, Contents, Pushed
  <2>2. ASSUME status'[d] = "branch_pushed", ~failed'[d] PROVE d \in OnBranch' \/ InHand(d)' \/ crashes' > 0
    <3>1. SUFFICES ASSUME InHand(d) PROVE d \in OnBranch' \/ InHand(d)'
      BY <2>2 DEF ContentInv, Contents, Pushed, Only
    <3>2. Underway(j) /\ d \in SeqSet(job[j].pending)
      BY <1>1, <3>1 DEF InHand
    <3> QED BY <2>2, <3>2 DEF InHand
  <2> QED BY <2>1, <2>2 DEF Pushed
<1> QED BY <1>2, <1>3, <1>4 DEF Contents

\* What the UPDATEs leave pushed without an error was so before.
LEMMA UpdatesPush ==
  ASSUME DraftTypes, NEW d \in Draft
  PROVE  /\ \A e \in Draft : MarkBranchPushed(e) => /\ status'[d] = "pr_opened" => status[d] = "pr_opened"
                                                    /\ status'[d] = "branch_pushed" /\ ~failed'[d] =>
                                                         d = e \/ (status[d] = "branch_pushed" /\ ~failed[d])
         /\ \A D \in SUBSET Draft : MarkPrOpened(D) =>
              /\ status'[d] = "pr_opened" => status[d] = "pr_opened" \/ d \in D
              /\ status'[d] = "branch_pushed" /\ ~failed'[d] => status[d] = "branch_pushed" /\ ~failed[d]
         /\ \A D \in SUBSET Draft : RecordMergeFailure(D) \/ MarkAbandoned(D) =>
              /\ status'[d] = "pr_opened" => status[d] = "pr_opened"
              /\ status'[d] = "branch_pushed" /\ ~failed'[d] => status[d] = "branch_pushed" /\ ~failed[d] /\ d \notin D
<1>1. \A e \in Draft : MarkBranchPushed(e) => /\ status'[d] = "pr_opened" => status[d] = "pr_opened"
                                              /\ status'[d] = "branch_pushed" /\ ~failed'[d] =>
                                                   d = e \/ (status[d] = "branch_pushed" /\ ~failed[d])
  BY DEF MarkBranchPushed, DraftTypes
<1>2. \A D \in SUBSET Draft : MarkPrOpened(D) =>
        /\ status'[d] = "pr_opened" => status[d] = "pr_opened" \/ d \in D
        /\ status'[d] = "branch_pushed" /\ ~failed'[d] => status[d] = "branch_pushed" /\ ~failed[d]
  BY DEF MarkPrOpened, DraftTypes
<1>3. \A D \in SUBSET Draft : RecordMergeFailure(D) \/ MarkAbandoned(D) =>
        /\ status'[d] = "pr_opened" => status[d] = "pr_opened"
        /\ status'[d] = "branch_pushed" /\ ~failed'[d] => status[d] = "branch_pushed" /\ ~failed[d] /\ d \notin D
  BY DEF RecordMergeFailure, MarkAbandoned, DraftTypes
<1> QED BY <1>1, <1>2, <1>3

\* Every step of a job on its item.
LEMMA ItemContents ==
  ASSUME Alone, Apart, BatchInv, ContentInv, KeptInv', NEW j \in Job, ItemStep(j),
         OnBranch \subseteq OnBranch'
  PROVE  Contents'
<1> DEFINE P == SeqSet(job[j].pending)
<1>1. /\ Only(j) /\ Underway(j) /\ Keeps(j) /\ Has(j) /\ Home[j] \in Process /\ DraftTypes
      /\ P \in SUBSET Draft /\ status \in [Draft -> Status] /\ failed \in [Draft -> BOOLEAN]
  <2>1. job[j].pc # "idle"
    BY DEF ItemStep, Resolve, Stage, ApplyFails, Record, RecordMisses, OpenPr, OpenPrFails
  <2>2. job[j].pc # "done"
    BY DEF ItemStep, Resolve, Stage, ApplyFails, Record, RecordMisses, OpenPr, OpenPrFails
  <2>3. P \in SUBSET Draft
    BY SeqSetOf DEF BatchInv, Types, JobTypes, JobType, SeqSet
  <2> QED BY <2>1, <2>2, <2>3, JobStepsAlone, Parameters
          DEF ContentInv, KeptInv, Contents, Underway, BatchInv, Types, DraftTypes
<1>2. CASE Resolve(j)
  <2>1. /\ job[j].pc = "resolving" /\ job'[j].pc = "staging" /\ UNCHANGED <<status, failed, batch>>
        /\ job'[j].pending = job[j].pending
    BY <1>2, ResolveDoes
  <2>2. OnBranch' = OnBranch
    BY <1>2, WhatIsOnBranch
  <2>3. Has(j)'
    BY <1>1, <2>1, <2>2 DEF Has, Secured, Working
  <2> QED BY <1>1, <2>1, <2>3, ContentsStay DEF Underway
<1>3. CASE Stage(j)
  <2>1. /\ job[j].pc = "staging" /\ job'[j].pc = "recording" /\ UNCHANGED <<status, failed>>
        /\ job'[j].pending = job[j].pending /\ job'[j].draft = job[j].draft
    BY <1>3, StageDoes DEF Carries
  <2>2. Secured(j) \cup {job[j].draft} \subseteq Secured(j)'
    <3>1. CASE j \in Run
      <4>1. batch[Home[j]].active
        BY <1>1, <2>1, <3>1 DEF Keeps, Working
      <4>2. batch'[Home[j]].entries = batch[Home[j]].entries \cup {job[j].draft}
        BY <1>3, <4>1, StageDoes
      <4> QED BY <3>1, <4>2 DEF Secured
    <3>2. CASE j \notin Run
      <4>1. ~batch[Home[j]].active
        BY <1>1, <3>2, PersonCommits DEF ContentInv, Job
      <4>2. OnBranch' = OnBranch \cup {job[j].draft}
        BY <1>3, <4>1, WhatIsOnBranch
      <4> QED BY <3>2, <4>2 DEF Secured
    <3> QED BY <3>1, <3>2
  <2>3. Has(j)'
    BY <1>1, <2>1, <2>2 DEF Has, Working
  <2> QED BY <1>1, <2>1, <2>3, ContentsStay DEF Underway
<1>4. CASE ApplyFails(j) \/ RecordMisses(j)
  <2>1. /\ job[j].pc \in Working /\ UNCHANGED <<status, batch, tip>> /\ \A d \in Draft : failed[d] => failed'[d]
        /\ j \in Run => job'[j].pc = "looping" /\ job'[j].pending = job[j].pending
        /\ j \notin Run => job'[j].pc = "done"
    BY <1>4, ItemEndsDoes DEF NoPush, Working
  <2>2. OnBranch' = OnBranch
    BY <2>1, WhatIsOnBranch
  <2>3. Has(j)'
    BY <1>1, <2>1, <2>2 DEF Has, Secured, Working
  <2>4. \/ Underway(j)' /\ SeqSet(job[j].pending) \subseteq SeqSet(job'[j].pending)
        \/ \A d \in SeqSet(job[j].pending) : d \in OnBranch'
    BY <1>1, <2>1, <2>2 DEF Has, Secured, Underway
  <2>5. \A d \in Draft : status'[d] = "branch_pushed" /\ ~failed'[d] => status[d] = "branch_pushed" /\ ~failed[d]
    BY <2>1
  <2> QED BY <1>1, <2>1, <2>3, <2>4, <2>5, ContentsStay
<1>5. CASE Record(j)
  <2>1. /\ job[j].pc = "recording" /\ UNCHANGED <<batch, tip>> /\ job[j].draft \in Draft
        /\ job'[j].pc = (IF j \in Run THEN "looping" ELSE "opening")
        /\ MarkBranchPushed(job[j].draft)
    BY <1>5, RecordDoes DEF NoPush
  <2>2. PICK e \in Draft : e = job[j].draft
    BY <2>1
  <2>3. SeqSet(job'[j].pending) = SeqSet(job[j].pending) \cup {job[j].draft}
    BY <1>5, RecordDoes
  <2>4. OnBranch' = OnBranch
    BY <2>1, WhatIsOnBranch
  <2>5. SeqSet(job'[j].pending) \subseteq Secured(j) /\ Secured(j)' = Secured(j)
    BY <1>1, <2>1, <2>3, <2>4 DEF Has, Secured, Working
  <2>6. Has(j)'
    <3>1. CASE j \in Run
      BY <2>1, <2>5, <3>1 DEF Has
    <3>2. CASE j \notin Run
      BY <2>1, <2>4, <2>5, <3>2 DEF Has, Secured, Working
    <3> QED BY <3>1, <3>2
  <2>7. Underway(j)' /\ InHand(e)'
    BY <2>2, <2>1, <2>3 DEF Underway, InHand
  <2>8. \A d \in Draft : /\ status'[d] = "pr_opened" => status[d] = "pr_opened"
                         /\ status'[d] = "branch_pushed" /\ ~failed'[d] =>
                              \/ status[d] = "branch_pushed" /\ ~failed[d]
                              \/ InHand(d)'
    BY <1>1, <2>2, <2>1, <2>7, UpdatesPush
  <2> QED BY <1>1, <2>3, <2>6, <2>7, <2>8, ContentsStay
<1>6. CASE OpenPr(j) \/ OpenPrFails(j)
  <2>1. /\ job[j].pc = "opening" /\ tip' = tip
        /\ job'[j].pc \in {"reporting", "failing", "done"}
        /\ job'[j].pc = "done" \/ job'[j].pending = job[j].pending
    BY <1>6, OpenDoes DEF Carries
  <2>2. OnBranch' = OnBranch
    BY <2>1, WhatIsOnBranch
  <2>3. P \subseteq OnBranch'
    BY <1>1, <2>1, <2>2 DEF Has
  <2>4. Has(j)'
    BY <2>1, <2>3 DEF Has, Working
  <2>5. \A d \in Draft : /\ status'[d] = "pr_opened" => status[d] = "pr_opened" \/ d \in OnBranch'
                         /\ status'[d] = "branch_pushed" /\ ~failed'[d] => status[d] = "branch_pushed" /\ ~failed[d]
    <3>1. CASE OpenPr(j)
      <4>1. MarkPrOpened(P)
        BY <3>1, OpenDoes
      <4> HIDE DEF P
      <4> QED BY <1>1, <2>3, <4>1, UpdatesPush
    <3>2. CASE OpenPrFails(j)
      BY <3>2, OpenDoes
    <3> QED BY <1>6, <3>1, <3>2
  <2> QED BY <1>1, <2>3, <2>4, <2>5, ContentsStay
<1> QED BY <1>2, <1>3, <1>4, <1>5, <1>6 DEF ItemStep

\* Every step of a run on its batch.
LEMMA RunContents ==
  ASSUME Alone, Repair = {} \/ MaxCrash = 0, BatchInv, ContentInv, KeptInv', NEW r \in Run, RunStep(r),
         OnBranch \subseteq OnBranch'
  PROVE  Contents'
<1> DEFINE P == SeqSet(job[r].pending)
<1>1. /\ Only(r) /\ (Underway(r) \/ MayStart(r)) /\ r \in Job /\ Has(r) /\ Home[r] \in Process /\ DraftTypes
      /\ P \in SUBSET Draft /\ status \in [Draft -> Status] /\ failed \in [Draft -> BOOLEAN]
      /\ job[r].pending \in Seq(Draft)
  <2>1. r \in Job
    BY Parameters
  <2>2. P \in SUBSET Draft /\ job[r].pending \in Seq(Draft)
    BY <2>1, SeqSetOf DEF BatchInv, Types, JobTypes, JobType, SeqSet
  <2> QED BY <2>1, <2>2, JobStepsAlone, Parameters
          DEF ContentInv, KeptInv, Contents, BatchInv, Types, DraftTypes
<1>2. CASE Begin(r)
  <2>1. /\ job'[r].pc = "looping" /\ job'[r].pending = <<>> /\ job[r].pending = <<>>
        /\ UNCHANGED <<status, failed>>
    BY <1>2, BeginDoes DEF Carries
  <2>2. Has(r)' /\ Underway(r)'
    BY <2>1 DEF Has, SeqSet, Underway
  <2> QED BY <1>1, <2>1, <2>2, ContentsStay
<1>3. ASSUME NEW d \in Draft,
             ApproveNext(r, d) \/ JoinAwaitingPr(r, d) \/ ResetStranded(r, d) \/ CountFinished(r, d)
      PROVE  Contents'
  <2>1. job[r].pc = "looping" /\ UNCHANGED <<failed, batch, tip>>
    BY <1>3, TakeDoes DEF NoPush
  <2>2. OnBranch' = OnBranch
    BY <2>1, WhatIsOnBranch
  <2>3. P \subseteq Secured(r) /\ Secured(r)' = Secured(r)
    BY <1>1, <2>1, <2>2 DEF Has, Secured, Working
  <2>4. /\ job'[r].pc \in {"looping", "resolving"}
        /\ SeqSet(job[r].pending) \subseteq SeqSet(job'[r].pending)
        /\ SeqSet(job'[r].pending) \subseteq Secured(r)
    <3>1. CASE JoinAwaitingPr(r, d)
      <4>1. /\ job'[r].pc = "looping" /\ job'[r].pending = Append(job[r].pending, d)
            /\ status[d] = "branch_pushed" /\ ~failed[d] /\ d \in Repair
        BY <3>1, TakeDoes
      <4>2. SeqSet(job'[r].pending) = P \cup {d}
        BY <1>1, <4>1, SeqSetOf
      <4>3. crashes = 0
        BY <4>1 DEF BatchInv, Types, BoundTypes
      <4>4. d \in OnBranch \/ InHand(d)
        BY <4>1, <4>3 DEF ContentInv, Contents, Pushed
      <4>5. InHand(d) => d \in P
        <5>1. \A k \in Job \ {r} : ~Underway(k)
          BY <1>1, Mover DEF ContentInv, KeptInv
        <5> QED BY <5>1 DEF InHand
      <4>6. d \in Secured(r)
        BY <2>3, <4>4, <4>5 DEF Secured
      <4> QED BY <2>3, <4>1, <4>2, <4>6
    <3>2. CASE ~JoinAwaitingPr(r, d)
      BY <1>3, <2>3, <3>2, TakeDoes
    <3> QED BY <3>1, <3>2
  <2>5. Has(r)' /\ Underway(r)'
    BY <2>3, <2>4 DEF Has, Underway, Working
  <2>6. \A e \in Draft : /\ status'[e] = "pr_opened" => status[e] = "pr_opened"
                         /\ status'[e] = "branch_pushed" => status[e] = "branch_pushed"
    BY <1>1, <1>3, TakeDoes
  <2> QED BY <1>1, <2>1, <2>4, <2>5, <2>6, ContentsStay
<1>4. CASE EndBatch(r)
  <2>1. /\ job[r].pc = "looping" /\ job'[r].pending = job[r].pending /\ UNCHANGED <<status, failed, tip>>
        /\ job'[r].pc \in {"reporting", "moving"}
    BY <1>4, EndBatchDoes DEF NoPush
  <2>2. OnBranch' = OnBranch
    BY <2>1, WhatIsOnBranch
  <2>3. P \subseteq OnBranch \cup batch[Home[r]].entries
    BY <1>1, <2>1 DEF Has, Secured, Working
  <2>4. job'[r].pc = "reporting" => P \subseteq OnBranch
    BY <1>4, <2>3, EndBatchDoes
  <2>5. job'[r].pc = "moving" => P \subseteq job'[r].commit.tree
    <3>1. SUFFICES ASSUME job'[r].pc = "moving" PROVE P \subseteq job'[r].commit.tree
      OBVIOUS
    <3>2. OnBranch' \subseteq job'[r].commit.tree
      BY <1>1, <3>1 DEF KeptInv, Keeps
    <3>3. batch[Home[r]].base \in Tip /\ batch[Home[r]].entries \in SUBSET Draft
      BY <1>1, <1>4, <3>1, EndBatchDoes DEF BatchInv, Types, BatchTypes, BatchType
    <3>4. job'[r].commit.tree = batch[Home[r]].base.tree \cup batch[Home[r]].entries
      BY <1>4, <3>1, <3>3, EndBatchDoes, Trees
    <3> QED BY <2>2, <2>3, <3>2, <3>4
  <2>6. Has(r)' /\ Underway(r)'
    BY <2>1, <2>2, <2>4, <2>5 DEF Has, Underway, Working
  <2> QED BY <1>1, <2>1, <2>6, ContentsStay
<1>5. CASE MoveRef(r) \/ MoveRefFails(r)
  <2>1. /\ job[r].pc = "moving" /\ job'[r].pending = job[r].pending /\ UNCHANGED <<status, failed>>
        /\ job'[r].pc \in {"opening", "failing"}
    BY <1>5, MoveDoes DEF Carries
  <2>2. job'[r].pc = "opening" => P \subseteq OnBranch'
    <3>1. SUFFICES ASSUME job'[r].pc = "opening" PROVE P \subseteq OnBranch'
      OBVIOUS
    <3>2. tip' = job[r].commit /\ job[r].commit \in Tip
      BY <1>1, <1>5, <2>1, <3>1, MoveDoes DEF BatchInv, Types, JobTypes, Ready
    <3> QED BY <1>1, <2>1, <3>2, NullAssumption DEF Has, OnBranch
  <2>3. Has(r)' /\ Underway(r)'
    BY <2>1, <2>2 DEF Has, Underway, Working
  <2> QED BY <1>1, <2>1, <2>3, ContentsStay
<1>6. CASE ReportShipped(r) \/ GiveUpEmpty(r)
  <2>1. /\ job'[r].pc = "done" /\ UNCHANGED <<status, failed, tip>>
        /\ job[r].pc = "reporting" \/ job[r].pending = <<>>
    BY <1>6, RunLeavesDoes DEF NoPush
  <2>2. P \subseteq OnBranch'
    BY <1>1, <2>1, WhatIsOnBranch DEF Has, SeqSet
  <2>3. Has(r)'
    BY <2>1 DEF Has, Working
  <2> QED BY <1>1, <2>1, <2>2, <2>3, ContentsStay
<1>7. CASE ReportFailed(r)
  <2>1. job'[r].pc = "done" /\ (RecordMergeFailure(P) \/ MarkAbandoned(P))
    BY <1>7, RunLeavesDoes
  <2>2. Has(r)'
    BY <2>1 DEF Has, Working
  <2> HIDE DEF P
  <2>3. \A d \in Draft : /\ status'[d] = "pr_opened" => status[d] = "pr_opened"
                         /\ status'[d] = "branch_pushed" /\ ~failed'[d] =>
                              status[d] = "branch_pushed" /\ ~failed[d] /\ d \notin P
    BY <1>1, <2>1, UpdatesPush
  <2> USE DEF P
  <2> QED BY <1>1, <2>2, <2>3, ContentsStay
<1> QED BY <1>2, <1>3, <1>4, <1>5, <1>6, <1>7 DEF RunStep

\* Every step of the sweep, which finds on the branch what its commits name.
LEMMA SweepContents ==
  ASSUME Alone, BatchInv, ContentInv, Sweeping
  PROVE  Contents'
<1>1. UNCHANGED <<tip, batch, job, crashes>> /\ \A j \in Job : ~Underway(j)
  BY SweepingAlone DEF ContentInv, KeptInv, Turns, MayStart
<1>2. /\ sweep \in SweepType /\ sweep.seen \in SUBSET Draft /\ sweep.landed \in SUBSET Draft
      /\ status \in [Draft -> Status] /\ failed \in [Draft -> BOOLEAN] /\ DraftTypes
  BY DEF BatchInv, Types, SweepTypes, SweepType, DraftTypes
<1>3. \A j \in Job : Has(j)'
  BY <1>1 DEF Has, Underway, Working
<1>4. OnBranch' = OnBranch /\ sweep.landed \subseteq OnBranch
  BY <1>1 DEF OnBranch, ContentInv, Contents
<1>5. tip # NoBranch => Named \subseteq OnBranch
  BY DEF ContentInv, HonestInv, Honest, Named, OnBranch
<1>6. sweep'.landed \subseteq OnBranch
  <2>1. Asleep.landed = {}
    BY DEF Asleep
  <2>2. SweepList => sweep'.landed = {}
    BY DEF SweepList
  <2>3. SweepCompare => sweep' = Asleep \/ (tip # NoBranch /\ sweep'.landed = sweep.seen \cap Named)
    BY <1>2 DEF SweepCompare, SweepType
  <2>4. SweepRecheck => tip # NoBranch /\ sweep'.landed = sweep.landed \cup (sweep.seen \cap Named)
    BY <1>2 DEF SweepRecheck, SweepType, ContentInv, HasTips
  <2>5. SweepReadFails \/ SweepSettle => sweep' = Asleep \/ sweep'.landed = sweep.landed
    BY <1>2 DEF SweepReadFails, SweepSettle, SweepType
  <2>6. SweepOpen \/ SweepOpenFails => sweep' = Asleep
    BY DEF SweepOpen, SweepOpenFails
  <2> QED BY <1>4, <1>5, <2>1, <2>2, <2>3, <2>4, <2>5, <2>6 DEF Sweeping
<1>7. \A d \in Draft : /\ status'[d] = "pr_opened" => status[d] = "pr_opened" \/ d \in OnBranch
                       /\ status'[d] = "branch_pushed" /\ ~failed'[d] =>
                            (status[d] = "branch_pushed" /\ ~failed[d]) \/ d \in OnBranch
  <2>1. CASE UNCHANGED <<status, failed>>
    BY <2>1
  <2>2. CASE SweepSettle
    BY <1>2, <1>4, <2>2 DEF SweepSettle
  <2>3. CASE SweepOpen
    BY <1>2, <1>4, <2>3, UpdatesPush DEF SweepOpen
  <2>4. CASE SweepOpenFails /\ ~UNCHANGED <<status, failed>>
    <3>1. PICK e \in sweep.landed : RecordMergeFailure({e})
      BY <2>4 DEF SweepOpenFails
    <3>2. {e} \in SUBSET Draft
      BY <1>2, <3>1
    <3> QED BY <1>2, <3>1, <3>2, UpdatesPush
  <2> QED BY <2>1, <2>2, <2>3, <2>4 DEF Sweeping, SweepList, SweepCompare, SweepRecheck, SweepReadFails
<1>8. \A d \in Draft : ~InHand(d)
  BY <1>1 DEF InHand
<1>9. \A d \in Draft : Pushed(d)'
  BY <1>1, <1>4, <1>7, <1>8 DEF Pushed, ContentInv, Contents
<1> QED BY <1>3, <1>4, <1>6, <1>9 DEF Contents

\* Every step.
LEMMA ContentStep ==
  ASSUME Alone, Apart, Repair = {} \/ MaxCrash = 0, BatchInv, ContentInv, [Next]_vars
  PROVE  ContentInv'
<1>1. KeptInv' /\ HasTips' /\ HonestInv' /\ OnBranch \subseteq OnBranch'
  <2>1. \A r \in Run : job[r].pc = "moving" => OnBranch \subseteq job[r].commit.tree
    BY Parameters DEF ContentInv, KeptInv, Keeps
  <2> QED BY <2>1, KeptStep, TipsStep, HonestStep, BranchGrows DEF ContentInv
<1>2. ASSUME NEW j \in Job, ItemStep(j) PROVE Contents'
  BY <1>1, <1>2, ItemContents
<1>3. ASSUME NEW r \in Run, RunStep(r) PROVE Contents'
  BY <1>1, <1>3, RunContents
<1>4. ASSUME NEW h \in Human, NEW d \in Draft, PersonApproves(h, d) PROVE Contents'
  <2>1. /\ h \in Job /\ MayStart(h) /\ Only(h) /\ job[h].pending = <<>>
        /\ job'[h].pc = "resolving" /\ job'[h].pending = <<>> /\ failed' = failed
        /\ status' = [status EXCEPT ![d] = "approved"] /\ status \in [Draft -> Status]
    BY <1>4, PersonDoes DEF BatchInv, Types, DraftTypes
  <2>2. Has(h)' /\ Underway(h)'
    BY <2>1 DEF Has, SeqSet, Underway
  <2>3. \A e \in Draft : status'[e] # "approved" => status'[e] = status[e]
    BY <2>1
  <2> QED BY <1>1, <2>1, <2>2, <2>3, ContentsStay
<1>5. ASSUME Sweeping PROVE Contents'
  BY <1>5, SweepContents
<1>6. ASSUME NEW p \in Process, Crash(p) PROVE Contents'
  <2>1. /\ UNCHANGED <<tip, status, failed>> /\ sweep' \in {sweep, Asleep} /\ crashes' > 0
        /\ \A q \in Process \ {p} : batch'[q] = batch[q]
    BY <1>6, CrashDoes DEF NoPush
  <2>2. \A k \in Job : Underway(k)' => /\ job'[k] = job[k] /\ Underway(k)
                                       /\ batch'[Home[k]] = batch[Home[k]]
    BY <1>6, <2>1, CrashDoes, Parameters DEF Underway
  <2>3. OnBranch' = OnBranch
    BY <2>1 DEF OnBranch
  <2>4. ASSUME NEW k \in Job PROVE Has(k)'
    <3>1. CASE Underway(k)'
      BY <2>2, <2>3, <3>1 DEF ContentInv, Contents, Has, Secured
    <3>2. CASE ~(Underway(k)')
      BY <3>2 DEF Has, Underway, Working
    <3> QED BY <3>1, <3>2
  <2>5. sweep'.landed \subseteq OnBranch'
    BY <2>1, <2>3 DEF ContentInv, Contents, Asleep
  <2>6. \A d \in Draft : Pushed(d)'
    BY <2>1, <2>3 DEF ContentInv, Contents, Pushed
  <2> QED BY <2>4, <2>5, <2>6 DEF Contents
<1>7. ASSUME MainMoves \/ UNCHANGED vars PROVE Contents'
  <2>1. UNCHANGED <<status, failed, tip, batch, job, sweep, crashes>>
    BY <1>7, NobodyMoves
  <2> QED BY <2>1 DEF ContentInv, Contents, Pushed, InHand, Underway, Has, Secured, OnBranch
<1> QED BY <1>1, <1>2, <1>3, <1>4, <1>5, <1>6, <1>7, ByWhom DEF ContentInv

\* At the start nothing is pending and nothing is pushed.
LEMMA ContentStarts ==
  ASSUME Init
  PROVE  ContentInv
<1>1. \A j \in Job : job[j].pc = "idle"
  BY DEF Init, AtRest
<1>2. \A p \in Process : batch[p].base = NoSha
  BY DEF Init, NotBatching
<1>3. sweep.pc = "idle" /\ sweep.landed = {} /\ tip = NoBranch /\ ~pr /\ \A d \in Draft : status[d] = "new"
  BY DEF Init, Asleep
<1> QED BY <1>1, <1>2, <1>3, KeptStarts
        DEF ContentInv, HasTips, HonestInv, Contents, Pushed, Has, Working

\* No draft is reported against a pull request that does not contain its change ("the
\* precise 'worse than calling it failed' outcome", lib/draft-ship-state.js), when runs,
\* people and sweeps take turns, nobody approves a draft in a process that runs ship
\* stages, and no process is killed or no finished draft is re-offered.  A kill loses the batch of a draft recorded as pushed, and a repair item
\* that offers the draft again would take it for one that is on the branch.
THEOREM PrHasItsDrafts ==
  ASSUME Alone, Apart, Repair = {} \/ MaxCrash = 0
  PROVE  Spec => []PrContainsItsDrafts
<1>1. BatchInv /\ ContentInv /\ [Next]_vars => ContentInv'
  BY ContentStep
<1>2. ContentInv => PrContainsItsDrafts
  BY DEF ContentInv, Contents, Pushed, OnBranch, PrContainsItsDrafts
<1> QED BY <1>1, <1>2, ContentStarts, BatchIsTyped, PTL DEF Spec, Fairness

\* What draftShipState takes AWAITING_PR to mean, whenever nobody is in the middle of
\* shipping, in the same circumstances and where no process is killed:
\* 'branch_pushed' without an error is a change that is on the branch.
THEOREM AwaitingIsOnBranch ==
  ASSUME Alone, Apart, MaxCrash = 0
  PROVE  Spec => []AwaitingPrIsOnBranch
<1>1. BatchInv /\ ContentInv /\ [Next]_vars => ContentInv'
  BY ContentStep
<1>2. BatchInv /\ ContentInv => AwaitingPrIsOnBranch
  <2>1. BatchInv => crashes = 0
    BY DEF BatchInv, Types, BoundTypes
  <2> QED BY <2>1 DEF ContentInv, Contents, Pushed, InHand, OnBranch, AwaitingPrIsOnBranch
<1> QED BY <1>1, <1>2, ContentStarts, BatchIsTyped, PTL DEF Spec, Fairness

-----------------------------------------------------------------------------
(* A draft in the pull request stays in it.                                *)

\* What a job has pending waits for its pull request, and is not marked as failed
\* before the job has tried to open it.
Mine(j) ==
  /\ job[j].pc \in Working \cup {"moving", "opening", "failing"} =>
       \A d \in SeqSet(job[j].pending) : status[d] = "branch_pushed"
  /\ job[j].pc \in Working => \A d \in SeqSet(job[j].pending) : ~failed[d]

\* Nor does anybody finish what the sweep has listed.
SeenWaits ==
  /\ sweep.pc \in {"listed", "compared", "rechecked"} => \A d \in sweep.seen : status[d] = "branch_pushed"
  /\ sweep.pc # "idle" => sweep.landed \subseteq sweep.seen

MineInv == Turns /\ SeenWaits /\ \A j \in Job : Mine(j)

\* It is enough to look at the job that moves.
LEMMA MineStays ==
  ASSUME Alone, MineInv, NEW j \in Job, Underway(j) \/ MayStart(j), Only(j), Mine(j)'
  PROVE  MineInv'
<1>1. Turns' /\ sweep' = sweep /\ sweep.pc = "idle" /\ \A k \in Job \ {j} : ~Underway(k) /\ job'[k] = job[k]
  BY Mover, MoverTurns DEF MineInv, Only
<1>2. \A k \in Job \ {j} : Mine(k)'
  BY <1>1 DEF Mine, Underway, Working
<1> QED BY <1>1, <1>2 DEF MineInv, SeenWaits

\* A job's item.
LEMMA ItemIsMine ==
  ASSUME Alone, BatchInv, MineInv, NEW j \in Job, ItemStep(j)
  PROVE  MineInv'
<1>1. /\ Only(j) /\ (Underway(j) \/ MayStart(j)) /\ Mine(j)
      /\ status \in [Draft -> Status] /\ failed \in [Draft -> BOOLEAN]
      /\ SeqSet(job[j].pending) \subseteq Draft
  <2>1. job[j].pending \in Seq(Draft)
    BY DEF BatchInv, Types, JobTypes, JobType
  <2>2. SeqSet(job[j].pending) \subseteq Draft
    BY <2>1 DEF SeqSet
  <2> QED BY <2>2, JobStepsAlone DEF MineInv, BatchInv, Types, DraftTypes
<1>2. CASE Resolve(j) \/ Stage(j)
  <2>1. job[j].pc \in Working /\ job'[j].pc \in Working /\ job'[j].pending = job[j].pending
        /\ UNCHANGED <<status, failed>>
    BY <1>2, ResolveDoes, StageDoes DEF Carries, Working
  <2> QED BY <1>1, <2>1, MineStays DEF Mine
<1>3. CASE ApplyFails(j) \/ RecordMisses(j)
  <2>1. /\ job[j].pc \in Working /\ status' = status
        /\ IF j \in Run THEN job'[j].pc = "looping" /\ job'[j].pending = job[j].pending
                        ELSE job'[j].pc = "done"
    BY <1>3, ItemEndsDoes DEF Working
  <2>2. \A d \in Draft : status[d] = "branch_pushed" => failed'[d] = failed[d]
    BY <1>1, <1>3 DEF ApplyFails, RecordMisses, RecordApplyFailure, drafts
  <2>3. Mine(j)'
    BY <1>1, <2>1, <2>2 DEF Mine, Working
  <2> QED BY <1>1, <2>3, MineStays
<1>4. CASE Record(j)
  <2>1. PICK e \in Draft : e = job[j].draft
    BY <1>4, RecordDoes
  <2>2. /\ job[j].pc = "recording" /\ job'[j].pc \in {"looping", "opening"}
        /\ SeqSet(job'[j].pending) = SeqSet(job[j].pending) \cup {e}
        /\ status' = [status EXCEPT ![e] = "branch_pushed"] /\ failed' = [failed EXCEPT ![e] = FALSE]
    BY <1>4, <2>1, RecordDoes DEF MarkBranchPushed
  <2>3. \A d \in SeqSet(job'[j].pending) : status'[d] = "branch_pushed" /\ ~failed'[d]
    BY <1>1, <2>2 DEF Mine, Working
  <2>4. Mine(j)'
    BY <2>3 DEF Mine
  <2> QED BY <1>1, <2>4, MineStays
<1>5. CASE OpenPr(j)
  <2>1. job'[j].pc \in {"reporting", "done"}
    BY <1>5 , OpenDoes, GoDoes DEF OpenPr, Place
  <2>2. Mine(j)'
    BY <2>1 DEF Mine, Working
  <2> QED BY <1>1, <2>2, MineStays
<1>6. CASE OpenPrFails(j)
  <2>1. /\ job[j].pc = "opening" /\ status' = status
        /\ IF j \in Run THEN job'[j].pc = "failing" /\ job'[j].pending = job[j].pending ELSE job'[j].pc = "done"
    BY <1>6, OpenDoes DEF Carries
  <2>2. Mine(j)'
    BY <1>1, <2>1 DEF Mine, Working
  <2> QED BY <1>1, <2>2, MineStays
<1> QED BY <1>2, <1>3, <1>4, <1>5, <1>6 DEF ItemStep

\* A run's batch.
LEMMA RunIsMine ==
  ASSUME Alone, BatchInv, MineInv, NEW r \in Run, RunStep(r)
  PROVE  MineInv'
<1>1. /\ r \in Job /\ Only(r) /\ (Underway(r) \/ MayStart(r)) /\ Mine(r)
      /\ status \in [Draft -> Status] /\ failed \in [Draft -> BOOLEAN] /\ job[r].pending \in Seq(Draft)
  BY JobStepsAlone, Parameters DEF MineInv, BatchInv, Types, DraftTypes, JobTypes, JobType
<1>2. SeqSet(job[r].pending) \subseteq Draft
  BY <1>1 DEF SeqSet
<1>3. CASE Begin(r)
  <2>1. SeqSet(job'[r].pending) = {}
    BY <1>3, BeginDoes DEF Carries, SeqSet
  <2> QED BY <1>1, <2>1, MineStays DEF Mine
<1>4. ASSUME NEW d \in Draft, ApproveNext(r, d) PROVE MineInv'
  <2>1. job[r].pc = "looping" /\ job'[r].pending = job[r].pending /\ failed' = failed
        /\ status' = [status EXCEPT ![d] = "approved"] /\ status[d] \in {"new", "approved"}
    BY <1>4, TakeDoes DEF ApproveNext
  <2>2. Mine(r)'
    BY <1>1, <1>2, <2>1 DEF Mine, Working
  <2> QED BY <1>1, <2>2, MineStays
<1>5. ASSUME NEW d \in Draft, JoinAwaitingPr(r, d) PROVE MineInv'
  <2>1. /\ job[r].pc = "looping" /\ job'[r].pending = Append(job[r].pending, d)
        /\ UNCHANGED <<status, failed>> /\ status[d] = "branch_pushed" /\ ~failed[d]
    BY <1>5, TakeDoes
  <2>2. SeqSet(job'[r].pending) = SeqSet(job[r].pending) \cup {d}
    BY <1>1, <2>1, SeqSetOf
  <2>3. Mine(r)'
    BY <1>1, <2>1, <2>2 DEF Mine, Working
  <2> QED BY <1>1, <2>3, MineStays
<1>6. ASSUME NEW d \in Draft, ResetStranded(r, d) PROVE MineInv'
  <2>1. /\ job[r].pc = "looping" /\ job'[r].pending = job[r].pending /\ failed' = failed
        /\ failed[d] /\ \A e \in Draft : e # d => status'[e] = status[e]
    BY <1>1, <1>6, TakeDoes DEF ResetStranded, MarkAbandoned
  <2>2. d \notin SeqSet(job[r].pending)
    BY <1>1, <2>1 DEF Mine, Working
  <2>3. Mine(r)'
    BY <1>1, <1>2, <2>1, <2>2 DEF Mine, Working
  <2> QED BY <1>1, <2>3, MineStays
<1>7. ASSUME NEW d \in Draft, CountFinished(r, d) PROVE MineInv'
  <2>1. job[r].pc = "looping" /\ job'[r].pending = job[r].pending /\ UNCHANGED <<status, failed>>
    BY <1>7, TakeDoes DEF CountFinished
  <2>2. Mine(r)'
    BY <1>1, <2>1 DEF Mine, Working
  <2> QED BY <1>1, <2>2, MineStays
<1>8. CASE EndBatch(r) \/ MoveRef(r) \/ MoveRefFails(r)
  <2>1. /\ job[r].pc \in {"looping", "moving"} /\ job'[r].pc \in {"moving", "reporting", "opening", "failing"}
        /\ job'[r].pending = job[r].pending /\ UNCHANGED <<status, failed>>
    BY <1>8, EndBatchDoes, MoveDoes DEF Carries
  <2>2. Mine(r)'
    BY <1>1, <2>1 DEF Mine, Working
  <2> QED BY <1>1, <2>2, MineStays
<1>9. CASE GiveUpEmpty(r) \/ ReportShipped(r) \/ ReportFailed(r)
  <2>1. job'[r].pc = "done"
    BY <1>9, RunLeavesDoes
  <2>2. Mine(r)'
    BY <2>1 DEF Mine, Working
  <2> QED BY <1>1, <2>2, MineStays
<1> QED BY <1>3, <1>4, <1>5, <1>6, <1>7, <1>8, <1>9 DEF RunStep

\* Every step.
LEMMA MineStep ==
  ASSUME Alone, BatchInv, MineInv, [Next]_vars
  PROVE  MineInv'
<1>1. Turns'
  BY TurnsStep DEF MineInv
<1>2. ASSUME NEW h \in Human, NEW d \in Draft, PersonApproves(h, d) PROVE MineInv'
  <2>1. h \in Job /\ MayStart(h) /\ Only(h) /\ SeqSet(job'[h].pending) = {}
    BY <1>2, PersonDoes DEF SeqSet
  <2>2. Mine(h)'
    BY <2>1 DEF Mine
  <2> QED BY <2>1, <2>2, MineStays
<1>3. CASE Sweeping
  <2>1. job' = job /\ \A j \in Job : ~Underway(j)
    BY <1>3, SweepingAlone DEF MineInv, Turns, MayStart
  <2>2. \A j \in Job : Mine(j)'
    BY <2>1 DEF Mine, Underway, Working
  <2>3. SeenWaits'
    <3>1. Asleep.pc = "idle" /\ sweep \in SweepType
      BY DEF Asleep, BatchInv, Types, SweepTypes
    <3>2. CASE SweepList
      BY <3>2 DEF SweepList, SeenWaits
    <3>3. CASE SweepCompare \/ SweepRecheck
      BY <3>1, <3>3 DEF SweepCompare, SweepRecheck, SeenWaits, MineInv, SweepType
    <3>4. CASE SweepReadFails
      BY <3>1, <3>4 DEF SweepReadFails, SeenWaits, MineInv, SweepType
    <3>5. CASE SweepSettle \/ SweepOpen \/ SweepOpenFails
      BY <3>1, <3>5 DEF SweepSettle, SweepOpen, SweepOpenFails, SeenWaits, MineInv, SweepType
    <3> QED BY <1>3, <3>2, <3>3, <3>4, <3>5 DEF Sweeping
  <2> QED BY <1>1, <2>2, <2>3 DEF MineInv
<1>4. ASSUME NEW p \in Process, Crash(p) PROVE MineInv'
  <2>1. UNCHANGED <<status, failed>> /\ sweep' \in {sweep, Asleep}
        /\ \A k \in Job : job'[k] = job[k] \/ job'[k].pc = "done"
    BY <1>4, CrashDoes
  <2>2. SeenWaits'
    BY <2>1 DEF MineInv, SeenWaits, Asleep
  <2>3. \A j \in Job : Mine(j)'
    BY <2>1 DEF MineInv, Mine, Working
  <2> QED BY <1>1, <2>2, <2>3 DEF MineInv
<1>5. CASE MainMoves \/ UNCHANGED vars
  <2>1. UNCHANGED <<status, failed, job, sweep>>
    BY <1>5, NobodyMoves
  <2> QED BY <1>1, <2>1 DEF MineInv, Mine, SeenWaits
<1> QED BY <1>2, <1>3, <1>4, <1>5, ItemIsMine, RunIsMine, ByWhom

\* A draft gets into the pull request only where there is one, and does not leave it.
LEMMA WhoReports ==
  ASSUME BatchInv, MineInv, [Next]_vars, NEW d \in Draft
  PROVE  /\ status'[d] = "pr_opened" => status[d] = "pr_opened" \/ pr'
         /\ status[d] = "pr_opened" => status'[d] = "pr_opened"
<1>1. status \in [Draft -> Status]
  BY DEF BatchInv, Types, DraftTypes
<1>2. ASSUME NEW j \in Job, ItemStep(j)
      PROVE  status'[d] = status[d] \/ (status[d] # "pr_opened" /\ (status'[d] = "pr_opened" => pr'))
  <2>1. CASE Resolve(j) \/ Stage(j) \/ ApplyFails(j) \/ RecordMisses(j) \/ OpenPrFails(j)
    BY <2>1, ResolveDoes, StageDoes, ItemEndsDoes, OpenDoes
  <2>2. CASE Record(j)
    <3>1. PICK e \in Draft : e = job[j].draft
      BY <2>2, RecordDoes
    <3>2. status' = [status EXCEPT ![e] = "branch_pushed"] /\ status[e] = "approved"
      BY <2>2, <3>1, RecordDoes DEF MarkBranchPushed
    <3> QED BY <1>1, <3>2
  <2>3. CASE OpenPr(j)
    BY <1>1, <2>3 DEF OpenPr, MarkPrOpened
  <2> QED BY <1>2, <2>1, <2>2, <2>3 DEF ItemStep
<1>3. ASSUME NEW r \in Run, RunStep(r)
      PROVE  status'[d] = status[d] \/ (status[d] # "pr_opened" /\ status'[d] # "pr_opened")
  <2>1. r \in Job /\ Mine(r)
    BY Parameters DEF MineInv
  <2>2. CASE Begin(r) \/ EndBatch(r) \/ GiveUpEmpty(r) \/ MoveRef(r) \/ MoveRefFails(r) \/ ReportShipped(r)
    BY <2>2, BeginDoes, EndBatchDoes, MoveDoes, RunLeavesDoes
  <2>3. ASSUME NEW e \in Draft, ApproveNext(r, e) PROVE status'[d] = status[d] \/ (status[d] # "pr_opened" /\ status'[d] # "pr_opened")
    BY <1>1, <2>3 DEF ApproveNext
  <2>4. ASSUME NEW e \in Draft, JoinAwaitingPr(r, e) \/ CountFinished(r, e) PROVE status' = status
    BY <2>4 DEF JoinAwaitingPr, CountFinished
  <2>5. ASSUME NEW e \in Draft, ResetStranded(r, e) PROVE status'[d] = status[d] \/ (status[d] # "pr_opened" /\ status'[d] # "pr_opened")
    BY <1>1, <2>5 DEF ResetStranded, MarkAbandoned
  <2>6. CASE ReportFailed(r)
    <3>1. \A e \in SeqSet(job[r].pending) : status[e] = "branch_pushed"
      BY <2>1, <2>6 DEF Mine, ReportFailed
    <3> QED BY <1>1, <2>6, <3>1 DEF ReportFailed, RecordMergeFailure, MarkAbandoned
  <2> QED BY <1>3, <2>2, <2>3, <2>4, <2>5, <2>6 DEF RunStep
<1>4. ASSUME NEW h \in Human, NEW e \in Draft, PersonApproves(h, e)
      PROVE  status'[d] = status[d] \/ (status[d] # "pr_opened" /\ status'[d] # "pr_opened")
  BY <1>1, <1>4 DEF PersonApproves
<1>5. CASE Sweeping
  <2>1. CASE SweepList \/ SweepCompare \/ SweepRecheck \/ SweepReadFails \/ SweepOpenFails
    BY <2>1 DEF SweepList, SweepCompare, SweepRecheck, SweepReadFails, SweepOpenFails, RecordMergeFailure
  <2>2. CASE SweepSettle
    BY <1>1, <2>2 DEF SweepSettle, MineInv, SeenWaits
  <2>3. CASE SweepOpen
    BY <1>1, <2>3 DEF SweepOpen, MarkPrOpened
  <2> QED BY <1>5, <2>1, <2>2, <2>3 DEF Sweeping
<1>6. (\E p \in Process : Crash(p)) \/ MainMoves \/ UNCHANGED vars => status' = status
  BY CrashDoes, NobodyMoves
<1> QED BY <1>2, <1>3, <1>4, <1>5, <1>6, ByWhom

\* At the start nobody has anything.
LEMMA MineStarts ==
  ASSUME Init
  PROVE  MineInv
<1>1. \A j \in Job : job[j].pc = "idle" /\ sweep.pc = "idle"
  BY DEF Init, AtRest, Asleep
<1>2. sweep.pc = "idle"
  BY DEF Init, Asleep
<1>3. \A j \in Job : job[j].pc = "idle"
  BY <1>1
<1> QED BY <1>2, <1>3 DEF MineInv, Turns, OneAtATime, Underway, SeenWaits, Mine, Working

-----------------------------------------------------------------------------
(* The day, as whoever reviews the pull request sees it.                   *)

InPr == {d \in Draft : status[d] = "pr_opened"}
Commits == IF tip = NoBranch THEN <<>> ELSE tip.log

DayInv == PlanInv /\ ContentInv /\ MineInv

\* A step adds to the branch, reports what is on it, or is not seen.
LEMMA DayStep ==
  ASSUME BatchInv, BatchInv', DayInv, DayInv', [Next]_vars, OnBranch \subseteq OnBranch'
  PROVE  [Day!Next]_<<OnBranch, Commits, pr, InPr>>
<1>1. InPr \subseteq InPr' /\ (InPr' # InPr => pr')
  BY WhoReports DEF DayInv, InPr
<1>2. InPr' \subseteq OnBranch'
  BY DEF DayInv, ContentInv, Contents, Pushed, InPr
<1>3. CASE tip' = tip
  <2>1. OnBranch' = OnBranch /\ Commits' = Commits
    BY <1>3 DEF OnBranch, Commits
  <2>2. pr' = pr \/ pr'
    <3>1. SweepOpen => pr'
      BY DEF SweepOpen
    <3>2. \A j \in Job : OpenPr(j) => pr'
      BY DEF OpenPr
    <3> QED BY <3>1, <3>2, WhoPushes
  <2>3. CASE pr' /\ (pr' # pr \/ InPr' # InPr)
    <3>1. Day!Report
      BY <1>1, <1>2, <2>1, <2>3 DEF Day!Report, InPr, Commits
    <3> QED BY <3>1 DEF Day!Next
  <2>4. CASE pr' = pr /\ InPr' = InPr
    BY <2>1, <2>4
  <2> QED BY <1>1, <2>2, <2>3, <2>4
<1>4. CASE tip' # tip
  <2>1. PICK j \in Job : Resolve(j) \/ Stage(j) \/ (j \in Run /\ MoveRef(j))
    BY <1>4, WhoPushes
  <2>2. UNCHANGED <<status, pr>>
    BY <2>1, ResolveDoes, StageDoes, MoveDoes
  <2>3. InPr' = InPr
    BY <2>2 DEF InPr
  <2>4. pr => Day!Continues(Commits', Commits)
    <3>1. SUFFICES ASSUME pr PROVE Day!Continues(Commits', Commits)
      OBVIOUS
    <3>2. tip # NoBranch /\ tip' # NoBranch
      BY <2>2, <3>1 DEF DayInv, PlanInv, HasTips
    <3>3. Continues(tip'.log, tip.log)
      BY <3>1, ReviewStays DEF DayInv
    <3> QED BY <3>2, <3>3 DEF Day!Continues, Continues, Commits
  <2>5. OnBranch' \subseteq Draft
    BY DEF BatchInv, Types, GithubTypes, Tip, OnBranch
  <2>6. Day!Push
    BY <2>2, <2>3, <2>4, <2>5 DEF Day!Push, InPr, Commits
  <2> QED BY <2>6 DEF Day!Next
<1> QED BY <1>3, <1>4

\* The day of BatchShip is a day of DayPullRequest, when runs, people and sweeps take
\* turns, nobody approves a draft in a process that runs ship stages, and no process is
\* killed or no finished draft is re-offered: work is only added to the branch, commits
\* under review stay as they are, and a draft reported in the pull request is in it for
\* good, through every plan, refused push, failed call, sweep and crash.
THEOREM DayRefines ==
  ASSUME Alone, Apart, Repair = {} \/ MaxCrash = 0
  PROVE  Spec => ImplementsDayPullRequest
<1>1. Init => Day!Init
  BY DEF Init, Day!Init, OnBranch
<1>2. Init => DayInv
  BY PlanStarts, ContentStarts, MineStarts DEF DayInv
<1>3. BatchInv /\ DayInv /\ [Next]_vars => DayInv'
  BY PlanStep, ContentStep, MineStep DEF DayInv
<1>4. BatchInv /\ BatchInv' /\ DayInv /\ DayInv' /\ [Next]_vars => [Day!Next]_<<OnBranch, Commits, pr, InPr>>
  <2>1. DayInv => \A r \in Run : job[r].pc = "moving" => OnBranch \subseteq job[r].commit.tree
    BY Parameters DEF DayInv, ContentInv, KeptInv, Keeps
  <2> QED BY <2>1, BranchGrows, DayStep
<1> QED BY <1>1, <1>2, <1>3, <1>4, BatchIsTyped, PTL
        DEF Spec, Fairness, ImplementsDayPullRequest, Day!Spec, Commits, InPr

=============================================================================
