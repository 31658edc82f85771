----------------------------- MODULE DesignAgent -----------------------------
(***************************************************************************)
(* The Design Agent of one site: who queues a design-profile job, the      *)
(* worker processes that claim and run it (design-agent/worker.js), the    *)
(* reclaim that hands back the jobs of dead workers                        *)
(* (store/execution-jobs.js), and the configuration row the outcome is     *)
(* written to (db.js, migration 249, lib/json-merge3.js).                  *)
(*                                                                         *)
(* A derivation is known by a number; `templates` holds the number of the  *)
(* profile they were projected from.  Captures, model calls, validation    *)
(* and audit records are outcomes.                                         *)
(***************************************************************************)
EXTENDS Naturals, FiniteSets

CONSTANTS
  Worker,       \* worker processes
  Drafter,      \* the process that generates a draft
  Caller,       \* code that asks for a derivation: sweeps, rescans, drafts
  MaxReclaims,  \* MAX_RECLAIMS
  Attempts,     \* runWithRetry's maxAttempts
  Retain,       \* versions of the map the trigger keeps
  MaxJob,       \* bound: jobs ever queued
  MaxStamp,     \* bound: profiles derived and checks stamped
  MaxEdit,      \* bound: edits by people
  MaxCrash,     \* bound: workers killed
  MaxSlow,      \* bound: jobs taken for stale although their worker lives
  MaxFault      \* bound: awaits that throw

Job == 1 .. MaxJob
Stamp == 0 .. MaxStamp
None == 0       \* no job, no profile, no template, never checked

ASSUME DesignAgentAssumption ==
  /\ {MaxReclaims, Retain, MaxJob, MaxStamp, MaxEdit, MaxCrash, MaxSlow, MaxFault} \subseteq Nat
  /\ Attempts \in Nat \ {0}
  /\ IsFiniteSet(Worker) /\ Drafter \notin Worker

VARIABLES
  job,      \* execution_jobs
  site,     \* sites.url_file_map: the places that matter here, and _rev
  worker,   \* what each worker process is doing
  caller,   \* callers that found no pending job
  drafter,  \* a draft being generated for a component without a template
  stamps, edits, crashes, slow, faults

bounds == <<stamps, edits, crashes, slow, faults>>
vars == <<job, site, worker, caller, drafter, stamps, edits, crashes, slow, faults>>

Key == {"profile", "checked", "templates", "pages"}
Map == [Key -> Nat]
Row == [data : Map, rev : Nat]
NoRow == [data |-> [k \in Key |-> None], rev |-> 0]

Status == {"none", "queued", "executing", "completed", "failed"}
Ended == {"completed", "failed"}
Saving == {"refreshing", "saving", "projecting"}
Trying == Saving \cup {"handling", "fetching", "completing"}
Place == Trying \cup {"idle", "reclaiming", "claimed", "failing"}

Idle == [pc |-> "idle", job |-> None, attempt |-> 0, out |-> None, at |-> 0,
         row |-> NoRow, stale |-> [j \in Job |-> 0]]

TypeOK ==
  /\ job \in [Job -> [status : Status, reclaims : Nat, kept : BOOLEAN]]
  /\ site \in Row
  /\ \A w \in Worker :
       /\ worker[w].pc \in Place /\ worker[w].job \in Job \cup {None}
       /\ worker[w].attempt \in 0 .. Attempts /\ worker[w].out \in Stamp
       /\ worker[w].at \in Stamp /\ worker[w].row \in Row
       /\ worker[w].stale \in [Job -> Nat]
  /\ caller \in [Caller -> BOOLEAN]
  /\ drafter \in Row
  /\ stamps \in Stamp /\ edits \in 0 .. MaxEdit
  /\ crashes \in 0 .. MaxCrash /\ slow \in 0 .. MaxSlow /\ faults \in 0 .. MaxFault

Init ==
  /\ job = [j \in Job |-> [status |-> "none", reclaims |-> 0, kept |-> FALSE]]
  /\ site = [NoRow EXCEPT !.rev = 1]
  /\ worker = [w \in Worker |-> Idle]
  /\ caller = [c \in Caller |-> FALSE]
  /\ drafter = NoRow
  /\ stamps = 0 /\ edits = 0 /\ crashes = 0 /\ slow = 0 /\ faults = 0

-----------------------------------------------------------------------------
(* Writing the map from a row read earlier: updateSiteRepoConfig, the       *)
(* trigger that refuses a stale revision, and the merge that recovers.      *)

\* Mutant: the merge takes the row as it is.
MergedTheirs(base, theirs, ours) == [k \in Key |-> theirs[k]]

\* merge3 per place: the one only the writer changed is the writer's.
Merged(base, theirs, ours) ==
  [k \in Key |-> IF ours[k] = base[k] THEN theirs[k] ELSE ours[k]]

Conflicts(base, theirs, ours) ==
  {k \in Key : ours[k] # base[k] /\ theirs[k] # base[k] /\ ours[k] # theirs[k]}

\* The trigger keeps the versions since the current one, less one, less Retain.
Retained(read) == site.rev - read.rev <= Retain + 1

\* Mutant: conflicts are not looked for.
AcceptedRetained(read, ours) == read.rev = site.rev \/ Retained(read)

Accepted(read, ours) ==
  \/ read.rev = site.rev
  \/ Retained(read) /\ Conflicts(read.data, site.data, ours) = {}

\* An UPDATE that changes nothing leaves the revision alone.
Stored(read, ours) ==
  LET new == IF read.rev = site.rev THEN ours ELSE Merged(read.data, site.data, ours)
  IN  [data |-> new, rev |-> IF new = site.data THEN site.rev ELSE site.rev + 1]

-----------------------------------------------------------------------------
(* Queueing.                                                                *)

Pending(j) == job[j].status \in {"queued", "executing"}

\* Each caller looks for a pending job and inserts one later if it saw none.
Look(c) ==
  /\ ~caller[c] /\ \A j \in Job : ~Pending(j)
  /\ caller' = [caller EXCEPT ![c] = TRUE]
  /\ UNCHANGED <<job, site, worker, drafter, bounds>>

Enqueue(c) ==
  /\ caller[c] /\ caller' = [caller EXCEPT ![c] = FALSE]
  /\ \E j \in Job :
       /\ job[j].status = "none" /\ \A i \in Job : i < j => job[i].status # "none"
       /\ job' = [job EXCEPT ![j].status = "queued"]
  /\ UNCHANGED <<site, worker, drafter, bounds>>

-----------------------------------------------------------------------------
(* A worker's poll: reclaim, then claim.                                    *)

Step(w, next) == worker' = [worker EXCEPT ![w] = next]
Go(w, pc) == Step(w, [worker[w] EXCEPT !.pc = pc])
Fail(w) == Step(w, [worker[w] EXCEPT !.pc = "failing", !.row = NoRow])
Await(w) == faults < MaxFault /\ faults' = faults + 1

Live(j) == \E w \in Worker : worker[w].job = j

\* The UPDATE reads which jobs have been executing for too long, and how often each was
\* reclaimed.  That is meant for dead workers; nothing stops a live one from being slow.
ReclaimRead(w) ==
  /\ worker[w].pc = "idle"
  /\ \E S \in SUBSET {j \in Job : job[j].status = "executing"} :
       /\ S # {}
       /\ slow' = slow + Cardinality({j \in S : Live(j)}) /\ slow' <= MaxSlow
       /\ Step(w, [Idle EXCEPT !.pc = "reclaiming",
                               !.stale = [j \in Job |-> IF j \in S THEN job[j].reclaims + 1 ELSE 0]])
  /\ UNCHANGED <<job, site, caller, drafter, stamps, edits, crashes, faults>>

\* Mutants: one requeue too many; a job that used up its reclaims is left as it is; a job that
\* used them up gets a status nobody knows.
ReclaimedOnceMore(j, read) ==
  IF read = 0 THEN job[j]
  ELSE IF read > MaxReclaims + 1 THEN [job[j] EXCEPT !.status = "failed"]
  ELSE [job[j] EXCEPT !.status = "queued", !.reclaims = @ + 1]

ReclaimedOrLeft(j, read) ==
  IF read = 0 \/ read > MaxReclaims THEN job[j]
  ELSE [job[j] EXCEPT !.status = "queued", !.reclaims = @ + 1]

ReclaimedAsStale(j, read) ==
  IF read = 0 THEN job[j]
  ELSE IF read > MaxReclaims THEN [job[j] EXCEPT !.status = "stale"]
  ELSE [job[j] EXCEPT !.status = "queued", !.reclaims = @ + 1]

\* It then writes the rows.  One that another statement changed in between is only checked
\* again for `execution_jobs.id = prior.id`; status and count are those read above.
Reclaimed(j, read) ==
  IF read = 0 THEN job[j]
  ELSE IF read > MaxReclaims THEN [job[j] EXCEPT !.status = "failed"]
  ELSE [job[j] EXCEPT !.status = "queued", !.reclaims = @ + 1]

ReclaimWrite(w) ==
  /\ worker[w].pc = "reclaiming"
  /\ job' = [j \in Job |-> Reclaimed(j, worker[w].stale[j])]
  /\ Step(w, Idle)
  /\ UNCHANGED <<site, caller, drafter, bounds>>

\* The oldest queued job, outside the quiet hours.
Claim(w) ==
  /\ worker[w].pc = "idle"
  /\ \E j \in Job :
       /\ job[j].status = "queued" /\ \A i \in Job : i < j => job[i].status # "queued"
       /\ job' = [job EXCEPT ![j].status = "executing"]
       /\ Step(w, [Idle EXCEPT !.pc = "claimed", !.job = j, !.attempt = 1])
  /\ UNCHANGED <<site, caller, drafter, bounds>>

\* The log line of the claim is written before the try begins.
LogClaim(w) ==
  /\ worker[w].pc = "claimed"
  /\ \/ Go(w, "handling") /\ UNCHANGED faults
     \/ Await(w) /\ Step(w, Idle)
  /\ UNCHANGED <<job, site, caller, drafter, stamps, edits, crashes, slow>>

-----------------------------------------------------------------------------
(* Running a job (processOneJob).                                           *)

\* The handler's capture and model call take minutes: no UPDATE is still at work after them.
Settled == \A w \in Worker : worker[w].pc # "reclaiming"

\* The live site differs from the stored profile, or there is none: a new derivation.
Derive(w) ==
  /\ worker[w].pc = "handling" /\ Settled /\ stamps < MaxStamp
  /\ stamps' = stamps + 1
  /\ Step(w, [worker[w] EXCEPT !.pc = "fetching", !.out = stamps + 1, !.at = stamps + 1])
  /\ UNCHANGED <<job, site, caller, drafter, edits, crashes, slow, faults>>

\* No drift: the profile the handler read is its outcome.
Rescan(w) ==
  /\ worker[w].pc = "handling" /\ Settled /\ stamps < MaxStamp
  /\ site.data.profile # None
  /\ stamps' = stamps + 1
  /\ Step(w, [worker[w] EXCEPT !.pc = "fetching", !.out = site.data.profile, !.at = stamps + 1])
  /\ UNCHANGED <<job, site, caller, drafter, edits, crashes, slow, faults>>

\* The handler throws: again if the failure is transient and attempts remain.
HandlerThrows(w) ==
  /\ worker[w].pc = "handling"
  /\ \/ /\ worker[w].attempt < Attempts
        /\ Step(w, [worker[w] EXCEPT !.attempt = @ + 1])
     \/ Fail(w)
  /\ UNCHANGED <<job, site, caller, drafter, bounds>>

\* skippedProfileDerivation: the outcome is older than this run.
Skipped(w) == worker[w].out # worker[w].at

FetchSite(w) ==
  /\ worker[w].pc = "fetching"
  /\ Step(w, [worker[w] EXCEPT !.pc = IF Skipped(w) THEN "refreshing" ELSE "saving", !.row = site])
  /\ UNCHANGED <<job, site, caller, drafter, bounds>>

\* The write of ours over the row the worker holds, and what the worker does next.
Save(w, ours, next) ==
  LET read == worker[w].row
  IN  IF Accepted(read, ours)
      THEN /\ site' = Stored(read, ours)
           /\ Step(w, [worker[w] EXCEPT !.pc = next, !.row = IF next = "projecting" THEN site' ELSE NoRow])
           /\ job' = [job EXCEPT ![worker[w].job].kept = TRUE]
      ELSE Fail(w) /\ UNCHANGED <<job, site>>

\* refreshDesignProfileCheckedAt: the handler's profile with a new lastCheckedAt.
Refresh(w) ==
  /\ worker[w].pc = "refreshing"
  /\ Save(w, [worker[w].row.data EXCEPT !.profile = worker[w].out, !.checked = worker[w].at], "completing")
  /\ UNCHANGED <<caller, drafter, bounds>>

\* Mutant: a refused save goes unnoticed.
SaveProfileUnchecked(w) ==
  /\ worker[w].pc = "saving"
  /\ \/ /\ Accepted(worker[w].row, [worker[w].row.data EXCEPT !.profile = worker[w].out, !.checked = None])
        /\ Save(w, [worker[w].row.data EXCEPT !.profile = worker[w].out, !.checked = None], "projecting")
     \/ Step(w, [worker[w] EXCEPT !.pc = "completing", !.row = NoRow]) /\ UNCHANGED <<job, site>>
  /\ UNCHANGED <<caller, drafter, bounds>>

\* persistDesignProfile, first save: the new profile was never checked again.
SaveProfile(w) ==
  /\ worker[w].pc = "saving"
  /\ Save(w, [worker[w].row.data EXCEPT !.profile = worker[w].out, !.checked = None], "projecting")
  /\ UNCHANGED <<caller, drafter, bounds>>

\* persistDerivedComponentTemplates, on the row the first save returned.
SaveTemplates(w) ==
  /\ worker[w].pc = "projecting"
  /\ Save(w, [worker[w].row.data EXCEPT !.templates = worker[w].out], "completing")
  /\ UNCHANGED <<caller, drafter, bounds>>

\* finishExecutionJob, whoever has the job by now.
Finish(w, status) ==
  /\ job' = [job EXCEPT ![worker[w].job].status = status]
  /\ Step(w, Idle)

FinishCompleted(w) ==
  /\ worker[w].pc = "completing"
  /\ Finish(w, "completed")
  /\ UNCHANGED <<site, caller, drafter, bounds>>

FinishFailed(w) ==
  /\ worker[w].pc = "failing"
  /\ \/ Finish(w, "failed") /\ UNCHANGED faults
     \/ Await(w) /\ Step(w, Idle) /\ UNCHANGED job
  /\ UNCHANGED <<site, caller, drafter, stamps, edits, crashes, slow>>

\* Anything awaited inside the try may throw.
TryThrows(w) ==
  /\ worker[w].pc \in Trying \ {"handling"}
  /\ Await(w) /\ Fail(w)
  /\ UNCHANGED <<job, site, caller, drafter, stamps, edits, crashes, slow>>

Run(w) ==
  \/ LogClaim(w) \/ Derive(w) \/ Rescan(w) \/ HandlerThrows(w) \/ FetchSite(w)
  \/ Refresh(w) \/ SaveProfile(w) \/ SaveTemplates(w)
  \/ FinishCompleted(w) \/ FinishFailed(w) \/ TryThrows(w)

Poll(w) == ReclaimRead(w) \/ ReclaimWrite(w) \/ Claim(w) \/ Run(w)

Crash(w) ==
  /\ crashes < MaxCrash /\ worker[w].pc # "idle"
  /\ crashes' = crashes + 1
  /\ Step(w, Idle)
  /\ UNCHANGED <<job, site, caller, drafter, stamps, edits, slow, faults>>

-----------------------------------------------------------------------------
(* Other writers of the map.                                                *)

\* resolveOrCreateComponentTemplate: no template yet, and a profile to project it from.
DraftReads ==
  /\ drafter.rev = 0
  /\ site.data.templates = None /\ site.data.profile # None
  /\ drafter' = site
  /\ UNCHANGED <<job, site, worker, caller, bounds>>

DraftProjects ==
  LET ours == [drafter.data EXCEPT !.templates = drafter.data.profile]
  IN  /\ drafter.rev # 0 /\ drafter' = NoRow
      /\ site' = IF Accepted(drafter, ours) THEN Stored(drafter, ours) ELSE site
      /\ UNCHANGED <<job, worker, caller, bounds>>

\* patchUrlFileMap, under the row's lock.
Edit ==
  /\ edits < MaxEdit /\ edits' = edits + 1
  /\ site' = [data |-> [site.data EXCEPT !.pages = edits + 1], rev |-> site.rev + 1]
  /\ UNCHANGED <<job, worker, caller, drafter, stamps, crashes, slow, faults>>

Next ==
  \/ \E c \in Caller : Look(c) \/ Enqueue(c)
  \/ \E w \in Worker : Poll(w) \/ Crash(w)
  \/ DraftReads \/ DraftProjects \/ Edit

\* Workers poll for ever, are restarted when they die, and a capture ends.
Spec == Init /\ [][Next]_vars /\ \A w \in Worker : WF_vars(Poll(w))

-----------------------------------------------------------------------------
(* Properties.                                                              *)

\* No writer of the map silently loses an update, and no write that succeeds takes back
\* what another one stored since the writer read the row (migration 249).
Held(row) == IF row.rev = 0 THEN {} ELSE {row.data}

Store == INSTANCE ConfigStore WITH
  Client <- Worker \cup {Drafter}, Locked <- {"pages"}, Value <- Nat,
  data <- site.data,
  seen <- [c \in Worker \cup {Drafter} |-> Held(IF c = Drafter THEN drafter ELSE worker[c].row)]
ImplementsConfigStore == Store!Spec

\* A worker that goes on after a save finds what it saved in the map, whatever was merged.
SavedIsStored ==
  [][\A w \in Worker :
       /\ worker[w].pc = "saving" /\ worker'[w].pc = "projecting"
            => site'.data.profile = worker[w].out
       /\ worker[w].pc = "projecting" /\ worker'[w].pc = "completing"
            => site'.data.templates = worker[w].out]_vars

\* A completed job left its profile, or the proof that it still holds, in the map: worker.js,
\* "trust a 'completed' row that changed nothing".
CompletedIsKept == \A j \in Job : job[j].status = "completed" => job[j].kept

\* A job that stops its worker each time is not run for ever: it goes back to the queue
\* MAX_RECLAIMS times, and once more for every other worker whose reclaim read it too.
RequeuesBounded ==
  \A j \in Job : job[j].reclaims <= MaxReclaims + (IF Cardinality(Worker) = 0 THEN 0 ELSE Cardinality(Worker) - 1)

\* A queued job is ended, through crashes of its workers and lost writes.
JobsEnd == \A j \in Job : Pending(j) ~> job[j].status \in Ended

\* A check that found no drift leaves templates of the profile it checked, if there are any
\* (design-drift.js: "projectAllComponentTemplates over an unchanged profile can only ever
\* reproduce what's already saved"; missing ones are projected by the draft that needs them).
RefreshedIsProjected ==
  [][\A w \in Worker :
       worker[w].pc = "refreshing" /\ worker'[w].pc = "completing"
         => site.data.templates \in {None, worker[w].out}]_vars
=============================================================================
