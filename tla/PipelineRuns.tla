------------------------------ MODULE PipelineRuns ------------------------------
(***************************************************************************)
(* The daily pipeline of one project on one day: the passes that walk its  *)
(* stages (lib/daily-pipeline/orchestrator.js, index.js), the wrapper that *)
(* stops waiting for a walk (lib/site-run.js) and the checkpoint rows they *)
(* share (store/pipeline-runs.js).                                         *)
(*                                                                         *)
(* A pass holds the lock 'daily-pipeline:all-sites'.  When the pass stops  *)
(* waiting, its walk is not stopped: it runs on, without the lock, until   *)
(* it next asks isAborted.  Rows carry the project's id, so one project    *)
(* stands for each.  What a stage does is its outcome.                     *)
(***************************************************************************)
EXTENDS Naturals, FiniteSets

CONSTANTS
  Stages,       \* how many stages, in their order
  Required,     \* REQUIRED_STAGES
  Gated,        \* stages with a notBefore or a ready()
  MaySkip,      \* stages whose run can answer { skip }
  MaxAttempts,  \* PIPELINE_MAX_ATTEMPTS
  Passes,       \* passes the crons start in a day
  MaxCrash,     \* processes killed in the day
  MaxFault      \* writes of a checkpoint that fail in the day

Stage == 1 .. Stages
Pass == 1 .. Passes

ASSUME PipelineAssumption ==
  /\ Stages \in Nat /\ MaxAttempts \in Nat \ {0} /\ Passes \in Nat
  /\ MaxCrash \in Nat /\ MaxFault \in Nat
  /\ Required \subseteq Stage /\ Gated \subseteq Stage /\ MaySkip \subseteq Stage
  /\ Required \cap Gated = {} /\ Required \cap MaySkip = {}

VARIABLES
  row,       \* daily_pipeline_runs: the checkpoint of each stage
  walk,      \* what each pass does, or did, for this project
  holder,    \* the pass that holds the lock and waits for its walk, or 0
  late,      \* the preparation deadline has gone by
  open,      \* gated stages whose time has come and whose inputs are ready
  starts,    \* history: how often each stage was started
  produced,  \* history: stages that ran to their end at least once
  skips,     \* history: stages that answered { skip }
  belated,   \* history: stages last recorded done by a run its pass had given up on
  crashes, faults

rows == <<row, starts>>
history == <<produced, skips, belated>>
clock == <<late, open>>
bounds == <<crashes, faults>>
vars == <<row, walk, holder, late, open, starts, produced, skips, belated, crashes, faults>>

Status == {"none", "running", "done", "failed", "deferred", "skipped"}
Begin == {"inserting", "retaking", "reading"}
Place == Begin \cup {"idle", "checking", "executing", "ended"}

TypeOK ==
  /\ row \in [Stage -> [status : Status, attempts : 0 .. MaxAttempts]]
  /\ walk \in [Pass -> [pc : Place, at : 1 .. Stages + 1, aborted : BOOLEAN,
                        timed : 0 .. Stages, trusted : SUBSET Stage]]
  /\ holder \in 0 .. Passes
  /\ late \in BOOLEAN /\ open \subseteq Gated
  /\ starts \in [Stage -> 0 .. MaxAttempts]
  /\ produced \subseteq Stage /\ skips \subseteq Stage /\ belated \subseteq Stage
  /\ crashes \in 0 .. MaxCrash /\ faults \in 0 .. MaxFault

Init ==
  /\ row = [s \in Stage |-> [status |-> "none", attempts |-> 0]]
  /\ walk = [p \in Pass |-> [pc |-> "idle", at |-> 1, aborted |-> FALSE,
                             timed |-> 0, trusted |-> {}]]
  /\ holder = 0
  /\ late = FALSE /\ open = {}
  /\ starts = [s \in Stage |-> 0]
  /\ produced = {} /\ skips = {} /\ belated = {}
  /\ crashes = 0 /\ faults = 0

Underway(p) == walk[p].pc \notin {"idle", "ended"}
Go(p, pc) == walk' = [walk EXCEPT ![p].pc = pc]

\* The loop's next iteration, and its return.
NextStage(p) == walk' = [walk EXCEPT ![p].pc = "checking", ![p].at = @ + 1]
Return(p) == Go(p, "ended")

Record(s, status) == row' = [row EXCEPT ![s].status = status]
WriteFails == faults < MaxFault /\ faults' = faults + 1

-----------------------------------------------------------------------------
(* Mutated forms, used only to show that the properties below can fail.    *)

RetakeAnyFailed(p) ==
  LET s == walk[p].at
  IN  /\ walk[p].pc = "retaking"
      /\ IF row[s].status \in {"failed", "deferred", "done"} /\ row[s].attempts < MaxAttempts
         THEN /\ row' = [row EXCEPT ![s] = [status |-> "running", attempts |-> @.attempts + 1]]
              /\ starts' = [starts EXCEPT ![s] = @ + 1]
              /\ Go(p, "executing")
         ELSE Go(p, "reading") /\ UNCHANGED rows
      /\ UNCHANGED <<holder, clock, history, bounds>>

RetakeUncounted(p) ==
  LET s == walk[p].at
  IN  /\ walk[p].pc = "retaking"
      /\ IF row[s].status \in {"failed", "deferred"} /\ row[s].attempts < MaxAttempts
         THEN /\ row' = [row EXCEPT ![s].status = "running"]
              /\ starts' = [starts EXCEPT ![s] = @ + 1]
              /\ Go(p, "executing")
         ELSE Go(p, "reading") /\ UNCHANGED rows
      /\ UNCHANGED <<holder, clock, history, bounds>>

ReadOnwards(p) ==
  /\ walk[p].pc = "reading"
  /\ NextStage(p)
  /\ UNCHANGED <<rows, holder, clock, history, bounds>>

StopWaitingBetweenStages(p) ==
  /\ holder = p /\ Underway(p) /\ ~walk[p].aborted /\ walk[p].pc # "executing"
  /\ walk' = [walk EXCEPT ![p].aborted = TRUE]
  /\ holder' = 0
  /\ UNCHANGED <<rows, clock, history, bounds>>

-----------------------------------------------------------------------------
(* A pass (index.js).                                                      *)

\* runPipelinePass takes the lock; releaseStaleStages hands back the rows that have
\* been running for 90 minutes: at this moment nobody waits for any of them, and any
\* of them may be that old.  After the deadline the project is not started.
StartPass(p) ==
  /\ holder = 0 /\ ~late
  /\ walk[p].pc = "idle" /\ \A q \in Pass : q < p => walk[q].pc # "idle"
  /\ holder' = p
  /\ Go(p, "checking")
  /\ \E old \in SUBSET {s \in Stage : row[s].status = "running"} :
       row' = [s \in Stage |-> IF s \in old THEN [row[s] EXCEPT !.status = "failed"] ELSE row[s]]
  /\ UNCHANGED <<starts, clock, history, bounds>>

EndPass(p) ==
  /\ holder = p /\ walk[p].pc = "ended" /\ walk[p].timed = 0
  /\ holder' = 0
  /\ UNCHANGED <<rows, walk, clock, history, bounds>>

\* runSiteWithDeadline's hard limit: the pass stops waiting and reads `current`.
StopWaiting(p) ==
  /\ holder = p /\ Underway(p) /\ ~walk[p].aborted
  /\ walk' = [walk EXCEPT ![p].aborted = TRUE,
                          ![p].timed = IF walk[p].pc = "executing" THEN walk[p].at ELSE 0]
  /\ holder' = IF walk[p].pc = "executing" THEN p ELSE 0
  /\ UNCHANGED <<rows, clock, history, bounds>>

\* failStage for the stage in flight at that moment, whatever its row says by now; an
\* error of the write itself is swallowed.
RecordTimeout(p) ==
  LET s == walk[p].timed
  IN  /\ holder = p /\ s # 0
      /\ holder' = 0
      /\ walk' = [walk EXCEPT ![p].timed = 0]
      /\ \/ Record(s, "failed") /\ UNCHANGED faults
         \/ WriteFails /\ UNCHANGED row
      /\ UNCHANGED <<starts, clock, history, crashes>>

-----------------------------------------------------------------------------
(* A walk through the stages (orchestrator.js).                            *)

\* deferStage: a new row, or a failed one relabelled.
Deferred(r) == IF r.status \in {"none", "failed", "deferred"} THEN [r EXCEPT !.status = "deferred"] ELSE r

\* The top of the loop.
Check(p) ==
  LET s == walk[p].at
  IN  /\ walk[p].pc = "checking"
      /\ IF s > Stages \/ walk[p].aborted THEN Return(p) /\ UNCHANGED row
         ELSE IF late THEN NextStage(p) /\ row' = [row EXCEPT ![s] = Deferred(@)]
         ELSE /\ IF s \in Gated \ open THEN NextStage(p) ELSE Go(p, "inserting")
              /\ UNCHANGED row
      /\ UNCHANGED <<starts, holder, clock, history, bounds>>

\* beginStage is three statements: an INSERT that does nothing on conflict ...
Insert(p) ==
  LET s == walk[p].at
  IN  /\ walk[p].pc = "inserting"
      /\ IF row[s].status = "none"
         THEN /\ row' = [row EXCEPT ![s] = [status |-> "running", attempts |-> 1]]
              /\ starts' = [starts EXCEPT ![s] = @ + 1]
              /\ Go(p, "executing")
         ELSE Go(p, "retaking") /\ UNCHANGED rows
      /\ UNCHANGED <<holder, clock, history, bounds>>

\* ... an UPDATE that retakes a failed or deferred row while attempts remain ...
Retake(p) ==
  LET s == walk[p].at
  IN  /\ walk[p].pc = "retaking"
      /\ IF row[s].status \in {"failed", "deferred"} /\ row[s].attempts < MaxAttempts
         THEN /\ row' = [row EXCEPT ![s] = [status |-> "running", attempts |-> @.attempts + 1]]
              /\ starts' = [starts EXCEPT ![s] = @ + 1]
              /\ Go(p, "executing")
         ELSE Go(p, "reading") /\ UNCHANGED rows
      /\ UNCHANGED <<holder, clock, history, bounds>>

\* ... and a SELECT that says why not.  Only a required stage read as failed stops the
\* walk; one read as running is somebody else's, and the walk goes on without it.
Read(p) ==
  LET s == walk[p].at
      elsewhere == IF row[s].status = "running" THEN {s} ELSE {}
  IN  /\ walk[p].pc = "reading"
      /\ IF row[s].status = "failed" /\ s \in Required
         THEN Return(p)
         ELSE walk' = [walk EXCEPT ![p].pc = "checking", ![p].at = @ + 1,
                                   ![p].trusted = @ \cup elsewhere]
      /\ UNCHANGED <<rows, holder, clock, history, bounds>>

\* stage.run returned: finishStage, whoever has the row by now.
Finish(p) ==
  LET s == walk[p].at
  IN  /\ walk[p].pc = "executing"
      /\ Record(s, "done") /\ NextStage(p)
      /\ produced' = produced \cup {s}
      /\ belated' = IF walk[p].aborted THEN belated \cup {s} ELSE belated \ {s}
      /\ UNCHANGED <<starts, holder, clock, skips, bounds>>

\* stage.run returned { skip }: skipStage only inserts, and the row beginStage made is there.
Skip(p) ==
  LET s == walk[p].at
  IN  /\ walk[p].pc = "executing" /\ s \in MaySkip
      /\ IF row[s].status = "none" THEN Record(s, "skipped") ELSE UNCHANGED row
      /\ NextStage(p)
      /\ skips' = skips \cup {s}
      /\ UNCHANGED <<starts, holder, clock, produced, belated, bounds>>

\* The catch branch: failStage, whose own failure is swallowed; a required stage ends the walk.
AfterFailure(p) == IF walk[p].at \in Required THEN Return(p) ELSE NextStage(p)

\* stage.run threw.
Throw(p) ==
  /\ walk[p].pc = "executing"
  /\ \/ Record(walk[p].at, "failed") /\ UNCHANGED faults
     \/ WriteFails /\ UNCHANGED row
  /\ AfterFailure(p)
  /\ UNCHANGED <<starts, holder, clock, history, crashes>>

\* stage.run returned and finishStage threw: the catch branch records a failure.
FinishFails(p) ==
  LET s == walk[p].at
  IN  /\ walk[p].pc = "executing" /\ WriteFails
      /\ Record(s, "failed") /\ AfterFailure(p)
      /\ produced' = produced \cup {s}
      /\ UNCHANGED <<starts, holder, clock, skips, belated, crashes>>

-----------------------------------------------------------------------------
(* The day.                                                                *)

Deadline ==
  /\ ~late /\ late' = TRUE
  /\ UNCHANGED <<rows, walk, holder, open, history, bounds>>

Open(s) ==
  /\ s \in Gated \ open /\ open' = open \cup {s}
  /\ UNCHANGED <<rows, walk, holder, late, history, bounds>>

\* A process is killed with the walks in it; a lease it held runs out.
Crash ==
  /\ crashes < MaxCrash /\ crashes' = crashes + 1
  /\ \E dead \in SUBSET {p \in Pass : Underway(p) \/ holder = p} :
       /\ dead # {}
       /\ walk' = [p \in Pass |-> IF p \in dead THEN [walk[p] EXCEPT !.pc = "ended", !.timed = 0]
                                                ELSE walk[p]]
       /\ holder' = IF holder \in dead THEN 0 ELSE holder
  /\ UNCHANGED <<rows, clock, history, faults>>

Run(p) == Check(p) \/ Insert(p) \/ Retake(p) \/ Read(p) \/ Finish(p) \/ Skip(p)
          \/ Throw(p) \/ FinishFails(p)

Next ==
  \/ \E p \in Pass : StartPass(p) \/ EndPass(p) \/ StopWaiting(p) \/ RecordTimeout(p) \/ Run(p)
  \/ \E s \in Stage : Open(s)
  \/ Deadline \/ Crash

\* Timers fire and a pass does what follows; no stage is assumed to return.
Fairness == \A p \in Pass : WF_vars(EndPass(p)) /\ WF_vars(StopWaiting(p)) /\ WF_vars(RecordTimeout(p))

Spec == Init /\ [][Next]_vars /\ Fairness

-----------------------------------------------------------------------------
(* Properties.                                                             *)

\* However a day goes - crashes, timeouts, rows handed back, a deferred row retaken - a
\* stage is started at most maxAttempts times, and the row knows how often
\* (beginStage's WHERE; the tests only retry one stage in one pass after another).
StartsWithinBudget ==
  \A s \in Stage : starts[s] = row[s].attempts /\ starts[s] <= MaxAttempts

\* A stage after a required one starts only in a walk that knows the required one ran to
\* its end today, or that read its row as running somewhere else (config.js: "A later
\* stage needs what an earlier one produced").
ResearchFirst ==
  [][\A p \in Pass : \A r \in Required :
       walk[p].pc \in Begin /\ walk'[p].pc = "executing" /\ r < walk[p].at
         => r \in produced \/ r \in walk[p].trusted]_vars

\* A checkpoint recorded as done by a run its pass was still waiting for is taken back only
\* by a walk its pass has given up on (its run throws late, or its timeout is recorded for
\* a stage it has just finished): no waited-for pass, no stale release and no crash undoes
\* it.  A done that a given-up run recorded is not protected: a pass that retook the stage
\* meanwhile may throw, and its failStage then writes over it.
TimelyDoneIsKept ==
  [][\A s \in Stage \ belated :
       row[s].status = "done" /\ row'[s].status # "done"
         => \E p \in Pass : walk[p].aborted /\ walk'[p] # walk[p]]_vars

\* A pass always comes to an end, also when a stage never returns (lib/site-run.js: the
\* pass stops waiting), so one hung project cannot hold the lock all day.
PassEnds == \A p \in Pass : holder = p ~> holder # p

\* orchestrator.js: "{ skip: 'reason' }  not applicable today (stored as skipped; never retried)".
SkippedNeverRetried ==
  [][\A s \in skips : starts'[s] = starts[s]]_vars
=============================================================================
